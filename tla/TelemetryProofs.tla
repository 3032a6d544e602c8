--------------------------- MODULE TelemetryProofs ---------------------------
(* What holds of the telemetry streams (Telemetry) for every set of reports, *)
(* consumers and workers, any number of publications and any number of       *)
(* failures; of the real-time copy of a device (Latest) for any number of    *)
(* sweeping and projecting workers and every window and horizon; and of what *)
(* is made of the reports: the deadlines of an offline rule (OfflineAlerts), *)
(* the records of an alert rule and their events (AlertRecords), and the     *)
(* pages that show what has changed (LiveBus), for every set of workers,     *)
(* every duration and any number of changes and failures.                    *)
EXTENDS Telemetry, Latest, AlertRecords, OfflineAlerts, LiveBus,
        FiniteSetTheorems, WellFoundedInduction, TLAPS

USE LatestConstants DEF None, Absent, NotSweeping, Time, Until, State

----------------------------------------------------------------------------
(* The real-time copy                                                       *)

RuntimeType == [known : BOOLEAN, last : Time \cup {None}, until : Until \cup {None},
                state : State]
CopyType == [named : BOOLEAN, listed : BOOLEAN, value : Time \cup {None, Absent}]
Stage == {"idle", "check", "drop", "meta", "deadline", "points", "elements", "state"}
ProjType == [stage : Stage, at : Time, rebuild : BOOLEAN, kept : Until \cup {None},
             point : Time \cup {None}]

LEMMA RuntimeUpdate ==
  ASSUME NEW r \in RuntimeType, NEW s
  PROVE  [r EXCEPT !.state = s] = Runtime(r.known, r.last, r.until, s)
  BY DEF RuntimeType, Runtime

LEMMA FreshRecords ==
  /\ NoRuntime \in RuntimeType /\ NoRuntime.state = "none" /\ NoRuntime.known = FALSE
  /\ NoLatest \in CopyType
  /\ NotProjecting \in ProjType /\ NotProjecting.stage = "idle" /\ NotProjecting.at = 0
  BY DEF NoRuntime, Runtime, NoLatest, Copy, NotProjecting, Projection,
     RuntimeType,
         CopyType, ProjType, Stage

\* What a step does to the projections.
LEMMA ProjUpdates ==
  ASSUME proj \in [Projector -> ProjType], NEW p \in Projector, NEW b \in BOOLEAN,
         NEW k \in Until \cup {None}, NEW t \in Time \cup {None}, NEW g \in Stage,
         Go(p, g, b, k, t)
  PROVE  /\ proj' \in [Projector -> ProjType]
         /\ \A v \in Projector : proj'[v].at = proj[v].at
<1>1. /\ proj' = [proj EXCEPT ![p] = [stage |-> g, at |-> proj[p].at, rebuild |-> b,
                                     kept |-> k, point |-> t]]
      /\ proj[p].at \in Time
  BY DEF Go, Projection, ProjType
<1> QED BY <1>1 DEF ProjType

\* What the steps of a projection write to each record.
LEMMA ProjectionWrites ==
  ASSUME latest \in CopyType, proj \in [Projector -> ProjType], runtime \in RuntimeType,
         db \in Time \cup {None}, NEW p \in Projector, Project(p) \/ AbortProjection(p)
  PROVE  /\ proj' \in [Projector -> ProjType]
         /\ \A v \in Projector : proj'[v].at \in {proj[v].at, 0}
         /\ latest' \in CopyType
<1>0. proj[p] \in ProjType
  BY Zenon
<1>1. CASE ProjectState(p) \/ AbortProjection(p)
  <2>1. proj' = [proj EXCEPT ![p] = NotProjecting] /\ latest' = latest
    BY <1>1, Zenon DEF ProjectState, AbortProjection
  <2> QED BY <2>1, FreshRecords
<1>2. CASE CheckCopy(p)
  <2>1. /\ latest' = latest
        /\ \/ Go(p, "meta", FALSE, runtime.until, proj[p].point)
           \/ Go(p, "drop", TRUE, None, proj[p].point)
    BY <1>2, Zenon DEF CheckCopy
  <2>2. /\ runtime.until \in Until \cup {None} /\ proj[p].point \in Time \cup {None}
        /\ "meta" \in Stage /\ "drop" \in Stage
    BY <1>0 DEF RuntimeType, ProjType, Stage
  <2>3. /\ proj' \in [Projector -> ProjType]
        /\ \A v \in Projector : proj'[v].at = proj[v].at
    <3>1. CASE Go(p, "meta", FALSE, runtime.until, proj[p].point)
      BY <2>2, <3>1, ProjUpdates
    <3>2. CASE Go(p, "drop", TRUE, None, proj[p].point)
      BY <2>2, <3>2, ProjUpdates
    <3> QED BY <2>1, <3>1, <3>2
  <2> QED BY <2>1, <2>3
<1>3. CASE ReadPoints(p)
  <2>1. latest' = latest /\ Go(p, "elements", proj[p].rebuild, proj[p].kept, db)
    BY <1>3, Zenon DEF ReadPoints
  <2>2. /\ proj[p].rebuild \in BOOLEAN /\ proj[p].kept \in Until \cup {None}
        /\ "elements" \in Stage
    BY <1>0 DEF ProjType, Stage
  <2>3. /\ proj' \in [Projector -> ProjType]
        /\ \A v \in Projector : proj'[v].at = proj[v].at
    BY <2>1, <2>2, ProjUpdates
  <2> QED BY <2>1, <2>3
<1>4. CASE DropCopy(p) \/ ProjectMeta(p) \/ ProjectDeadline(p) \/ ProjectElements(p)
  <2>1. PICK g \in Stage : To(p, g)
    BY <1>4, Zenon DEF DropCopy, ProjectMeta, ProjectDeadline, ProjectElements,
       Stage
  <2>2. /\ proj' \in [Projector -> ProjType]
        /\ \A v \in Projector : proj'[v].at = proj[v].at
    <3>1. /\ proj[p].rebuild \in BOOLEAN /\ proj[p].kept \in Until \cup {None}
          /\ proj[p].point \in Time \cup {None}
      BY <1>0 DEF ProjType
    <3>2. Go(p, g, proj[p].rebuild, proj[p].kept, proj[p].point)
      BY <2>1 DEF To
    <3> QED BY <3>1, <3>2, ProjUpdates
  <2>3. CASE DropCopy(p)
    BY <2>2, <2>3, FreshRecords, Zenon DEF DropCopy
  <2>4. CASE ProjectDeadline(p)
    BY <2>2, <2>4, Zenon DEF ProjectDeadline
  <2>5. CASE ProjectMeta(p)
    <3>1. latest' = Copy(TRUE, latest.listed, latest.value)
      BY <2>5, Zenon DEF ProjectMeta
    <3>2. latest' \in CopyType
      BY <3>1 DEF Copy, CopyType
    <3> QED BY <2>2, <3>2
  <2>6. CASE ProjectElements(p)
    <3>1. latest' = Copy(latest.named, TRUE, Refreshed(p))
      BY <2>6, Zenon DEF ProjectElements
    <3>2. latest' \in CopyType
      BY <1>0, <3>1 DEF Copy, CopyType, ProjType, Refreshed
    <3> QED BY <2>2, <3>2
  <2> QED BY <1>4, <2>3, <2>4, <2>5, <2>6
<1> QED BY <1>1, <1>2, <1>3, <1>4, Zenon DEF Project

\* The type invariant, by variable.
LatestTypes ==
  /\ now \in Time /\ reports \subseteq Time /\ db \in Time \cup {None}
  /\ row \in {"live", "deleted", "runtime_gone", "latest_gone", "erased"}
  /\ runtime \in RuntimeType /\ latest \in CopyType /\ deadline \in Until \cup {None}
  /\ sweep \in [Sweeper -> Time \cup {NotSweeping}]
  /\ proj \in [Projector -> ProjType]
  /\ projections \in 0 .. MaxProjections
  /\ raced \in BOOLEAN /\ overlapped \in BOOLEAN

\* What the steps below need besides the property: a sweep and a projection
\* act on a time that has been; a device that is deleted is only projected by
\* projections the deletion overlapped; and what is left of an erased copy
\* does not say that its device is online.
Erasing ==
  /\ row = "live" => ~overlapped
  /\ ~overlapped =>
       /\ row # "live" => \A p \in Projector : proj[p].stage = "idle"
       /\ row \in {"runtime_gone", "latest_gone", "erased"}
            => ~runtime.known /\ runtime.state # "online"
LatestInv ==
  /\ LatestTypes
  /\ StaleMeansPast /\ OnlineIsWatched
  /\ \A s \in Sweeper : sweep[s] <= now
  /\ \A p \in Projector : proj[p].at <= now
  /\ Erasing

LEMMA TypesAreTypes == LatestTypes <=> LatestTypeOK
  BY DEF LatestTypes, LatestTypeOK, RuntimeType, CopyType, ProjType, Stage

LEMMA LatestInit == ASSUME InitLatest PROVE LatestInv
<1>1. /\ proj = [p \in Projector |-> NotProjecting]
      /\ now = 0 /\ reports = {} /\ db = None /\ row = "live" /\ deadline = None
      /\ sweep = [s \in Sweeper |-> NotSweeping]
      /\ projections = 0 /\ raced = FALSE /\ overlapped = FALSE
  BY Zenon DEF InitLatest
<1>2. LET r == Runtime(TRUE, None, None, "offline")
      IN  r \in RuntimeType /\ r.state = "offline"
  BY DEF Runtime, RuntimeType
<1>3. Copy(TRUE, TRUE, None) \in CopyType
  BY DEF Copy, CopyType
<1>4. /\ runtime \in RuntimeType /\ runtime.state \in {"none", "offline"}
      /\ latest \in CopyType
  <2>1. CASE runtime = NoRuntime /\ latest = NoLatest
    BY <2>1, FreshRecords
  <2>2. CASE /\ runtime = Runtime(TRUE, None, None, "offline")
             /\ latest = Copy(TRUE, TRUE, None)
    BY <2>2, <1>2, <1>3
  <2> QED BY <2>1, <2>2, Zenon DEF InitLatest
<1>5. proj \in [Projector -> ProjType] /\ \A p \in Projector : proj[p].at = 0
  BY <1>1, FreshRecords
<1> HIDE DEF InitLatest
<1>6. LatestTypes
  <2>1. raced \in BOOLEAN /\ overlapped \in BOOLEAN
    BY <1>1, Zenon
  <2>2. /\ now \in Time /\ reports \subseteq Time /\ db \in Time \cup {None}
        /\ deadline \in Until \cup {None}
        /\ projections \in 0 .. MaxProjections
    BY <1>1
  <2>3. sweep \in [Sweeper -> Time \cup {NotSweeping}]
    BY <1>1
  <2>4. row \in {"live", "deleted", "runtime_gone", "latest_gone", "erased"}
    BY <1>1
  <2> QED BY <1>4, <1>5, <2>1, <2>2, <2>3, <2>4, Zenon DEF LatestTypes
<1>7. StaleMeansPast /\ OnlineIsWatched
  BY <1>4 DEF StaleMeansPast, OnlineIsWatched
<1>8. \A s \in Sweeper : sweep[s] <= now
  BY <1>1
<1>9. \A p \in Projector : proj[p].at <= now
  BY <1>1, <1>5
<1>10. row = "live" /\ ~overlapped
  BY <1>1
<1> QED BY <1>6, <1>7, <1>8, <1>9, <1>10, Zenon DEF LatestInv, Erasing

\* Reports, and what they write to the copy and to the database.
LEMMA LatestReport ==
  ASSUME LatestInv,
         \/ Tick \/ Observe
         \/ \E r \in reports : Persist(r) \/ \E derived \in BOOLEAN : Update(r, derived)
  PROVE  LatestInv'
<1> USE DEF LatestInv, LatestTypes, Erasing, StaleMeansPast, OnlineIsWatched, Undisturbed
<1>1. CASE Tick
  <2>1. now' = now + 1 /\ now' \in Time
        /\ UNCHANGED <<reports, db, row, runtime, latest, deadline, sweep, proj,
                       projections, raced, overlapped>>
    BY <1>1 DEF Tick
  <2>2. /\ runtime.until \in Until \cup {None}
        /\ \A p \in Projector : proj[p].at \in Time
    BY DEF RuntimeType, ProjType
  <2> QED BY <2>1, <2>2
<1>2. CASE Observe
  BY <1>2 DEF Observe
<1>3. ASSUME NEW r \in reports, Persist(r) PROVE LatestInv'
  BY <1>3 DEF Persist
<1>4. ASSUME NEW r \in reports, NEW derived \in BOOLEAN, Update(r, derived)
      PROVE  LatestInv'
  <2>1. latest' \in CopyType
    <3> DEFINE n == latest.named \/ (Newer(r) /\ ~derived)
               v == IF r >= latest.value THEN r ELSE latest.value
    <3>1. latest' = Copy(n, latest.listed, v)
      BY <1>4, Zenon DEF Update
    <3>2. n \in BOOLEAN
      BY DEF CopyType
    <3>3. v \in Time \cup {None, Absent}
      BY DEF CopyType
    <3> HIDE DEF n, v
    <3> QED BY <3>1, <3>2, <3>3 DEF Copy, CopyType
  <2>2. /\ r \in Time
        /\ UNCHANGED <<now, reports, db, row, sweep, proj, projections, raced,
                       overlapped>>
    BY <1>4, Zenon DEF Update
  <2>3. CASE Newer(r) /\ ~derived
    <3>1. /\ runtime' = Runtime(TRUE, r, r + Window,
                               IF r + Window < now THEN "stale" ELSE "online")
          /\ deadline' = r + Window /\ runtime.known
      BY <1>4, <2>3, Zenon DEF Update, Known
    <3>2. /\ runtime' \in RuntimeType /\ runtime'.until = r + Window
          /\ runtime'.state = "stale" => r + Window < now
      BY <2>2, <3>1 DEF Runtime, RuntimeType
    <3>3. deadline' = r + Window /\ deadline' \in Until
      BY <2>2, <3>1
    <3>4. runtime.known /\ r + Window # None
      BY <2>2, <3>1
    <3> QED BY <2>1, <2>2, <3>2, <3>3, <3>4
  <2>4. CASE ~(Newer(r) /\ ~derived)
    <3>1. UNCHANGED <<runtime, deadline>>
      BY <1>4, <2>4, Zenon DEF Update
    <3> QED BY <2>1, <2>2, <3>1
  <2> QED BY <2>3, <2>4
<1> QED BY <1>1, <1>2, <1>3, <1>4

\* The sweep: a deadline that is not over is at some time, not "none".
LEMMA LatestSweep ==
  ASSUME LatestInv, NEW s \in Sweeper, FindDue(s) \/ Expire(s)
  PROVE  LatestInv'
<1> USE DEF LatestInv, LatestTypes, Erasing, StaleMeansPast, OnlineIsWatched, Undisturbed
<1>1. CASE FindDue(s)
  BY <1>1 DEF FindDue
<1>2. CASE Expire(s)
  <2>1. /\ sweep' = [sweep EXCEPT ![s] = NotSweeping] /\ sweep[s] # NotSweeping
        /\ UNCHANGED <<now, reports, db, row, latest, proj, projections, raced,
                       overlapped>>
    BY <1>2, Zenon DEF Expire
  <2>2. /\ runtime.until \in Until \cup {None}
        /\ sweep[s] \in Time /\ sweep[s] <= now
    BY <2>1 DEF RuntimeType
  <2>3. CASE UNCHANGED <<runtime, deadline>>
    BY <2>1, <2>3
  <2>4. CASE deadline' = None /\ runtime' = [runtime EXCEPT !.state = "stale"]
             /\ runtime.until <= sweep[s]
    <3>1. runtime' = Runtime(runtime.known, runtime.last, runtime.until, "stale")
      BY <2>4, RuntimeUpdate, Zenon
    <3>2. /\ runtime' \in RuntimeType /\ runtime'.until = runtime.until
          /\ runtime'.state = "stale" /\ runtime'.known = runtime.known
      BY <3>1 DEF Runtime, RuntimeType
    <3>3. deadline' = None /\ runtime.until <= now
      BY <2>2, <2>4
    <3> QED BY <2>1, <3>2, <3>3
  <2>5. CASE /\ deadline' = runtime.until /\ UNCHANGED runtime
             /\ ~(runtime.until <= sweep[s])
    BY <2>1, <2>2, <2>5
  <2> QED BY <1>2, <2>3, <2>4, <2>5, Zenon DEF Expire, Expired, Rescheduled
<1> QED BY <1>1, <1>2

\* A projection, which does not run while a deletion it does not overlap does.
LEMMA LatestProject ==
  ASSUME LatestInv, NEW p \in Projector,
         BeginProjection(p) \/ Project(p) \/ AbortProjection(p)
  PROVE  LatestInv'
<1> USE DEF LatestInv, LatestTypes, StaleMeansPast, OnlineIsWatched, Undisturbed
<1>0. proj[p] \in ProjType /\ runtime \in RuntimeType
  BY Zenon
<1>1. CASE BeginProjection(p)
  <2>1. proj' = [proj EXCEPT ![p] = Projection("check", now, FALSE, None, None)]
    BY <1>1, Zenon DEF BeginProjection
  <2>2. /\ row = "live" /\ projections < MaxProjections /\ projections' = projections + 1
        /\ UNCHANGED <<now, reports, db, row, runtime, latest, deadline, sweep, raced,
                       overlapped>>
    BY <1>1, Zenon DEF BeginProjection
  <2>3. proj' \in [Projector -> ProjType] /\ \A v \in Projector : proj'[v].at <= now
    BY <2>1 DEF Projection, ProjType, Stage
  <2> QED BY <2>2, <2>3 DEF Erasing
<1>2. ASSUME Project(p) \/ AbortProjection(p) PROVE
        /\ proj' \in [Projector -> ProjType]
        /\ \A v \in Projector : proj'[v].at <= now
        /\ proj[p].stage # "idle"
        /\ UNCHANGED <<now, reports, db, row, sweep, projections, overlapped>>
        /\ latest' \in CopyType
        /\ Erasing'
  <2>1. /\ proj[p].stage # "idle"
        /\ UNCHANGED <<now, reports, db, row, sweep, projections, overlapped>>
    <3>1. Rest
      BY <1>2, Zenon DEF Project, CheckCopy, DropCopy, ProjectMeta,
         ProjectDeadline,
        ReadPoints, ProjectElements, ProjectState, AbortProjection
    <3>2. ~In(p, "idle")
      BY <1>2, Zenon DEF Project, CheckCopy, DropCopy, ProjectMeta,
         ProjectDeadline,
        ReadPoints, ProjectElements, ProjectState, AbortProjection, In
    <3> QED BY <3>1, <3>2, Zenon DEF Rest, In
  <2>2. /\ proj' \in [Projector -> ProjType] /\ latest' \in CopyType
        /\ \A v \in Projector : proj'[v].at \in {proj[v].at, 0}
    BY <1>2, ProjectionWrites, Zenon
  <2>3. \A v \in Projector : proj'[v].at <= now
    BY <2>2
  <2>4. (row = "live" /\ ~overlapped) \/ (row # "live" /\ overlapped)
    BY <2>1, Zenon DEF Erasing
  <2>5. Erasing'
    BY <2>1, <2>4, Zenon DEF Erasing
  <2> QED BY <2>1, <2>2, <2>3, <2>5
<1>3. CASE Project(p) /\ UNCHANGED <<runtime, deadline, raced>>
  BY <1>2, <1>3, Zenon
<1>4. CASE DropCopy(p)
  <2>1. runtime' = NoRuntime /\ UNCHANGED <<deadline, raced>> /\ Project(p)
    BY <1>4, Zenon DEF DropCopy, Project
  <2>2. runtime' \in RuntimeType /\ runtime'.state = "none"
    BY <2>1, FreshRecords, Zenon
  <2> QED BY <1>2, <2>1, <2>2
<1>5. CASE ProjectMeta(p)
  <2>1. runtime' = Runtime(TRUE, runtime.last, runtime.until,
                           IF proj[p].rebuild THEN "offline" ELSE runtime.state)
        /\ UNCHANGED <<deadline, raced>> /\ Project(p)
    BY <1>5, Zenon DEF ProjectMeta, Project
  <2>2. /\ runtime' \in RuntimeType /\ runtime'.until = runtime.until
        /\ runtime'.state \in {"offline", runtime.state}
    BY <2>1 DEF Runtime, RuntimeType
  <2> QED BY <1>2, <2>1, <2>2
<1>6. CASE ProjectDeadline(p)
  <2>1. /\ Project(p) /\ UNCHANGED runtime
        /\ deadline' = IF proj[p].rebuild THEN None
                       ELSE IF proj[p].kept # None THEN proj[p].kept ELSE deadline
        /\ raced' = (raced \/ (proj[p].rebuild /\ runtime.state = "online"))
    BY <1>6, Zenon DEF ProjectDeadline, Project
  <2>2. proj[p].kept \in Until \cup {None} /\ proj[p].rebuild \in BOOLEAN
    BY <1>0 DEF ProjType
  <2> QED BY <1>2, <2>1, <2>2
<1>7. CASE ProjectState(p) /\ proj[p].point # None
  <2> DEFINE l == proj[p].point  u == proj[p].point + Window
             g == IF u >= proj[p].at THEN "online" ELSE "stale"
  <2>1. /\ l \in Time /\ proj[p].at \in Time /\ proj[p].at <= now /\ u \in Until
    BY <1>0, <1>7 DEF ProjType
  <2>2. runtime' = Runtime(runtime.known, l, u, g)
        /\ deadline' = u /\ UNCHANGED raced /\ Project(p)
    BY <1>7, Zenon DEF ProjectState, Project
  <2>4. g \in {"online", "stale"} /\ (g = "stale" => u <= now)
    BY <2>1
  <2> HIDE DEF l, u, g
  <2>5. /\ runtime' \in RuntimeType
        /\ runtime'.state = "stale" => runtime'.until <= now
    BY <2>1, <2>2, <2>4 DEF Runtime, RuntimeType
  <2>6. deadline' \in Until /\ deadline' # None /\ UNCHANGED raced /\ Project(p)
    BY <2>1, <2>2
  <2> QED BY <1>2, <2>5, <2>6
<1>8. CASE AbortProjection(p)
  <2>1. UNCHANGED <<runtime, deadline, raced>>
    BY <1>8, Zenon DEF AbortProjection
  <2> QED BY <1>2, <1>8, <2>1
<1> QED BY <1>1, <1>3, <1>4, <1>5, <1>6, <1>7, <1>8, Zenon DEF Project,
           CheckCopy,
             ReadPoints, ProjectElements, ProjectState

LEMMA LatestDelete ==
  ASSUME LatestInv, Initialize \/ RemoveRow \/ Erase
  PROVE  LatestInv'
<1> USE DEF LatestInv, LatestTypes, Erasing, StaleMeansPast, OnlineIsWatched, Undisturbed
<1>1. CASE Initialize
  <2>1. /\ runtime' = Runtime(TRUE, None, None, "offline")
        /\ latest' = Copy(TRUE, FALSE, Absent)
        /\ row = "live" /\ UNCHANGED <<deadline, proj, raced>> /\ Rest
    BY <1>1, Zenon DEF Initialize
  <2>2. runtime' \in RuntimeType /\ runtime'.state = "offline" /\ latest' \in CopyType
    BY <2>1 DEF Runtime, RuntimeType, Copy, CopyType
  <2> QED BY <2>1, <2>2 DEF Rest
<1>2. CASE RemoveRow
  <2>1. /\ row' = "deleted" /\ overlapped' = (\E p \in Projector : ~In(p, "idle"))
        /\ UNCHANGED <<now, reports, db, runtime, latest, deadline, sweep, proj,
                       projections, raced>>
    BY <1>2, Zenon DEF RemoveRow
  <2>2. /\ overlapped' \in BOOLEAN
        /\ ~overlapped' => \A p \in Projector : proj[p].stage = "idle"
    BY <2>1, Zenon DEF In
  <2>3. row' = "deleted" /\ ~overlapped
        /\ UNCHANGED <<now, reports, db, runtime, latest, deadline, sweep, proj,
                       projections, raced>>
    <3>1. row = "live"
      BY <1>2, Zenon DEF RemoveRow
    <3>2. ~overlapped
      BY <3>1, Zenon
    <3> QED BY <2>1, <3>2, Zenon
  <2> QED BY <2>2, <2>3
<1>3. CASE Erase
  BY <1>3, FreshRecords DEF Erase
<1> QED BY <1>1, <1>2, <1>3

LEMMA LatestStep == ASSUME LatestInv, [NextLatest]_latestVars PROVE LatestInv'
<1>1. CASE UNCHANGED latestVars
  BY <1>1 DEF latestVars, LatestInv, LatestTypes, Erasing, StaleMeansPast,
     OnlineIsWatched,
              Undisturbed
<1> QED BY <1>1, LatestReport, LatestSweep, LatestProject, LatestDelete
           DEF NextLatest

(* The state of the copy, its deadline and the index of deadlines agree,     *)
(* however reports, sweeps, projections and the deletion of the device       *)
(* interleave, and an erased device stays erased.                            *)
THEOREM CopyIsSafe == SpecLatest => []LatestSafety
<1>1. InitLatest => LatestInv
  BY LatestInit
<1>2. LatestInv /\ [NextLatest]_latestVars => LatestInv'
  BY LatestStep
<1>3. LatestInv => LatestSafety
  BY TypesAreTypes DEF LatestInv, Erasing, LatestSafety, ErasedStaysErased
<1> QED BY <1>1, <1>2, <1>3, PTL DEF SpecLatest

(* No report, however late, and no projection replaces a value by one that   *)
(* was observed before it.                                                   *)
THEOREM ValuesOnlyAdvance == SpecLatest => ValueNeverGoesBack
<1>1. ASSUME LatestTypes, [NextLatest]_latestVars
      PROVE  latest'.value < latest.value => latest'.value = Absent
  <2> USE DEF LatestTypes, CopyType
  <2>1. latest.value \in Time \cup {None, Absent} /\ latest \in CopyType
    BY <1>1
  <2>2. CASE UNCHANGED latest
    BY <2>1, <2>2
  <2>3. ASSUME NEW r \in reports, NEW derived \in BOOLEAN, Update(r, derived)
        PROVE  ~(latest'.value < latest.value)
    <3>1. latest' = Copy(latest.named \/ (Newer(r) /\ ~derived), latest.listed,
                         IF r >= latest.value THEN r ELSE latest.value)
      BY <2>3, Zenon DEF Update
    <3>2. r \in Time
      BY <1>1
    <3> QED BY <2>1, <3>1, <3>2 DEF Copy
  <2>4. ASSUME NEW p \in Projector, ProjectElements(p)
        PROVE  ~(latest'.value < latest.value)
    <3>1. latest' = Copy(latest.named, TRUE, Refreshed(p))
      BY <2>4, Zenon DEF ProjectElements
    <3>2. proj[p].point \in Time \cup {None}
      BY <1>1 DEF ProjType
    <3> QED BY <2>1, <3>1, <3>2 DEF Copy, Refreshed
  <2>5. ASSUME NEW p \in Projector, ProjectMeta(p) PROVE latest'.value = latest.value
    BY <2>5 DEF ProjectMeta, Copy
  <2>6. ASSUME Initialize PROVE latest'.value = latest.value
    BY <2>6 DEF Initialize, NoLatest, Copy
  <2>7. NoLatest.value = Absent
    BY DEF NoLatest, Copy
  <2>8. \/ latest' = latest \/ latest' = NoLatest \/ Initialize
        \/ \E r \in reports, derived \in BOOLEAN : Update(r, derived)
        \/ \E p \in Projector : ProjectElements(p) \/ ProjectMeta(p)
    BY <1>1, Zenon DEF NextLatest, latestVars, Tick, Observe, Persist, FindDue,
       Expire,
         BeginProjection, Project, CheckCopy, DropCopy, ProjectDeadline, ReadPoints,
         ProjectState, AbortProjection, RemoveRow, Erase
  <2>9. ASSUME latest'.value < latest.value PROVE latest'.value = Absent
    <3>1. CASE latest' = latest
      BY <2>1, <2>9, <3>1
    <3>2. CASE latest' = NoLatest
      BY <2>7, <3>2
    <3>3. CASE Initialize
      BY <2>1, <2>6, <2>9, <3>3
    <3>4. ASSUME NEW r \in reports, NEW derived \in BOOLEAN, Update(r, derived)
          PROVE  FALSE
      BY <2>3, <2>9, <3>4, Zenon
    <3>5. ASSUME NEW p \in Projector, ProjectElements(p) \/ ProjectMeta(p)
          PROVE  FALSE
      <4>1. CASE ProjectElements(p)
        BY <2>4, <2>9, <4>1, Zenon
      <4>2. CASE ProjectMeta(p)
        BY <2>1, <2>5, <2>9, <4>2
      <4> QED BY <3>5, <4>1, <4>2
    <3> QED BY <2>8, <3>1, <3>2, <3>3, <3>4, <3>5, Zenon
  <2> QED BY <2>9
<1>2. LatestSafety => LatestTypes
  BY TypesAreTypes DEF LatestSafety
<1> QED BY <1>1, <1>2, CopyIsSafe, PTL DEF SpecLatest, ValueNeverGoesBack

----------------------------------------------------------------------------
(* The streams and their consumers                                          *)

LEMMA LeastNat ==
  ASSUME NEW S \in SUBSET Nat, S # {}
  PROVE  \E x \in S : \A y \in S : x <= y
<1> DEFINE R == OpToRel(<, Nat)
<1>1. IsWellFoundedOn(R, Nat)
  BY NatLessThanWellFounded
<1>2. \A x, y \in Nat : x < y => <<x, y>> \in R
  BY DEF OpToRel
<1> HIDE DEF R
<1>3. PICK x \in S : \A y \in S : ~ (<<y, x>> \in R)
  BY <1>1, WFMin
<1>4. \A y \in S : ~ (y < x)
  BY <1>2, <1>3, Zenon
<1> QED BY <1>4

\* A batch that is not empty has a first entry.
LEMMA FirstIsThere ==
  ASSUME NEW S \in SUBSET Entry, S # {}
  PROVE  First(S) \in S
<1> USE TelemetryConstants
<1> DEFINE Sends == {e.send : e \in S}
<1>1. Sends \in SUBSET Nat /\ Sends # {}
  BY DEF Entry
<1>2. PICK n \in Sends : \A k \in Sends : n <= k
  <2> HIDE DEF Sends
  <2> QED BY <1>1, LeastNat
<1> DEFINE Copies == {c \in Nat : \E e \in S : e.send = n /\ e.copy = c}
<1>3. Copies \in SUBSET Nat /\ Copies # {}
  BY <1>2 DEF Entry
<1>4. PICK k \in Copies : \A c \in Copies : k <= c
  <2> HIDE DEF Copies
  <2> QED BY <1>3, LeastNat
<1>5. PICK e \in S : e.send = n /\ e.copy = k
  BY <1>4
<1>6. ASSUME NEW f \in S
      PROVE  e.send < f.send \/ (e.send = f.send /\ e.copy <= f.copy)
  <2>1. f.send \in Sends /\ f.send \in Nat /\ f.copy \in Nat /\ n \in Nat
    BY <1>1 DEF Entry
  <2>2. n <= f.send
    BY <1>2, <2>1
  <2>3. CASE f.send = n
    BY <1>4, <1>5, <2>1, <2>3
  <2> QED BY <1>5, <2>1, <2>2, <2>3
<1> QED BY <1>6 DEF First

\* What a loop works on is in the stream, unless it has been applied already,
\* by itself or by a loop that claimed the entry; and no report is forgotten
\* between its publication and its consumers.
LoopType == [todo : SUBSET Entry, done : SUBSET Entry]
TelemetryInv ==
  /\ TelemetryTypeOK /\ PendingOnce /\ OneCopyEach
  /\ \A c \in Consumer, m \in Report : m \notin receipt => copies[c][m] = 0
  /\ \A e \in stream["dispatch"] : e.msg \in sent
  /\ \A w \in Worker : \A e \in loop[w]["dispatch"].todo : e.msg \in sent
  /\ \A w \in Worker, c \in Consumer :
       /\ \A e \in loop[w][c].done : e.msg \in applied[c]
       /\ \A e \in loop[w][c].todo : e \in stream[c] \/ e.msg \in applied[c]

\* Removing entries that a loop is done with.
LEMMA RemovedAreDone ==
  ASSUME NEW w \in Worker, NEW q \in Stream, MayRemove(w, q), Removed(w, q)
  PROVE  LET gone == loop[w][q].done
         IN  /\ stream' = [stream EXCEPT ![q] = @ \ gone]
             /\ pending' = [pending EXCEPT ![q] = [v \in DOMAIN @ |-> @[v] \ gone]]
<1> DEFINE rest == IF q = "dispatch" \/ Kind[q] # "single" THEN loop[w][q].todo ELSE {}
<1>1. rest = {}
  BY DEF MayRemove
<1>2. loop[w][q].done \cup rest = loop[w][q].done
  BY <1>1
<1> QED BY <1>2, Zenon DEF Removed

LEMMA TelemetryInit == ASSUME InitTelemetry PROVE TelemetryInv
<1> USE TelemetryConstants DEF InitTelemetry
<1>1. IdleLoop \in LoopType /\ IdleLoop.todo = {} /\ IdleLoop.done = {}
  BY DEF IdleLoop, Batch, LoopType
<1>2. TelemetryTypeOK
  BY <1>1 DEF TelemetryTypeOK, LoopType
<1>3. PendingOnce
  BY DEF PendingOnce
<1> QED BY <1>1, <1>2, <1>3 DEF TelemetryInv, OneCopyEach, Stream

\* Giving entries to a loop takes them from every other.
LEMMA GivenOnce ==
  ASSUME TelemetryTypeOK, PendingOnce, NEW w \in Worker, NEW q \in Stream,
         NEW S \in SUBSET stream[q], Given(w, q, S), UNCHANGED stream
  PROVE  /\ pending' \in [Stream -> [Worker \cup {Dead} -> SUBSET Entry]]
         /\ PendingOnce'
<1> USE DEF TelemetryTypeOK
<1>1. /\ pending' = [pending EXCEPT ![q] = [v \in Worker \cup {Dead} |->
                       IF v = w THEN Own(w, q) \cup S ELSE pending[q][v] \ S]]
      /\ Own(w, q) \in SUBSET Entry /\ S \in SUBSET Entry
      /\ Own(w, q) \subseteq pending[q][w]
  BY DEF Given, Own
<1>2. pending' \in [Stream -> [Worker \cup {Dead} -> SUBSET Entry]]
  BY <1>1
<1>3. PendingOnce'
  BY <1>1, <1>2 DEF PendingOnce
<1> QED BY <1>2, <1>3

LEMMA DeliverStep ==
  ASSUME TelemetryInv, NEW w \in Worker, NEW q \in Stream,
         NEW S \in SUBSET stream[q], Deliver(w, q, S), tfaults' \in 0 .. MaxFaults
  PROVE  TelemetryInv'
<1> USE DEF TelemetryInv
<1>1. /\ Given(w, q, S)
      /\ UNCHANGED <<stream, receipt, applied, copies, sends, sent>>
      /\ loop' = [loop EXCEPT ![w][q] = [todo |-> S, done |-> {}]]
  BY DEF Deliver, Batch
<1>2. /\ pending' \in [Stream -> [Worker \cup {Dead} -> SUBSET Entry]]
      /\ PendingOnce'
  BY <1>1, GivenOnce
<1>3. /\ loop' \in [Worker -> [Stream -> LoopType]]
      /\ \A v \in Worker, p \in Stream :
           loop'[v][p] = IF v = w /\ p = q THEN [todo |-> S, done |-> {}] ELSE loop[v][p]
  BY <1>1 DEF TelemetryTypeOK, LoopType
<1>4. TelemetryTypeOK'
  BY <1>1, <1>2, <1>3 DEF TelemetryTypeOK, LoopType
<1>5. OneCopyEach' /\ \A c \in Consumer, m \in Report : m \notin receipt' => copies'[c][m] = 0
  BY <1>1 DEF OneCopyEach
<1>6. /\ \A e \in stream'["dispatch"] : e.msg \in sent'
      /\ \A v \in Worker : \A e \in loop'[v]["dispatch"].todo : e.msg \in sent'
  BY <1>1, <1>3 DEF Stream
<1>7. \A v \in Worker, c \in Consumer :
       /\ \A e \in loop'[v][c].done : e.msg \in applied'[c]
       /\ \A e \in loop'[v][c].todo : e \in stream'[c] \/ e.msg \in applied'[c]
  BY <1>1, <1>3 DEF Stream
<1> QED BY <1>2, <1>4, <1>5, <1>6, <1>7

\* A report is appended to the dispatch stream.
LEMMA SendStep ==
  ASSUME TelemetryInv, NEW m \in Report, SendReport(m)
  PROVE  TelemetryInv'
<1> USE TelemetryConstants DEF TelemetryInv
<1> DEFINE e == [send |-> sends + 1, msg |-> m, copy |-> 0]
<1>1. /\ sends < MaxSends /\ sends' = sends + 1 /\ sent' = sent \cup {m}
      /\ stream' = [stream EXCEPT !["dispatch"] = @ \cup {e}]
      /\ UNCHANGED <<pending, receipt, loop, applied, copies, tfaults>>
  BY DEF SendReport
<1>2. e \in Entry /\ e.msg = m
  BY <1>1 DEF TelemetryTypeOK, Entry
<1> HIDE DEF e
<1>3. TelemetryTypeOK'
  <2>1. stream' \in [Stream -> SUBSET Entry]
    BY <1>1, <1>2 DEF TelemetryTypeOK
  <2>2. sends' \in 0 .. MaxSends /\ sent' \subseteq Report
    BY <1>1 DEF TelemetryTypeOK
  <2> QED BY <1>1, <2>1, <2>2 DEF TelemetryTypeOK
<1>4. \A q \in Stream : stream[q] \subseteq stream'[q] /\ (q # "dispatch" => stream'[q] = stream[q])
  BY <1>1 DEF TelemetryTypeOK, Stream
<1>5. PendingOnce' /\ OneCopyEach'
  BY <1>1, <1>4 DEF PendingOnce, OneCopyEach, TelemetryTypeOK
<1>6. /\ \A f \in stream'["dispatch"] : f.msg \in sent'
      /\ \A v \in Worker : \A f \in loop'[v]["dispatch"].todo : f.msg \in sent'
  BY <1>1, <1>2 DEF TelemetryTypeOK, Stream
<1>7. /\ \A c \in Consumer, n \in Report : n \notin receipt' => copies'[c][n] = 0
      /\ \A v \in Worker, c \in Consumer :
           /\ \A f \in loop'[v][c].done : f.msg \in applied'[c]
           /\ \A f \in loop'[v][c].todo : f \in stream'[c] \/ f.msg \in applied'[c]
  BY <1>1, <1>4 DEF Stream
<1> QED BY <1>3, <1>5, <1>6, <1>7

\* What a loop does with some of its entries.
LEMMA ApplyingLoop ==
  ASSUME TelemetryTypeOK, NEW w \in Worker, NEW q \in Stream,
         NEW S \in SUBSET loop[w][q].todo, Applying(w, q, S)
  PROVE  /\ loop' \in [Worker -> [Stream -> LoopType]]
         /\ \A v \in Worker, p \in Stream : ~(v = w /\ p = q) => loop'[v][p] = loop[v][p]
         /\ loop'[w][q].todo = loop[w][q].todo \ S
         /\ loop'[w][q].done = loop[w][q].done \cup S
  BY DEF Applying, Batch, TelemetryTypeOK, LoopType

\* The fan-out copies a report at most once to every consumer, and again to
\* the history only.
LEMMA CopiesOnce ==
  ASSUME TelemetryInv, NEW m \in Report, NEW targets, targets = CopiedTo(m),
         copies' = [c \in Consumer |-> IF c \in targets
                      THEN [copies[c] EXCEPT ![m] = @ + 1] ELSE copies[c]],
         receipt' = receipt \cup {m}
  PROVE  /\ copies' \in [Consumer -> [Report -> Nat]]
         /\ OneCopyEach'
         /\ \A c \in Consumer, n \in Report : n \notin receipt' => copies'[c][n] = 0
<1> USE DEF TelemetryInv, TelemetryTypeOK
<1>1. \A c \in Consumer, n \in Report :
        copies'[c][n] = IF c \in targets /\ n = m THEN copies[c][n] + 1 ELSE copies[c][n]
  OBVIOUS
<1>2. \A c \in targets : copies[c][m] = 0 \/ (c = "history" /\ m \in Raw)
  BY DEF CopiedTo
<1>3. copies' \in [Consumer -> [Report -> Nat]]
  OBVIOUS
<1> QED BY <1>1, <1>2, <1>3 DEF OneCopyEach

LEMMA DispatchStep ==
  ASSUME TelemetryInv, NEW w \in Worker, Dispatch(w)
  PROVE  TelemetryInv'
<1> USE TelemetryConstants DEF TelemetryInv
<1> DEFINE due == loop[w]["dispatch"].todo
           e == First(due)
           targets == CopiedTo(e.msg)
           copy(q) == [e EXCEPT !.copy = copies[q][e.msg] + 1]
<1>1. e \in due /\ e \in Entry /\ e.msg \in Report /\ due \subseteq Entry
  <2>1. due \in SUBSET Entry /\ due # {}
    BY DEF Dispatch, TelemetryTypeOK, Stream
  <2>2. e \in due
    <3> HIDE DEF due
    <3> QED BY <2>1, FirstIsThere
  <2> HIDE DEF due, e
  <2> QED BY <2>1, <2>2 DEF Entry
<1>2. /\ Applying(w, "dispatch", {e})
      /\ stream' = [q \in Stream |-> IF q \in targets THEN stream[q] \cup {copy(q)}
                                     ELSE stream[q]]
      /\ copies' = [c \in Consumer |-> IF c \in targets
                      THEN [copies[c] EXCEPT ![e.msg] = @ + 1] ELSE copies[c]]
      /\ receipt' = receipt \cup {e.msg}
      /\ UNCHANGED <<pending, applied, sends, sent, tfaults>>
  BY DEF Dispatch
<1>3. targets \subseteq Consumer /\ "dispatch" \notin targets
  BY DEF CopiedTo
<1>4. \A q \in targets : copy(q) \in Entry
  <2> HIDE DEF e, targets
  <2> QED BY <1>1, <1>3, SMTT(40) DEF Entry, TelemetryTypeOK
<1> HIDE DEF e, targets, copy
<1>5. /\ copies' \in [Consumer -> [Report -> Nat]]
      /\ OneCopyEach'
      /\ \A c \in Consumer, n \in Report : n \notin receipt' => copies'[c][n] = 0
  BY <1>1, <1>2, CopiesOnce DEF targets
<1>6. /\ \A q \in Stream : stream[q] \subseteq stream'[q]
      /\ stream'["dispatch"] = stream["dispatch"]
      /\ stream' \in [Stream -> SUBSET Entry]
  BY <1>2, <1>3, <1>4 DEF TelemetryTypeOK, Stream
<1>7. /\ loop' \in [Worker -> [Stream -> LoopType]]
      /\ \A v \in Worker, p \in Stream :
           /\ loop'[v][p].todo \subseteq loop[v][p].todo
           /\ p # "dispatch" => loop'[v][p] = loop[v][p]
  <2>1. {e} \in SUBSET loop[w]["dispatch"].todo /\ "dispatch" \in Stream
    BY <1>1 DEF Stream
  <2> HIDE DEF due
  <2>2. /\ loop' \in [Worker -> [Stream -> LoopType]]
        /\ \A v \in Worker, p \in Stream :
             ~(v = w /\ p = "dispatch") => loop'[v][p] = loop[v][p]
        /\ loop'[w]["dispatch"].todo = loop[w]["dispatch"].todo \ {e}
    BY <1>2, <2>1, ApplyingLoop
  <2> QED BY <2>2
<1>8. TelemetryTypeOK'
  BY <1>1, <1>2, <1>5, <1>6, <1>7 DEF TelemetryTypeOK, LoopType
<1>9. PendingOnce'
  BY <1>2, <1>6 DEF PendingOnce, TelemetryTypeOK
<1>10. /\ \A f \in stream'["dispatch"] : f.msg \in sent'
       /\ \A v \in Worker : \A f \in loop'[v]["dispatch"].todo : f.msg \in sent'
  BY <1>2, <1>6, <1>7 DEF Stream
<1>11. \A v \in Worker, c \in Consumer :
         /\ \A f \in loop'[v][c].done : f.msg \in applied'[c]
         /\ \A f \in loop'[v][c].todo : f \in stream'[c] \/ f.msg \in applied'[c]
  BY <1>2, <1>3, <1>6, <1>7 DEF Stream
<1> QED BY <1>5, <1>8, <1>9, <1>10, <1>11

LEMMA ConsumeStep ==
  ASSUME TelemetryInv, NEW w \in Worker, NEW c \in Consumer, Consume(w, c)
  PROVE  TelemetryInv'
<1> USE TelemetryConstants DEF TelemetryInv
<1>1. PICK S \in Portion(w, c) :
        /\ Applying(w, c, S)
        /\ applied' = [applied EXCEPT ![c] = @ \cup {e.msg : e \in S}]
  BY DEF Consume
<1>2. /\ loop[w][c].todo # {}
      /\ UNCHANGED <<stream, pending, receipt, copies, sends, sent, tfaults>>
  BY DEF Consume
<1>3. S \subseteq loop[w][c].todo /\ loop[w][c].todo \in SUBSET Entry
  <2>1. loop[w][c].todo \in SUBSET Entry
    BY DEF TelemetryTypeOK, Stream
  <2>2. First(loop[w][c].todo) \in loop[w][c].todo
    BY <1>2, <2>1, FirstIsThere
  <2> QED BY <2>1, <2>2 DEF Portion
<1>4. /\ loop' \in [Worker -> [Stream -> LoopType]]
      /\ \A v \in Worker, p \in Stream : ~(v = w /\ p = c) => loop'[v][p] = loop[v][p]
      /\ loop'[w][c].todo = loop[w][c].todo \ S
      /\ loop'[w][c].done = loop[w][c].done \cup S
  <2>1. S \in SUBSET loop[w][c].todo /\ c \in Stream
    BY <1>3 DEF Stream
  <2> QED BY <1>1, <2>1, ApplyingLoop
<1>5. /\ applied' \in [Consumer -> SUBSET Report]
      /\ \A d \in Consumer : applied[d] \subseteq applied'[d]
      /\ \A e \in S : e.msg \in applied'[c]
  BY <1>1, <1>3 DEF TelemetryTypeOK, Entry
<1>6. TelemetryTypeOK'
  BY <1>2, <1>4, <1>5 DEF TelemetryTypeOK, LoopType
<1>7. PendingOnce' /\ OneCopyEach'
  BY <1>2 DEF PendingOnce, OneCopyEach
<1>8. \A v \in Worker : \A f \in loop'[v]["dispatch"].todo : f.msg \in sent'
  BY <1>2, <1>4 DEF Stream
<1>9. \A v \in Worker, d \in Consumer :
        /\ \A f \in loop'[v][d].done : f.msg \in applied'[d]
        /\ \A f \in loop'[v][d].todo : f \in stream'[d] \/ f.msg \in applied'[d]
  BY <1>2, <1>4, <1>5 DEF Stream
<1> QED BY <1>2, <1>6, <1>7, <1>8, <1>9

\* A loop that has applied a batch removes it: nothing that still has to be
\* applied leaves a stream.
LEMMA RemovedStep ==
  ASSUME TelemetryInv, NEW w \in Worker, NEW q \in Stream,
         MayRemove(w, q), Removed(w, q)
  PROVE  /\ stream' \in [Stream -> SUBSET Entry]
         /\ pending' \in [Stream -> [Worker \cup {Dead} -> SUBSET Entry]]
         /\ PendingOnce'
         /\ \A p \in Stream : stream'[p] \subseteq stream[p]
         /\ \A c \in Consumer : \A e \in stream[c] \ stream'[c] : e.msg \in applied[c]
<1> USE TelemetryConstants DEF TelemetryInv, TelemetryTypeOK
<1> DEFINE gone == loop[w][q].done
<1>1. /\ stream' = [stream EXCEPT ![q] = @ \ gone]
      /\ pending' = [pending EXCEPT ![q] =
                       [v \in Worker \cup {Dead} |-> pending[q][v] \ gone]]
  <2>1. /\ stream' = [stream EXCEPT ![q] = @ \ gone]
        /\ pending' = [pending EXCEPT ![q] = [v \in DOMAIN @ |-> @[v] \ gone]]
    BY RemovedAreDone
  <2>2. DOMAIN pending[q] = Worker \cup {Dead}
    OBVIOUS
  <2> HIDE DEF gone
  <2> QED BY <2>1, <2>2
<1>2. q # "dispatch" => \A e \in gone : e.msg \in applied[q]
  BY DEF Stream
<1> HIDE DEF gone
<1>3. /\ stream' \in [Stream -> SUBSET Entry]
      /\ pending' \in [Stream -> [Worker \cup {Dead} -> SUBSET Entry]]
  BY <1>1
<1>4. PendingOnce'
  BY <1>1, <1>3 DEF PendingOnce
<1>5. \A p \in Stream : stream'[p] \subseteq stream[p]
  BY <1>1
<1>6. \A c \in Consumer : \A e \in stream[c] \ stream'[c] : e.msg \in applied[c]
  BY <1>1, <1>2 DEF Stream
<1> QED BY <1>3, <1>4, <1>5, <1>6

\* The same for whatever a loop goes on with: steps that only take entries out
\* of streams and batches.
LEMMA ShrinkStep ==
  ASSUME TelemetryInv,
         stream' \in [Stream -> SUBSET Entry],
         pending' \in [Stream -> [Worker \cup {Dead} -> SUBSET Entry]], PendingOnce',
         \A p \in Stream : stream'[p] \subseteq stream[p],
         \A c \in Consumer : \A e \in stream[c] \ stream'[c] : e.msg \in applied[c],
         loop' \in [Worker -> [Stream -> LoopType]],
         \A v \in Worker, p \in Stream : /\ loop'[v][p].todo \subseteq loop[v][p].todo
                                        /\ loop'[v][p].done \subseteq loop[v][p].done,
         UNCHANGED <<receipt, applied, copies, sends, sent>>, tfaults' \in 0 .. MaxFaults
  PROVE  TelemetryInv'
<1> USE DEF TelemetryInv
<1>1. TelemetryTypeOK'
  BY DEF TelemetryTypeOK, LoopType
<1>2. OneCopyEach' /\ \A c \in Consumer, m \in Report : m \notin receipt' => copies'[c][m] = 0
  BY DEF OneCopyEach
<1>3. /\ \A e \in stream'["dispatch"] : e.msg \in sent'
      /\ \A v \in Worker : \A e \in loop'[v]["dispatch"].todo : e.msg \in sent'
  BY DEF Stream
<1>4. \A v \in Worker, c \in Consumer :
       /\ \A e \in loop'[v][c].done : e.msg \in applied'[c]
       /\ \A e \in loop'[v][c].todo : e \in stream'[c] \/ e.msg \in applied'[c]
  BY DEF Stream
<1> QED BY <1>1, <1>2, <1>3, <1>4

LEMMA RemoveEntryStep ==
  ASSUME TelemetryInv, NEW w \in Worker, NEW q \in Stream, RemoveEntry(w, q)
  PROVE  TelemetryInv'
<1>1. /\ loop' \in [Worker -> [Stream -> LoopType]]
      /\ \A v \in Worker, p \in Stream : /\ loop'[v][p].todo \subseteq loop[v][p].todo
                                        /\ loop'[v][p].done \subseteq loop[v][p].done
  BY DEF RemoveEntry, Batch, TelemetryInv, TelemetryTypeOK, LoopType
<1>2. /\ MayRemove(w, q) /\ Removed(w, q)
      /\ UNCHANGED <<receipt, applied, copies, sends, sent, tfaults>>
  BY DEF RemoveEntry
<1>3. tfaults' \in 0 .. MaxFaults
  BY <1>2 DEF TelemetryInv, TelemetryTypeOK
<1> QED BY <1>1, <1>2, <1>3, RemovedStep, ShrinkStep

LEMMA FaultCounts ==
  ASSUME TelemetryTypeOK, Fault PROVE tfaults' \in 0 .. MaxFaults
  BY TelemetryConstants DEF TelemetryTypeOK, Fault

LEMMA FailureStep ==
  ASSUME TelemetryInv, NEW w \in Worker, NEW q \in Stream,
         FailBatch(w, q) \/ FailRead(w, q)
  PROVE  TelemetryInv'
<1>0. tfaults' \in 0 .. MaxFaults
  BY FaultCounts DEF TelemetryInv, FailBatch, FailRead
<1>1. CASE FailBatch(w, q)
  <2>1. /\ loop' \in [Worker -> [Stream -> LoopType]]
        /\ \A v \in Worker, p \in Stream : /\ loop'[v][p].todo \subseteq loop[v][p].todo
                                          /\ loop'[v][p].done \subseteq loop[v][p].done
    BY <1>1 DEF FailBatch, IdleLoop, Batch, TelemetryInv, TelemetryTypeOK,
       LoopType
  <2>2. UNCHANGED <<receipt, applied, copies, sends, sent>>
    BY <1>1 DEF FailBatch
  <2>3. CASE MayRemove(w, q) /\ Removed(w, q)
    BY <1>0, <2>1, <2>2, <2>3, RemovedStep, ShrinkStep
  <2>4. CASE UNCHANGED <<stream, pending>>
    <3>1. /\ stream' \in [Stream -> SUBSET Entry]
          /\ pending' \in [Stream -> [Worker \cup {Dead} -> SUBSET Entry]]
          /\ PendingOnce'
      BY <2>4 DEF TelemetryInv, TelemetryTypeOK, PendingOnce
    <3> QED BY <1>0, <2>1, <2>2, <2>4, <3>1, ShrinkStep
  <2> QED BY <1>1, <2>3, <2>4 DEF FailBatch
<1>2. CASE FailRead(w, q)
  <2>1. /\ Given(w, q, Fresh(q)) /\ Fresh(q) \in SUBSET stream[q]
        /\ UNCHANGED <<stream, receipt, loop, applied, copies, sends, sent>>
    BY <1>2 DEF FailRead, Fresh
  <2>2. /\ pending' \in [Stream -> [Worker \cup {Dead} -> SUBSET Entry]]
        /\ PendingOnce'
    BY <2>1, GivenOnce DEF TelemetryInv
  <2>3. loop' \in [Worker -> [Stream -> LoopType]] /\ stream' \in [Stream -> SUBSET Entry]
    BY <2>1 DEF TelemetryInv, TelemetryTypeOK, LoopType
  <2> QED BY <1>0, <2>1, <2>2, <2>3, ShrinkStep
<1> QED BY <1>1, <1>2

LEMMA CrashStep ==
  ASSUME TelemetryInv, NEW w \in Worker, CrashWorker(w)
  PROVE  TelemetryInv'
<1>0. tfaults' \in 0 .. MaxFaults
  BY FaultCounts DEF TelemetryInv, CrashWorker
<1>1. /\ loop' \in [Worker -> [Stream -> LoopType]]
      /\ \A v \in Worker, p \in Stream : /\ loop'[v][p].todo \subseteq loop[v][p].todo
                                        /\ loop'[v][p].done \subseteq loop[v][p].done
  BY DEF CrashWorker, IdleLoop, Batch, TelemetryInv, TelemetryTypeOK, LoopType
<1>2. /\ UNCHANGED <<stream, receipt, applied, copies, sends, sent>>
      /\ pending' = [q \in Stream |-> [v \in Worker \cup {Dead} |->
           CASE v = w -> {} [] v = Dead -> pending[q][v] \cup Own(w, q)
             [] OTHER -> pending[q][v]]]
  BY DEF CrashWorker, TelemetryInv, TelemetryTypeOK
<1>3. \A q \in Stream : /\ Own(w, q) \subseteq pending[q][w]
                        /\ Own(w, q) \in SUBSET Entry
  BY DEF Own, TelemetryInv, TelemetryTypeOK
<1>4. \A q \in Stream, v \in Worker \cup {Dead} :
        pending'[q][v] \subseteq pending[q][v]
          \/ (v = Dead /\ pending'[q][v] = pending[q][v] \cup Own(w, q) /\ pending'[q][w] = {})
  BY <1>2, TelemetryConstants
<1>5. pending' \in [Stream -> [Worker \cup {Dead} -> SUBSET Entry]]
  BY <1>2, <1>3 DEF TelemetryInv, TelemetryTypeOK
<1>6. PendingOnce'
  BY <1>2, <1>3, <1>4, <1>5 DEF PendingOnce, TelemetryInv, TelemetryTypeOK
<1>7. stream' \in [Stream -> SUBSET Entry]
  BY <1>2 DEF TelemetryInv, TelemetryTypeOK
<1> QED BY <1>0, <1>1, <1>2, <1>5, <1>6, <1>7, ShrinkStep

LEMMA TelemetryStep == ASSUME TelemetryInv, [NextTelemetry]_telemetryVars PROVE TelemetryInv'
<1>1. CASE UNCHANGED telemetryVars
  BY <1>1 DEF telemetryVars, TelemetryInv, TelemetryTypeOK, PendingOnce,
     OneCopyEach
<1>2. ASSUME NEW m \in Report, SendReport(m) PROVE TelemetryInv'
  BY <1>2, SendStep
<1>3. ASSUME NEW w \in Worker, NEW q \in Stream, Step(w, q) \/ ClaimSlow(w, q)
      PROVE  TelemetryInv'
  <2>1. /\ tfaults \in 0 .. MaxFaults
        /\ Own(w, q) \subseteq stream[q] /\ Fresh(q) \subseteq stream[q]
        /\ \A v \in Worker \cup {Dead} : pending[q][v] \subseteq stream[q]
    BY DEF TelemetryInv, TelemetryTypeOK, PendingOnce, Own, Fresh
  <2>2. CASE ReadOwn(w, q)
    BY <2>1, <2>2, DeliverStep DEF ReadOwn
  <2>3. CASE ReadNew(w, q)
    BY <2>1, <2>3, DeliverStep DEF ReadNew
  <2>4. CASE ClaimDead(w, q)
    BY <2>1, <2>4, DeliverStep DEF ClaimDead
  <2>5. CASE ClaimSlow(w, q)
    <3>1. PICK v \in Worker \ {w} : Deliver(w, q, pending[q][v])
      BY <2>5 DEF ClaimSlow
    <3>2. tfaults' \in 0 .. MaxFaults
      BY <2>5, FaultCounts DEF ClaimSlow, TelemetryInv
    <3> QED BY <2>1, <3>1, <3>2, DeliverStep
  <2>6. CASE RemoveEntry(w, q)
    BY <2>6, RemoveEntryStep
  <2>7. CASE IF q = "dispatch" THEN Dispatch(w) ELSE Consume(w, q)
    <3>1. CASE q = "dispatch"
      BY <2>7, <3>1, DispatchStep
    <3>2. CASE q # "dispatch"
      <4>1. q \in Consumer
        BY <3>2 DEF Stream
      <4> QED BY <2>7, <3>2, <4>1, ConsumeStep
    <3> QED BY <3>1, <3>2
  <2> QED BY <1>3, <2>2, <2>3, <2>4, <2>5, <2>6, <2>7 DEF Step
<1>4. ASSUME NEW w \in Worker, NEW q \in Stream, FailBatch(w, q) \/ FailRead(w, q)
      PROVE  TelemetryInv'
  BY <1>4, FailureStep
<1>5. ASSUME NEW w \in Worker, CrashWorker(w) PROVE TelemetryInv'
  BY <1>5, CrashStep
<1> QED BY <1>1, <1>2, <1>3, <1>4, <1>5, Zenon DEF NextTelemetry

LEMMA TelemetryInvariant == SpecTelemetry => []TelemetryInv
<1>1. InitTelemetry => TelemetryInv
  BY TelemetryInit
<1>2. TelemetryInv /\ [NextTelemetry]_telemetryVars => TelemetryInv'
  BY TelemetryStep
<1> QED BY <1>1, <1>2, PTL DEF SpecTelemetry

(* However often a report is published, dispatched or redelivered, and       *)
(* whatever loops fail and workers die: each consumer gets one copy of it,   *)
(* the history one more for raw packets published again, and an entry is     *)
(* pending for one worker at most.                                           *)
THEOREM StreamsAreSafe == SpecTelemetry => []TelemetrySafety
<1>1. TelemetryInv => TelemetrySafety
  BY DEF TelemetryInv, TelemetrySafety
<1> QED BY <1>1, TelemetryInvariant, PTL

----------------------------------------------------------------------------
(* The promise to the consumers                                             *)

\* A step of the fan-out offers a report to all consumers, offers its raw
\* packets again to the history, or shows nothing new.
LEMMA DispatchPromises ==
  ASSUME TelemetryInv, NEW w \in Worker, Dispatch(w)
  PROVE  Promise!Next \/ UNCHANGED <<sent, receipt, Waiting, applied>>
<1> USE TelemetryConstants
<1> DEFINE e == First(loop[w]["dispatch"].todo)
           targets == CopiedTo(e.msg)
           copy(q) == [e EXCEPT !.copy = copies[q][e.msg] + 1]
<1>1. e \in loop[w]["dispatch"].todo /\ e \in Entry
  <2>1. loop[w]["dispatch"].todo \in SUBSET Entry /\ loop[w]["dispatch"].todo # {}
    BY DEF Dispatch, TelemetryInv, TelemetryTypeOK, Stream
  <2> QED BY <2>1, FirstIsThere
<1>2. e.msg \in Report /\ e.msg \in sent
  <2> HIDE DEF e
  <2> QED BY <1>1 DEF Entry, TelemetryInv
<1>3. /\ stream' = [q \in Stream |-> IF q \in targets THEN stream[q] \cup {copy(q)}
                                     ELSE stream[q]]
      /\ receipt' = receipt \cup {e.msg}
      /\ UNCHANGED <<applied, sent>>
  BY DEF Dispatch
<1>4. \A q : copy(q).msg = e.msg
  <2> HIDE DEF e
  <2> QED BY <1>1 DEF Entry
<1> DEFINE m == e.msg
<1> HIDE DEF e, copy
<1>5. Waiting' = [c \in Consumer |-> IF c \in targets THEN Waiting[c] \cup {m} ELSE Waiting[c]]
  <2>1. \A c \in Consumer : stream'[c] = IF c \in targets THEN stream[c] \cup {copy(c)}
                                         ELSE stream[c]
    BY <1>3 DEF Stream
  <2> HIDE DEF targets
  <2>2. \A c \in Consumer : {f.msg : f \in stream'[c]}
                              = IF c \in targets THEN {f.msg : f \in stream[c]} \cup {m}
                                ELSE {f.msg : f \in stream[c]}
    <3> TAKE c \in Consumer
    <3>1. CASE c \notin targets
      BY <2>1, <3>1
    <3>2. CASE c \in targets
      <4>1. stream'[c] = stream[c] \cup {copy(c)} /\ copy(c).msg = m
        BY <1>4, <2>1, <3>2
      <4> HIDE DEF m
      <4>2. {f.msg : f \in stream[c] \cup {copy(c)}} = {f.msg : f \in stream[c]} \cup {m}
        BY <4>1
      <4> QED BY <3>2, <4>1, <4>2
    <3> QED BY <3>1, <3>2
  <2> QED BY <2>2 DEF Waiting
<1>6. CASE m \notin receipt
  <2>1. targets = Consumer
    BY <1>6 DEF CopiedTo
  <2>2. Waiting' = [c \in Consumer |-> Waiting[c] \cup {m}]
    <3> HIDE DEF targets, m
    <3> QED BY <1>5, <2>1
  <2>3. Promise!Offer(m)
    BY <1>2, <1>3, <1>6, <2>2 DEF Promise!Offer
  <2> QED BY <1>2, <2>3 DEF Promise!Next
<1>7. CASE m \in receipt /\ targets = {}
  <2>1. Waiting' = Waiting
    <3> HIDE DEF targets, m
    <3> QED BY <1>5, <1>7 DEF Waiting
  <2> QED BY <1>3, <1>7, <2>1
<1>8. CASE m \in receipt /\ targets = {"history"}
  <2>1. "history" \in Consumer
    BY <1>8 DEF CopiedTo
  <2>2. Waiting' = [Waiting EXCEPT !["history"] = @ \cup {m}]
    <3> HIDE DEF targets, m
    <3> QED BY <1>5, <1>8, <2>1 DEF Waiting
  <2>3. Promise!OfferAgain(m, "history")
    BY <1>3, <1>8, <2>2 DEF Promise!OfferAgain
  <2> QED BY <1>2, <2>1, <2>3 DEF Promise!Next
<1> QED BY <1>6, <1>7, <1>8 DEF CopiedTo

LEMMA ConsumePromises ==
  ASSUME TelemetryInv, NEW w \in Worker, NEW c \in Consumer, Consume(w, c)
  PROVE  Promise!Next
<1> USE TelemetryConstants
<1>1. PICK S \in Portion(w, c) : applied' = [applied EXCEPT ![c] = @ \cup {e.msg : e \in S}]
  BY DEF Consume
<1>2. /\ loop[w][c].todo # {} /\ UNCHANGED <<stream, receipt, sent>>
      /\ loop[w][c].todo \in SUBSET Entry
  BY DEF Consume, TelemetryInv, TelemetryTypeOK, Stream
<1>3. S \subseteq loop[w][c].todo
  <2>1. First(loop[w][c].todo) \in loop[w][c].todo
    BY <1>2, FirstIsThere
  <2> QED BY <2>1 DEF Portion
<1> DEFINE M == {e.msg : e \in S} \cap Waiting[c]
<1>4. \A e \in S : e.msg \in Waiting[c] \/ e.msg \in applied[c]
  BY <1>3 DEF TelemetryInv, Waiting
<1>5. applied[c] \cup {e.msg : e \in S} = applied[c] \cup M
  BY <1>4
<1>6. M \in SUBSET Report
  BY <1>2, <1>3 DEF Entry
<1>7. Waiting' = Waiting
  BY <1>2 DEF Waiting
<1>8. Promise!Settle(c, M)
  <2>1. applied' = [applied EXCEPT ![c] = @ \cup M]
    BY <1>1, <1>5, Zenon
  <2> QED BY <1>2, <1>7, <2>1 DEF Promise!Settle
<1> QED BY <1>6, <1>8 DEF Promise!Next

LEMMA RemovePromises ==
  ASSUME TelemetryInv, NEW w \in Worker, NEW q \in Stream, MayRemove(w, q), Removed(w, q),
         UNCHANGED <<sent, receipt, applied>>
  PROVE  Promise!Next \/ UNCHANGED <<sent, receipt, Waiting, applied>>
<1>1. /\ stream' = [stream EXCEPT ![q] = @ \ loop[w][q].done]
      /\ stream \in [Stream -> SUBSET Entry]
  BY RemovedAreDone DEF TelemetryInv, TelemetryTypeOK
<1>2. CASE q = "dispatch"
  <2>1. \A c \in Consumer : stream'[c] = stream[c]
    BY <1>1, <1>2, TelemetryConstants DEF Stream
  <2>2. Waiting' = Waiting
    BY <2>1 DEF Waiting
  <2> QED BY <2>2
<1>3. CASE q # "dispatch"
  <2> DEFINE M == Waiting[q] \ Waiting'[q]
  <2>1. /\ q \in Consumer /\ stream'[q] = stream[q] \ loop[w][q].done
        /\ \A c \in Consumer \ {q} : stream'[c] = stream[c]
    BY <1>1, <1>3 DEF Stream
  <2>2. Waiting'[q] \subseteq Waiting[q] /\ \A c \in Consumer \ {q} : Waiting'[c] = Waiting[c]
    BY <2>1 DEF Waiting
  <2>3. Waiting' = [Waiting EXCEPT ![q] = @ \ M]
    BY <2>1, <2>2 DEF Waiting
  <2>4. M \subseteq applied[q]
    <3>1. \A e \in stream[q] \ stream'[q] : e.msg \in applied[q]
      BY RemovedStep, <2>1
    <3> QED BY <2>1, <3>1 DEF Waiting
  <2>5. M \in SUBSET Report
    BY <2>1, <2>4 DEF TelemetryInv, TelemetryTypeOK
  <2>6. Promise!Retire(q, M)
    <3> HIDE DEF M
    <3> QED BY <2>3, <2>4 DEF Promise!Retire
  <2> HIDE DEF M
  <2> QED BY <2>1, <2>5, <2>6 DEF Promise!Next
<1> QED BY <1>2, <1>3

LEMMA StepPromises ==
  ASSUME TelemetryInv, [NextTelemetry]_telemetryVars
  PROVE  [Promise!Next]_<<sent, receipt, Waiting, applied>>
<1>0. ASSUME UNCHANGED <<stream, sent, receipt, applied>>
      PROVE  UNCHANGED <<sent, receipt, Waiting, applied>>
  BY <1>0 DEF Waiting
<1>1. CASE UNCHANGED telemetryVars
  BY <1>0, <1>1 DEF telemetryVars
<1>2. ASSUME NEW m \in Report, SendReport(m) PROVE Promise!Next
  <2>1. \A c \in Consumer : stream'[c] = stream[c]
    BY <1>2, TelemetryConstants DEF SendReport, TelemetryInv, TelemetryTypeOK,
       Stream
  <2>2. Waiting' = Waiting
    BY <2>1 DEF Waiting
  <2>3. Promise!Send(m)
    BY <1>2, <2>2 DEF SendReport, Promise!Send
  <2> QED BY <2>3 DEF Promise!Next
<1>3. ASSUME NEW w \in Worker, NEW q \in Stream,
             Step(w, q) \/ ClaimSlow(w, q) \/ FailBatch(w, q) \/ FailRead(w, q)
      PROVE  Promise!Next \/ UNCHANGED <<sent, receipt, Waiting, applied>>
  <2>1. CASE RemoveEntry(w, q)
    BY <2>1, RemovePromises DEF RemoveEntry
  <2>2. CASE IF q = "dispatch" THEN Dispatch(w) ELSE Consume(w, q)
    <3>1. CASE q = "dispatch"
      BY <2>2, <3>1, DispatchPromises
    <3>2. CASE q # "dispatch"
      <4>1. q \in Consumer
        BY <3>2 DEF Stream
      <4> QED BY <2>2, <3>2, <4>1, ConsumePromises
    <3> QED BY <3>1, <3>2
  <2>3. CASE FailBatch(w, q)
    <3>1. UNCHANGED <<sent, receipt, applied>>
      BY <2>3 DEF FailBatch
    <3>2. CASE MayRemove(w, q) /\ Removed(w, q)
      BY <3>1, <3>2, RemovePromises
    <3> QED BY <1>0, <2>3, <3>1, <3>2 DEF FailBatch
  <2>4. CASE ReadOwn(w, q) \/ ReadNew(w, q) \/ ClaimDead(w, q) \/ ClaimSlow(w, q)
             \/ FailRead(w, q)
    <3>1. UNCHANGED <<stream, sent, receipt, applied>>
      BY <2>4 DEF ReadOwn, ReadNew, ClaimDead, ClaimSlow, FailRead, Deliver
    <3> QED BY <1>0, <3>1
  <2> QED BY <1>3, <2>1, <2>2, <2>3, <2>4 DEF Step
<1>4. ASSUME NEW w \in Worker, CrashWorker(w)
      PROVE  UNCHANGED <<sent, receipt, Waiting, applied>>
  BY <1>0, <1>4 DEF CrashWorker
<1> QED BY <1>1, <1>2, <1>3, <1>4, Zenon DEF NextTelemetry

(* Every step of the streams is one the promise to the consumers allows:     *)
(* a report is offered to all consumers together, and an entry goes only     *)
(* when its report has been applied.                                         *)
THEOREM StreamsKeepPromise == SpecTelemetry => Promise!Safe
<1>1. InitTelemetry => Promise!Init
  BY TelemetryConstants DEF InitTelemetry, Promise!Init, Waiting, Stream
<1>2. TelemetryInv /\ [NextTelemetry]_telemetryVars
        => [Promise!Next]_<<sent, receipt, Waiting, applied>>
  BY StepPromises
<1> QED BY <1>1, <1>2, TelemetryInvariant, PTL DEF SpecTelemetry, Promise!Safe,
           Promise!vars

----------------------------------------------------------------------------
(* The deadlines of offline alerts                                          *)

Due == 0 .. (MaxTime + Duration)

(* A report the index should know: its task has passed the schedule, or has  *)
(* found no rule watched before.                                             *)
Seen(r) == task[r] \in {"prepare", "evaluate", "done"}

(* Unless a change of the rule waits for a refresh, the metadata in Redis    *)
(* say what the database says, or the refresh under way is about to.         *)
RefreshInv ==
  /\ refresh \in [stage : {"idle", "write"}, rule : BOOLEAN, at : Due \cup {Nothing}]
  /\ refresh = NoRefresh \/ (refresh.stage = "write" /\ refresh.at \in Due)
  /\ ~wanted /\ refresh = NoRefresh => watched = offlineRule
  /\ ~wanted /\ refresh.stage = "write" => refresh.rule = offlineRule

(* A watched report has its deadline in the index, or a later one, or it has *)
(* passed.                                                                   *)
SeenInv ==
  /\ inputAt # Nothing => task[inputAt] \in {"evaluate", "done"}
  /\ watched /\ lost = {} =>
       \A r \in Moment : Seen(r) => (index >= r + Duration) \/ (r + Duration <= time)

(* The rule has an open record, or the index its deadline, or someone is     *)
(* about to find the device silent: the worker that has claimed the deadline,*)
(* or the evaluation of a report that is itself too old.                     *)
Waits == index # Nothing /\ (inputAt = Nothing \/ index >= inputAt + Duration)
WatchInv ==
  offlineRule /\ ~wanted /\ refresh = NoRefresh /\ lost = {} =>
    \/ raised \/ Waits
    \/ \E e \in Evaluator : evaluator[e] = "evaluate"
    \/ \E r \in Moment : /\ task[r] \in {"prepare", "evaluate"}
                         /\ r + Duration <= time

OfflineInv == OfflineTypeOK /\ RefreshInv /\ SeenInv /\ WatchInv

(* What OfflineConstants says of the numbers the clock and the index take.   *)
LEMMA Moments ==
  /\ Duration \in Nat /\ Duration > 0 /\ MaxTime \in Nat
  /\ Moment \subseteq Nat /\ 0 \in Moment /\ Nothing \in Int /\ Nothing \notin Moment
  /\ Due \subseteq Nat /\ Nothing \notin Due
  /\ \A r \in Moment : r \in Due /\ r + Duration \in Due /\ r <= MaxTime
BY OfflineConstants DEF Moment, Nothing, Due

LEMMA OfflineInit == InitOffline => OfflineInv
<1> SUFFICES ASSUME InitOffline PROVE OfflineInv
  OBVIOUS
<1>1. OfflineTypeOK
  <2>1. refresh.stage = "idle"
    BY DEF InitOffline, NoRefresh
  <2>2. /\ task \in [Moment -> {"none", "sent", "schedule", "prepare", "evaluate", "done"}]
        /\ evaluator \in [Evaluator -> {"idle", "evaluate", "remove"}]
    BY DEF InitOffline
  <2>3. time \in Moment /\ refreshes \in 0 .. MaxRefreshes /\ efaults \in 0 .. MaxEvalFaults
    BY OfflineConstants, Moments DEF InitOffline
  <2> QED BY <2>1, <2>2, <2>3 DEF InitOffline, OfflineTypeOK
<1>2. RefreshInv
  BY Moments DEF InitOffline, RefreshInv, NoRefresh
<1>3. SeenInv /\ WatchInv
  BY DEF InitOffline, SeenInv, WatchInv
<1> QED BY <1>1, <1>2, <1>3 DEF OfflineInv

(* Time makes deadlines pass, and nothing else.                              *)
LEMMA PassStep == OfflineInv /\ Pass => OfflineInv'
<1> SUFFICES ASSUME OfflineInv, Pass PROVE OfflineInv'
  OBVIOUS
<1>1. time \in Nat /\ time' = time + 1 /\ time' \in Moment
  BY OfflineConstants DEF OfflineInv, OfflineTypeOK, Pass, Moment
<1>2. OfflineTypeOK'
  BY <1>1 DEF OfflineInv, OfflineTypeOK, Pass
<1>3. RefreshInv'
  BY DEF OfflineInv, RefreshInv, Pass
<1>4. SeenInv'
  BY <1>1, Moments DEF OfflineInv, SeenInv, Pass, Seen
<1>5. WatchInv'
  BY <1>1, Moments DEF OfflineInv, WatchInv, Pass, Waits
<1> QED BY <1>2, <1>3, <1>4, <1>5 DEF OfflineInv

(* Sending a report, storing it elsewhere and looking whether there are rules*)
(* leave the index as it is; a report that finds no rule was not watched.    *)
LEMMA EarlyStep ==
  ASSUME OfflineInv, NEW r \in Moment, StoreLatest(r) \/ ReadActivity(r) \/ ReportNow
  PROVE  OfflineInv'
<1>1. /\ UNCHANGED <<time, inputAt, offlineRule, watched, index, refresh, wanted,
           refreshes, evaluator, raised, lost, efaults>>
      /\ lastReport' \in Moment \cup {Nothing}
  BY DEF OfflineInv, OfflineTypeOK, StoreLatest, ReadActivity, ReportNow
<1>2. /\ task' \in [Moment -> {"none", "sent", "schedule", "prepare", "evaluate", "done"}]
      /\ \A s \in Moment : \/ task'[s] = task[s]
                           \/ task[s] = "none" /\ task'[s] = "sent"
                           \/ task[s] = "sent" /\ task'[s] = "schedule"
                           \/ task[s] = "sent" /\ task'[s] = "prepare" /\ ~watched
  BY DEF OfflineInv, OfflineTypeOK, StoreLatest, ReadActivity, ReportNow
<1>3. OfflineTypeOK'
  BY <1>1, <1>2 DEF OfflineInv, OfflineTypeOK
<1>4. RefreshInv'
  BY <1>1 DEF OfflineInv, RefreshInv
<1>5. SeenInv'
  <2>1. inputAt' # Nothing => task'[inputAt'] \in {"evaluate", "done"}
    BY <1>1, <1>2 DEF OfflineInv, SeenInv, OfflineTypeOK
  <2>2. watched => \A s \in Moment : Seen(s)' => Seen(s)
    BY <1>2 DEF Seen
  <2> QED BY <1>1, <2>1, <2>2 DEF OfflineInv, SeenInv
<1>6. WatchInv'
  <2>1. \A s \in Moment : task[s] \in {"prepare", "evaluate"} => task'[s] = task[s]
    BY <1>2
  <2>2. Waits' <=> Waits
    BY <1>1 DEF Waits
  <2> QED BY <1>1, <2>1, <2>2 DEF OfflineInv, WatchInv
<1> QED BY <1>3, <1>4, <1>5, <1>6 DEF OfflineInv

(* A scheduled report is in the index if the rule is watched, and no deadline*)
(* moves to an earlier time.                                                 *)
LEMMA ScheduleStep ==
  ASSUME OfflineInv, NEW r \in Moment, Schedule(r) PROVE OfflineInv'
<1>1. /\ UNCHANGED <<time, lastReport, inputAt, offlineRule, watched, refresh, wanted,
           refreshes, evaluator, raised, lost, efaults>>
      /\ task[r] = "schedule" /\ task' = [task EXCEPT ![r] = "prepare"]
  BY DEF Schedule
<1>2. /\ index \in Due \cup {Nothing} /\ index' \in Due \cup {Nothing}
      /\ index # Nothing => index' # Nothing /\ index' >= index
      /\ watched => index' # Nothing /\ index' >= r + Duration
  BY Moments DEF OfflineInv, OfflineTypeOK, Schedule, Scheduled, Later, Due,
     Moment, Nothing
<1>3. /\ task' \in [Moment -> {"none", "sent", "schedule", "prepare", "evaluate", "done"}]
      /\ task'[r] = "prepare" /\ \A s \in Moment \ {r} : task'[s] = task[s]
  BY <1>1 DEF OfflineInv, OfflineTypeOK
<1>4. OfflineTypeOK'
  BY <1>1, <1>2, <1>3 DEF OfflineInv, OfflineTypeOK, Due
<1>5. RefreshInv'
  BY <1>1 DEF OfflineInv, RefreshInv
<1>6. SeenInv'
  <2>1. inputAt' # Nothing => task'[inputAt'] \in {"evaluate", "done"}
    BY <1>1, <1>3 DEF OfflineInv, SeenInv, OfflineTypeOK
  <2>2. ASSUME watched, lost = {}, NEW s \in Moment, Seen(s)'
        PROVE  (index' >= s + Duration) \/ (s + Duration <= time)
    <3>1. CASE s = r
      BY <1>2, <2>2, <3>1
    <3>2. CASE s # r
      <4>1. Seen(s)
        BY <1>3, <2>2, <3>2 DEF Seen
      <4>2. (index >= s + Duration) \/ (s + Duration <= time)
        BY <2>2, <4>1 DEF OfflineInv, SeenInv
      <4>3. s + Duration \in Nat
        BY Moments
      <4> QED BY <1>2, <4>2, <4>3, Moments DEF Nothing
    <3> QED BY <3>1, <3>2
  <2> QED BY <1>1, <2>1, <2>2 DEF SeenInv
<1>7. WatchInv'
  <2>1. Waits => Waits'
    BY <1>1, <1>2, Moments DEF Waits, OfflineInv, OfflineTypeOK, Moment, Nothing
  <2>2. \A s \in Moment : task[s] \in {"prepare", "evaluate"} => task'[s] = task[s]
    BY <1>1, <1>3
  <2> QED BY <1>1, <2>1, <2>2 DEF OfflineInv, WatchInv
<1> QED BY <1>4, <1>5, <1>6, <1>7 DEF OfflineInv

(* The input of the evaluation follows the reports.                          *)
LEMMA PrepareStep ==
  ASSUME OfflineInv, NEW r \in Moment, PrepareInput(r) PROVE OfflineInv'
<1>1. /\ UNCHANGED <<time, lastReport, offlineRule, watched, index, refresh, wanted,
           refreshes, evaluator, raised, lost, efaults>>
      /\ task[r] = "prepare" /\ task' = [task EXCEPT ![r] = "evaluate"]
  BY DEF PrepareInput
<1>2. /\ inputAt' \in Moment /\ (inputAt' = r \/ (inputAt' = inputAt /\ inputAt # Nothing))
  BY Moments DEF OfflineInv, OfflineTypeOK, PrepareInput, Later, Nothing
<1>3. /\ task' \in [Moment -> {"none", "sent", "schedule", "prepare", "evaluate", "done"}]
      /\ task'[r] = "evaluate" /\ \A s \in Moment \ {r} : task'[s] = task[s]
  BY <1>1 DEF OfflineInv, OfflineTypeOK
<1>4. OfflineTypeOK'
  BY <1>1, <1>2, <1>3 DEF OfflineInv, OfflineTypeOK
<1>5. RefreshInv'
  BY <1>1 DEF OfflineInv, RefreshInv
<1>6. SeenInv'
  <2>1. task'[inputAt'] \in {"evaluate", "done"}
    BY <1>1, <1>2, <1>3 DEF OfflineInv, SeenInv, OfflineTypeOK
  <2>2. \A s \in Moment : Seen(s)' => Seen(s)
    BY <1>1, <1>3 DEF Seen
  <2> QED BY <1>1, <2>1, <2>2 DEF OfflineInv, SeenInv
<1>7. WatchInv'
  <2> SUFFICES ASSUME offlineRule, ~wanted, refresh = NoRefresh, lost = {},
                      ~raised, \A e \in Evaluator : evaluator[e] # "evaluate",
                      ~ \E s \in Moment : task'[s] \in {"prepare", "evaluate"} /\ s + Duration <= time
               PROVE  Waits'
    BY <1>1 DEF WatchInv
  <2>1. watched
    BY DEF OfflineInv, RefreshInv
  <2>2. ~(r + Duration <= time) /\ Seen(r)
    BY <1>1, <1>3 DEF Seen
  <2>3. index >= r + Duration
    BY <2>1, <2>2 DEF OfflineInv, SeenInv
  <2>4. \A s \in Moment : task[s] \in {"prepare", "evaluate"} => ~(s + Duration <= time)
    BY <1>1, <1>3
  <2>5. Waits
    BY <2>4 DEF OfflineInv, WatchInv
  <2> QED BY <1>1, <1>2, <2>3, <2>5 DEF Waits
<1> QED BY <1>4, <1>5, <1>6, <1>7 DEF OfflineInv

(* The evaluation of a report that is not too old finds its deadline, or a   *)
(* later one, in the index.                                                  *)
LEMMA EvaluateStep ==
  ASSUME OfflineInv, NEW r \in Moment, EvaluateReport(r) PROVE OfflineInv'
<1>1. /\ UNCHANGED <<time, lastReport, inputAt, offlineRule, watched, index, refresh,
           wanted, refreshes, evaluator, lost, efaults>>
      /\ task[r] = "evaluate" /\ task' = [task EXCEPT ![r] = "done"]
      /\ raised' \in BOOLEAN
      /\ offlineRule /\ ~raised' => ~(r + Duration <= time)
  BY DEF EvaluateReport, Offline, OfflineInv, OfflineTypeOK
<1>2. /\ task' \in [Moment -> {"none", "sent", "schedule", "prepare", "evaluate", "done"}]
      /\ task'[r] = "done" /\ \A s \in Moment \ {r} : task'[s] = task[s]
  BY <1>1 DEF OfflineInv, OfflineTypeOK
<1>3. OfflineTypeOK'
  BY <1>1, <1>2 DEF OfflineInv, OfflineTypeOK
<1>4. RefreshInv'
  BY <1>1 DEF OfflineInv, RefreshInv
<1>5. SeenInv'
  <2>1. inputAt' # Nothing => task'[inputAt'] \in {"evaluate", "done"}
    BY <1>1, <1>2 DEF OfflineInv, SeenInv, OfflineTypeOK
  <2>2. \A s \in Moment : Seen(s)' => Seen(s)
    BY <1>1, <1>2 DEF Seen
  <2> QED BY <1>1, <2>1, <2>2 DEF OfflineInv, SeenInv
<1>6. WatchInv'
  <2> SUFFICES ASSUME offlineRule, ~wanted, refresh = NoRefresh, lost = {}, ~raised'
               PROVE  Waits'
    BY <1>1 DEF WatchInv
  <2>1. watched
    BY DEF OfflineInv, RefreshInv
  <2>2. ~(r + Duration <= time) /\ Seen(r)
    BY <1>1 DEF Seen
  <2>3. index >= r + Duration
    BY <2>1, <2>2 DEF OfflineInv, SeenInv
  <2>4. inputAt # Nothing => Seen(inputAt) /\ inputAt \in Moment
    BY DEF OfflineInv, OfflineTypeOK, SeenInv, Seen
  <2>5. inputAt # Nothing => (index >= inputAt + Duration) \/ (inputAt + Duration <= time)
    BY <2>1, <2>4 DEF OfflineInv, SeenInv
  <2>6. index \in Int /\ time \in Nat /\ r + Duration \in Nat
        /\ (inputAt # Nothing => inputAt + Duration \in Nat)
    BY <2>4, Moments DEF OfflineInv, OfflineTypeOK, Nothing
  <2>7. index # Nothing
    BY <2>3, <2>6 DEF Nothing
  <2> QED BY <1>1, <2>2, <2>3, <2>5, <2>6, <2>7 DEF Waits
<1> QED BY <1>3, <1>4, <1>5, <1>6 DEF OfflineInv

(* A change of the rule asks for a refresh, whatever becomes of the record.  *)
LEMMA ChangeStep == OfflineInv /\ ChangeRule => OfflineInv'
<1> SUFFICES ASSUME OfflineInv, ChangeRule PROVE OfflineInv'
  OBVIOUS
<1>1. /\ UNCHANGED <<time, task, lastReport, inputAt, watched, index, refresh, evaluator,
           lost, efaults>>
      /\ wanted' = TRUE /\ raised' \in BOOLEAN
  BY DEF ChangeRule
<1>2. offlineRule' \in BOOLEAN /\ refreshes' \in 0 .. MaxRefreshes
  BY OfflineConstants DEF ChangeRule, OfflineInv, OfflineTypeOK
<1>3. OfflineTypeOK'
  BY <1>1, <1>2 DEF OfflineInv, OfflineTypeOK
<1>4. RefreshInv'
  BY <1>1 DEF OfflineInv, RefreshInv
<1>5. SeenInv'
  BY <1>1 DEF OfflineInv, SeenInv, Seen
<1>6. WatchInv'
  BY <1>1 DEF WatchInv
<1> QED BY <1>3, <1>4, <1>5, <1>6 DEF OfflineInv

(* A refresh starts from what the database says ...                          *)
LEMMA BeginStep == OfflineInv /\ BeginRefresh => OfflineInv'
<1> SUFFICES ASSUME OfflineInv, BeginRefresh PROVE OfflineInv'
  OBVIOUS
<1>1. UNCHANGED <<time, task, lastReport, inputAt, offlineRule, watched, index,
        evaluator, raised, lost, efaults>> /\ wanted' = FALSE
  BY DEF BeginRefresh
<1>2. refreshes' \in 0 .. MaxRefreshes
  BY OfflineConstants DEF BeginRefresh, OfflineInv, OfflineTypeOK
<1>3. (IF inputAt = Nothing THEN time ELSE inputAt + Duration) \in Due
  BY Moments DEF OfflineInv, OfflineTypeOK
<1>4. /\ refresh' \in [stage : {"idle", "write"}, rule : BOOLEAN, at : Due \cup {Nothing}]
      /\ refresh'.stage = "write" /\ refresh'.rule = offlineRule /\ refresh'.at \in Due
      /\ refresh' # NoRefresh
  BY <1>3 DEF BeginRefresh, OfflineInv, OfflineTypeOK, NoRefresh
<1>5. OfflineTypeOK'
  BY <1>1, <1>2, <1>4 DEF OfflineInv, OfflineTypeOK
<1>6. RefreshInv'
  BY <1>1, <1>4 DEF RefreshInv
<1>7. SeenInv'
  BY <1>1 DEF OfflineInv, SeenInv, Seen
<1>8. WatchInv'
  BY <1>4 DEF WatchInv
<1> QED BY <1>5, <1>6, <1>7, <1>8 DEF OfflineInv

(* ... and ends with metadata that agree with it, unless the rule has changed*)
(* again, and with a deadline no earlier than that of any report seen, unless*)
(* one was lost.                                                             *)
LEMMA FinishStep == OfflineInv /\ FinishRefresh => OfflineInv'
<1> SUFFICES ASSUME OfflineInv, FinishRefresh PROVE OfflineInv'
  OBVIOUS
<1> DEFINE at == Rebuilt(refresh.at)
<1>1. /\ UNCHANGED <<time, task, inputAt, lastReport, offlineRule, wanted, refreshes,
           evaluator, raised, efaults>>
      /\ refresh.stage = "write" /\ refresh' = NoRefresh
      /\ watched' = refresh.rule
      /\ index' = IF refresh.rule THEN at ELSE Nothing
  BY DEF FinishRefresh
<1>2. /\ refresh.rule \in BOOLEAN /\ refresh.at \in Due
      /\ ~wanted => refresh.rule = offlineRule
  BY <1>1 DEF OfflineInv, RefreshInv, NoRefresh
<1>3. at \in Due
  BY <1>2, Moments DEF Rebuilt, Later, OfflineInv, OfflineTypeOK
<1>4. /\ lost' \subseteq {"refresh", "removal", "failure"}
      /\ lost' = {} => \A r \in Moment : Seen(r) => ~(r + Duration > at)
  BY DEF FinishRefresh, Seen, OfflineInv, OfflineTypeOK
<1> HIDE DEF at
<1>5. OfflineTypeOK'
  <2>1. refresh'.stage = "idle"
    BY <1>1 DEF NoRefresh
  <2>2. index' \in 0 .. (MaxTime + Duration) \cup {Nothing}
    BY <1>1, <1>3 DEF Due
  <2> QED BY <1>1, <1>2, <1>4, <2>1, <2>2 DEF OfflineInv, OfflineTypeOK
<1>6. RefreshInv'
  <2>1. /\ refresh' \in [stage : {"idle", "write"}, rule : BOOLEAN, at : Due \cup {Nothing}]
        /\ refresh'.stage # "write"
    BY <1>1 DEF NoRefresh
  <2> QED BY <1>1, <1>2, <2>1 DEF RefreshInv
<1>7. ASSUME lost' = {}, refresh.rule, NEW r \in Moment, Seen(r)
      PROVE  index' >= r + Duration
  BY <1>1, <1>3, <1>4, <1>7, Moments
<1>8. SeenInv'
  <2>1. \A r \in Moment : Seen(r)' <=> Seen(r)
    BY <1>1 DEF Seen
  <2>2. inputAt' # Nothing => task'[inputAt'] \in {"evaluate", "done"}
    BY <1>1 DEF OfflineInv, SeenInv
  <2> QED BY <1>1, <1>7, <2>1, <2>2 DEF SeenInv
<1>9. WatchInv'
  <2> SUFFICES ASSUME offlineRule, ~wanted, lost' = {} PROVE Waits'
    BY <1>1 DEF WatchInv
  <2>1. index' # Nothing
    BY <1>1, <1>2, <1>3, Moments
  <2>2. inputAt # Nothing => Seen(inputAt) /\ inputAt \in Moment
    BY DEF OfflineInv, OfflineTypeOK, SeenInv, Seen
  <2> QED BY <1>1, <1>2, <1>7, <2>1, <2>2 DEF Waits
<1> QED BY <1>5, <1>6, <1>8, <1>9 DEF OfflineInv

(* The worker that claims a passed deadline is the one that evaluates it.    *)
LEMMA ClaimStep ==
  ASSUME OfflineInv, NEW e \in Evaluator, Claim(e) PROVE OfflineInv'
<1>1. /\ UNCHANGED <<time, task, lastReport, inputAt, offlineRule, watched, refresh,
           wanted, refreshes, raised, lost, efaults>>
      /\ index <= time /\ index' = Nothing
      /\ evaluator' = [evaluator EXCEPT ![e] = "evaluate"]
  BY DEF Claim
<1>2. evaluator' \in [Evaluator -> {"idle", "evaluate", "remove"}] /\ evaluator'[e] = "evaluate"
  BY <1>1 DEF OfflineInv, OfflineTypeOK
<1>3. OfflineTypeOK'
  BY <1>1, <1>2 DEF OfflineInv, OfflineTypeOK
<1>4. RefreshInv'
  BY <1>1 DEF OfflineInv, RefreshInv
<1>5. SeenInv'
  <2>1. index \in Int /\ time \in Nat
    BY Moments DEF OfflineInv, OfflineTypeOK, Nothing
  <2>2. \A r \in Moment : r + Duration \in Nat
    BY Moments
  <2>3. \A r \in Moment : (index >= r + Duration) => (r + Duration <= time)
    BY <1>1, <2>1, <2>2
  <2> QED BY <1>1, <2>3 DEF OfflineInv, SeenInv, Seen
<1>6. WatchInv'
  BY <1>2 DEF WatchInv
<1> QED BY <1>3, <1>4, <1>5, <1>6 DEF OfflineInv

(* Its evaluation raises the alert unless the device has reported since, and *)
(* then the deadline of that report is in the index.                         *)
LEMMA DeadlineEvaluated ==
  ASSUME OfflineInv, NEW e \in Evaluator, EvaluateDeadline(e) PROVE OfflineInv'
<1>1. /\ UNCHANGED <<time, task, lastReport, inputAt, offlineRule, watched, index, refresh,
           wanted, refreshes, lost, efaults>>
      /\ evaluator' = [evaluator EXCEPT ![e] = "remove"]
      /\ raised' \in BOOLEAN
      /\ offlineRule /\ ~raised' => inputAt # Nothing /\ ~(inputAt + Duration <= time)
  BY DEF EvaluateDeadline, Offline, OfflineInv, OfflineTypeOK
<1>2. evaluator' \in [Evaluator -> {"idle", "evaluate", "remove"}]
  BY <1>1 DEF OfflineInv, OfflineTypeOK
<1>3. OfflineTypeOK'
  BY <1>1, <1>2 DEF OfflineInv, OfflineTypeOK
<1>4. RefreshInv'
  BY <1>1 DEF OfflineInv, RefreshInv
<1>5. SeenInv'
  BY <1>1 DEF OfflineInv, SeenInv, Seen
<1>6. WatchInv'
  <2> SUFFICES ASSUME offlineRule, ~wanted, refresh = NoRefresh, lost = {}, ~raised'
               PROVE  Waits'
    BY <1>1 DEF WatchInv
  <2>1. watched
    BY DEF OfflineInv, RefreshInv
  <2>2. inputAt \in Moment /\ Seen(inputAt)
    BY <1>1 DEF OfflineInv, OfflineTypeOK, SeenInv, Seen
  <2>3. index >= inputAt + Duration
    BY <1>1, <2>1, <2>2 DEF OfflineInv, SeenInv
  <2>4. index # Nothing
    BY <2>2, <2>3, Moments DEF Nothing
  <2> QED BY <1>1, <2>3, <2>4 DEF Waits
<1> QED BY <1>3, <1>4, <1>5, <1>6 DEF OfflineInv

(* The second removal finds nothing, or a deadline is lost.                  *)
LEMMA RemovalStep ==
  ASSUME OfflineInv, NEW e \in Evaluator, RemoveDeadline(e) PROVE OfflineInv'
<1>1. /\ UNCHANGED <<time, task, lastReport, inputAt, offlineRule, watched, refresh,
           wanted, refreshes, raised, efaults>>
      /\ index' = Nothing
      /\ evaluator[e] = "remove" /\ evaluator' = [evaluator EXCEPT ![e] = "idle"]
      /\ lost' \subseteq {"refresh", "removal", "failure"}
      /\ lost' = {} => lost = {} /\ index = Nothing
  BY DEF RemoveDeadline, OfflineInv, OfflineTypeOK
<1>2. /\ evaluator' \in [Evaluator -> {"idle", "evaluate", "remove"}]
      /\ \A x \in Evaluator : evaluator[x] = "evaluate" => evaluator'[x] = "evaluate"
  BY <1>1 DEF OfflineInv, OfflineTypeOK
<1>3. OfflineTypeOK'
  BY <1>1, <1>2 DEF OfflineInv, OfflineTypeOK
<1>4. RefreshInv'
  BY <1>1 DEF OfflineInv, RefreshInv
<1>5. SeenInv'
  BY <1>1 DEF OfflineInv, SeenInv, Seen
<1>6. WatchInv'
  BY <1>1, <1>2 DEF OfflineInv, WatchInv, Waits
<1> QED BY <1>3, <1>4, <1>5, <1>6 DEF OfflineInv

(* A failed evaluation loses the deadline it has claimed.                    *)
LEMMA FailStep ==
  ASSUME OfflineInv, NEW e \in Evaluator, FailEvaluation(e) PROVE OfflineInv'
<1>1. /\ UNCHANGED <<time, task, lastReport, inputAt, offlineRule, watched, index, refresh,
           wanted, refreshes, raised>>
      /\ evaluator' \in [Evaluator -> {"idle", "evaluate", "remove"}]
      /\ lost' \subseteq {"refresh", "removal", "failure"} /\ lost' # {}
      /\ efaults' \in 0 .. MaxEvalFaults
  BY OfflineConstants DEF FailEvaluation, OfflineInv, OfflineTypeOK
<1>2. OfflineTypeOK'
  BY <1>1 DEF OfflineInv, OfflineTypeOK
<1>3. RefreshInv'
  BY <1>1 DEF OfflineInv, RefreshInv
<1>4. SeenInv' /\ WatchInv'
  BY <1>1 DEF OfflineInv, SeenInv, WatchInv
<1> QED BY <1>2, <1>3, <1>4 DEF OfflineInv

LEMMA OfflineStep == OfflineInv /\ [NextOffline]_offlineVars => OfflineInv'
<1> SUFFICES ASSUME OfflineInv, [NextOffline]_offlineVars PROVE OfflineInv'
  OBVIOUS
<1>1. CASE UNCHANGED offlineVars
  BY <1>1 DEF offlineVars, OfflineInv, OfflineTypeOK, RefreshInv, SeenInv, Seen,
     WatchInv,
     Waits
<1>2. CASE Pass \/ ReportNow \/ ChangeRule \/ BeginRefresh \/ FinishRefresh
  BY <1>2, Moments, PassStep, EarlyStep, ChangeStep, BeginStep, FinishStep
<1>3. ASSUME NEW r \in Moment, ReportStep(r) PROVE OfflineInv'
  BY <1>3, EarlyStep, ScheduleStep, PrepareStep, EvaluateStep DEF ReportStep
<1>4. ASSUME NEW e \in Evaluator, DeadlineStep(e) \/ FailEvaluation(e) PROVE OfflineInv'
  BY <1>4, ClaimStep, DeadlineEvaluated, RemovalStep, FailStep DEF DeadlineStep
<1> QED BY <1>1, <1>2, <1>3, <1>4 DEF NextOffline

(* A rule nothing has happened to is watched: when no refresh, report or     *)
(* evaluation is under way, the device has its deadline in the index, no     *)
(* earlier than that of its last report, or an open record, unless one of the*)
(* three named ways has lost a deadline.                                     *)
THEOREM SilenceIsWatched == SpecOffline => []OfflineSafety
<1>1. OfflineInv => OfflineSafety
  <2> SUFFICES ASSUME OfflineInv, Quiet, offlineRule, lost = {}
               PROVE  raised \/ Waits
    BY DEF OfflineInv, OfflineSafety, RuleIsWatched, Waits
  <2>1. /\ \A e \in Evaluator : evaluator[e] # "evaluate"
        /\ \A r \in Moment : task[r] \notin {"prepare", "evaluate"}
    BY DEF Quiet
  <2> QED BY <2>1 DEF OfflineInv, WatchInv, Quiet
<1>2. SpecOffline => []OfflineInv
  BY OfflineInit, OfflineStep, PTL DEF SpecOffline
<1> QED BY <1>1, <1>2, PTL

----------------------------------------------------------------------------
(* Live queries                                                             *)

(* No entry announces more than is committed.                                *)
TruthInv == \A i \in DOMAIN changes : changes[i].version <= truth[changes[i].topic]

(* A bell rings for the channels that have changed, and a page that waits    *)
(* has queried all it was told to.                                           *)
BellInv ==
  /\ session.at = "none" => ~bell /\ changed = {}
  /\ session.single => changed = {}
  /\ changed # {} => bell
  /\ session.at = "waiting" => todo = {}

(* A page has been told of an entry: each of its channels shows it, or is    *)
(* about to be queried, or shows an error.                                   *)
Shown(i, c) ==
  changes[i].topic \in Reads(c) => view[c][changes[i].topic] >= changes[i].version
Informed(i) ==
  Subscribed =>
    \A c \in session.channels :
      \/ c \in failing \/ c \in todo
      \/ bell /\ session.single
      \/ c \in changed
      \/ Shown(i, c)

(* Where the reader is, and what it has told: everything acknowledged unless *)
(* a recovery is to come, and while a batch is acknowledged all of it.       *)
ReaderInv ==
  /\ reader.at \in {"recovering", "listing", "asleep"} => reader.recovers
  /\ reader.at \in {"heard", "acking"} /\ ~reader.recovers => reader.batch # {}
  /\ reader.at = "acking" /\ ~reader.recovers => \A i \in reader.batch : Informed(i)
  /\ ~reader.recovers \/ reader.at = "listing" =>
       \A i \in (1 .. handed) \ unacked : Informed(i)

LiveInv == LiveTypeOK /\ TruthInv /\ BellInv /\ ReaderInv

(* What LiveInv says of the types, apart: the stream and its group, the      *)
(* reader, and the page.                                                     *)
GroupTypes ==
  /\ truth \in [Area -> Nat] /\ unannounced \subseteq Area
  /\ changes \in Seq([topic : Area, version : Nat])
  /\ handed \in 0 .. Len(changes) /\ unacked \subseteq 1 .. handed
  /\ stray \in BOOLEAN /\ broken \in Nat
LoopTypes ==
  /\ reader.at \in {"recovering", "listing", "reading", "heard", "acking", "asleep"}
  /\ reader.recovers \in BOOLEAN /\ reader.batch \subseteq 1 .. handed
PageTypes ==
  /\ session.at \in {"none", "opening", "waiting", "querying", "closed"}
  /\ session.channels \subseteq Channel /\ session.single \in BOOLEAN
  /\ bell \in BOOLEAN
  /\ changed \subseteq session.channels /\ todo \subseteq session.channels
  /\ failing \subseteq session.channels
  /\ DOMAIN view = Channel
  /\ \A c \in Channel : view[c] \in [Reads(c) -> Nat]
  /\ misses \in Nat

LEMMA LiveTypes ==
  /\ LiveTypeOK <=> GroupTypes /\ LoopTypes /\ PageTypes
  /\ LiveTypeOK' <=> GroupTypes' /\ LoopTypes' /\ PageTypes'
BY DEF LiveTypeOK, GroupTypes, LoopTypes, PageTypes

LEMMA ElementsOf == ASSUME NEW S, NEW s \in Seq(S)
                    PROVE  \A i \in 1 .. Len(s) : s[i] \in S
OBVIOUS

LEMMA EntryTypes ==
  ASSUME LiveInv
  PROVE  /\ DOMAIN changes = 1 .. Len(changes) /\ Len(changes) \in Nat
         /\ \A i \in DOMAIN changes : /\ changes[i].topic \in Area
                                     /\ changes[i].version \in Nat
         /\ 1 .. handed \subseteq DOMAIN changes
<1>1. changes \in Seq([topic : Area, version : Nat]) /\ handed \in 0 .. Len(changes)
  BY LiveTypes DEF LiveInv, GroupTypes
<1>2. DOMAIN changes = 1 .. Len(changes) /\ Len(changes) \in Nat
  BY <1>1
<1>3. \A i \in DOMAIN changes : changes[i] \in [topic : Area, version : Nat]
  BY <1>1, <1>2, ElementsOf
<1>4. 1 .. handed \subseteq DOMAIN changes
  BY <1>1, <1>2
<1> QED BY <1>2, <1>3, <1>4

LEMMA LiveInit == InitLive => LiveInv
<1> SUFFICES ASSUME InitLive PROVE LiveInv
  OBVIOUS
<1>1. changes = <<>> /\ Len(changes) = 0
  BY DEF InitLive
<1>2. GroupTypes
  <2>1. changes \in Seq([topic : Area, version : Nat])
    BY <1>1
  <2>2. truth \in [Area -> Nat] /\ unannounced \subseteq Area
    BY DEF InitLive
  <2>3. handed \in 0 .. Len(changes) /\ unacked \subseteq 1 .. handed
    BY <1>1 DEF InitLive
  <2>4. stray \in BOOLEAN /\ broken \in Nat
    BY DEF InitLive
  <2> QED BY <2>1, <2>2, <2>3, <2>4 DEF GroupTypes
<1>3. /\ reader.at = "recovering" /\ reader.recovers = TRUE /\ reader.batch = {}
      /\ session.at = "none" /\ session.channels \subseteq Channel
      /\ session.single \in BOOLEAN
  <2>1. reader = [at |-> "recovering", recovers |-> TRUE, batch |-> {}]
    BY DEF InitLive
  <2>2. CASE session = [at |-> "none", channels |-> Channel, single |-> FALSE]
    BY <2>1, <2>2
  <2>3. CASE \E c \in Channel :
               session = [at |-> "none", channels |-> {c}, single |-> TRUE]
    BY <2>1, <2>3
  <2> QED BY <2>2, <2>3 DEF InitLive
<1>4. LoopTypes
  BY <1>3 DEF LoopTypes
<1>5. PageTypes
  <2>1. DOMAIN view = Channel /\ \A c \in Channel : view[c] \in [Reads(c) -> Nat]
    BY DEF InitLive
  <2> QED BY <1>3, <2>1 DEF InitLive, PageTypes
<1>6. TruthInv
  BY <1>1 DEF TruthInv
<1>7. BellInv
  BY <1>3 DEF InitLive, BellInv
<1>8. ReaderInv
  BY <1>3 DEF ReaderInv
<1> QED BY <1>2, <1>4, <1>5, <1>6, <1>7, <1>8, LiveTypes DEF LiveInv

(* What was told stays told as long as the page and the entries stay.        *)
LEMMA TellingStays ==
  ASSUME UNCHANGED <<changes, session, bellVars, viewVars>>
  PROVE  /\ \A i : Informed(i)' <=> Informed(i)
         /\ BellInv => BellInv'
         /\ PageTypes => PageTypes'
BY DEF bellVars, viewVars, Informed, Shown, Subscribed, BellInv, PageTypes

(* The writers                                                               *)

(* A change is committed: the announcements made before are still true.      *)
LEMMA EditStep ==
  ASSUME LiveInv, NEW a \in Area, Edit(a) PROVE LiveInv'
<1>1. /\ UNCHANGED <<changes, handed, unacked, stray, reader, session, bellVars, viewVars,
           broken>>
      /\ truth' = [truth EXCEPT ![a] = @ + 1] /\ unannounced' = unannounced \cup {a}
  BY DEF Edit, groupVars
<1>2. GroupTypes'
  BY <1>1, LiveTypes DEF LiveInv, GroupTypes
<1>3. LoopTypes' /\ PageTypes'
  BY <1>1, TellingStays, LiveTypes DEF LiveInv, LoopTypes
<1>4. TruthInv'
  <2>1. \A i \in DOMAIN changes : changes[i].topic \in Area /\ changes[i].version \in Nat
    BY EntryTypes
  <2>2. \A b \in Area : truth[b] \in Nat /\ truth'[b] \in Nat /\ truth'[b] >= truth[b]
    BY <1>1, LiveTypes DEF LiveInv, GroupTypes
  <2> QED BY <1>1, <2>1, <2>2 DEF LiveInv, TruthInv
<1>5. BellInv' /\ ReaderInv'
  BY <1>1, TellingStays DEF LiveInv, ReaderInv
<1> QED BY <1>2, <1>3, <1>4, <1>5, LiveTypes DEF LiveInv

(* An announcement says what is committed; the group has not seen it yet.    *)
LEMMA AnnounceStep ==
  ASSUME LiveInv, NEW a \in Area, Announce(a) PROVE LiveInv'
<1> DEFINE e == [topic |-> a, version |-> truth[a]]
<1>1. /\ UNCHANGED <<truth, handed, unacked, stray, reader, session, bellVars, viewVars,
           broken>>
      /\ unannounced' = unannounced \ {a} /\ changes' = Append(changes, e)
  BY DEF Announce, groupVars
<1>2. /\ changes \in Seq([topic : Area, version : Nat]) /\ e \in [topic : Area, version : Nat]
      /\ truth \in [Area -> Nat]
  BY LiveTypes DEF LiveInv, GroupTypes
<1>3. /\ changes' \in Seq([topic : Area, version : Nat])
      /\ Len(changes') = Len(changes) + 1 /\ DOMAIN changes' = 1 .. (Len(changes) + 1)
      /\ \A i \in 1 .. Len(changes) : changes'[i] = changes[i]
      /\ changes'[Len(changes) + 1] = e
      /\ DOMAIN changes = 1 .. Len(changes) /\ Len(changes) \in Nat
  <2> HIDE DEF e
  <2> QED BY <1>1, <1>2
<1>4. GroupTypes'
  BY <1>1, <1>3, LiveTypes DEF LiveInv, GroupTypes
<1>5. LoopTypes' /\ PageTypes'
  BY <1>1, LiveTypes DEF LiveInv, LoopTypes, PageTypes, bellVars, viewVars
<1>6. TruthInv'
  <2>1. changes'[Len(changes) + 1].version <= truth'[changes'[Len(changes) + 1].topic]
    BY <1>1, <1>2, <1>3
  <2>2. \A i \in 1 .. Len(changes) : changes'[i].version <= truth'[changes'[i].topic]
    BY <1>1, <1>3 DEF LiveInv, TruthInv
  <2> QED BY <1>3, <2>1, <2>2 DEF TruthInv
<1>7. \A i \in 1 .. handed : Informed(i)' <=> Informed(i)
  <2>1. \A i \in 1 .. handed : changes'[i] = changes[i]
    BY <1>3, EntryTypes
  <2>2. UNCHANGED <<session, bell, changed, todo, view, failing>>
    BY <1>1 DEF bellVars, viewVars
  <2> QED BY <2>1, <2>2 DEF Informed, Shown, Subscribed
<1>8. BellInv'
  BY <1>1 DEF LiveInv, BellInv, bellVars, viewVars
<1>9. ReaderInv'
  <2>1. reader.batch \subseteq 1 .. handed
    BY LiveTypes DEF LiveInv, LoopTypes
  <2> QED BY <1>1, <1>7, <2>1 DEF LiveInv, ReaderInv
<1> QED BY <1>4, <1>5, <1>6, <1>8, <1>9, LiveTypes DEF LiveInv

(* The reader                                                                *)

(* A bell that is rung for some topics tells every subscription of all the   *)
(* entries with such a topic, and it tells nobody less than was told before. *)
LEMMA RingTells ==
  ASSUME LiveInv, NEW topics, Ring(topics), UNCHANGED <<changes, session, viewVars>>
  PROVE  /\ PageTypes' /\ BellInv'
         /\ \A i \in 1 .. handed : Informed(i) => Informed(i)'
         /\ \A i \in 1 .. handed : changes[i].topic \in topics => Informed(i)'
         /\ (\A c \in session.channels : \E t \in topics : Affects(c, t)) =>
              \A i \in 1 .. handed : Informed(i)'
<1> DEFINE heard == {c \in session.channels : \E t \in topics : Affects(c, t)}
<1>1. \/ ~Subscribed /\ UNCHANGED <<bell, changed>>
      \/ /\ Subscribed /\ session.single /\ changed' = changed
         /\ bell' = (bell \/ heard # {})
      \/ /\ Subscribed /\ ~session.single /\ changed' = changed \cup heard
         /\ bell' = (bell \/ changed \cup heard # {})
  BY DEF Ring, bellVars
<1>2. UNCHANGED <<changes, session, todo, view, failing, misses>>
  BY DEF viewVars
<1>3. heard \subseteq session.channels
  OBVIOUS
<1>4. PageTypes'
  <2> HIDE DEF heard
  <2>1. bell' \in BOOLEAN /\ changed' \subseteq session.channels
    BY <1>1, <1>3, LiveTypes DEF LiveInv, PageTypes
  <2> QED BY <1>2, <2>1, LiveTypes DEF LiveInv, PageTypes
<1>5. BellInv'
  <2> HIDE DEF heard
  <2>1. /\ \/ changed' = changed
           \/ ~session.single /\ (changed' # {} => bell')
        /\ bell => bell'
        /\ Subscribed \/ UNCHANGED <<bell, changed>>
    BY <1>1, LiveTypes DEF LiveInv, PageTypes
  <2> QED BY <1>2, <2>1 DEF LiveInv, BellInv, Subscribed
<1>6. \A i : Informed(i) => Informed(i)'
  <2> HIDE DEF heard
  <2> QED BY <1>1, <1>2 DEF Informed, Shown, Subscribed
<1>7. ASSUME NEW i \in 1 .. handed,
             \A c \in session.channels : changes[i].topic \in Reads(c) => c \in heard
      PROVE  Informed(i)'
  <2> HIDE DEF heard
  <2> SUFFICES ASSUME Subscribed, NEW c \in session.channels, ~Shown(i, c)
               PROVE  (bell' /\ session.single) \/ c \in changed'
    BY <1>2 DEF Informed, Shown, Subscribed
  <2>1. c \in heard
    BY <1>7 DEF Shown
  <2> QED BY <1>1, <2>1
<1>8. ASSUME NEW i \in 1 .. handed, changes[i].topic \in topics PROVE Informed(i)'
  BY <1>7, <1>8 DEF Reads
<1> QED BY <1>4, <1>5, <1>6, <1>7, <1>8

(* A rebuilding rings everything, whatever the stream says.                  *)
LEMMA RebuildStep == LiveInv /\ Rebuild => LiveInv'
<1> SUFFICES ASSUME LiveInv, Rebuild PROVE LiveInv'
  OBVIOUS
<1>1. /\ Ring({"*"}) /\ UNCHANGED <<changes, session, viewVars>>
      /\ UNCHANGED <<truth, unannounced, handed, unacked, stray, broken>>
      /\ reader' = [at |-> "listing", recovers |-> reader.recovers, batch |-> {}]
      /\ reader.at = "recovering"
  BY DEF Rebuild, RingEverything, ReaderGoes, storeVars, groupVars
<1>2. \A c \in session.channels : Affects(c, "*")
  BY Zenon DEF Affects
<1>3. /\ PageTypes' /\ BellInv' /\ \A i \in 1 .. handed : Informed(i)'
  BY <1>1, <1>2, RingTells
<1>4. GroupTypes' /\ LoopTypes' /\ TruthInv'
  BY <1>1, LiveTypes DEF LiveInv, GroupTypes, LoopTypes, TruthInv
<1>5. ReaderInv'
  BY <1>1, <1>3 DEF LiveInv, ReaderInv
<1> QED BY <1>3, <1>4, <1>5, LiveTypes DEF LiveInv

(* The subscriptions of every entry read are rung before one of them is      *)
(* acknowledged.                                                             *)
LEMMA FanoutStep == LiveInv /\ Fanout => LiveInv'
<1> SUFFICES ASSUME LiveInv, Fanout PROVE LiveInv'
  OBVIOUS
<1> DEFINE topics == {changes[i].topic : i \in reader.batch}
<1>1. /\ Ring(topics) /\ UNCHANGED <<changes, session, viewVars>>
      /\ UNCHANGED <<truth, unannounced, handed, unacked, stray, broken>>
      /\ reader' = [at |-> "acking", recovers |-> reader.recovers, batch |-> reader.batch]
      /\ reader.at = "heard"
  BY DEF Fanout, ReaderGoes, storeVars, groupVars
<1>2. reader.batch \subseteq 1 .. handed
  BY LiveTypes DEF LiveInv, LoopTypes
<1>3. \A i \in reader.batch : changes[i].topic \in topics
  OBVIOUS
<1> HIDE DEF topics
<1>4. /\ PageTypes' /\ BellInv'
      /\ \A i \in 1 .. handed : Informed(i) => Informed(i)'
      /\ \A i \in reader.batch : Informed(i)'
  BY <1>1, <1>2, <1>3, RingTells
<1>5. GroupTypes' /\ LoopTypes' /\ TruthInv'
  BY <1>1, LiveTypes DEF LiveInv, GroupTypes, LoopTypes, TruthInv
<1>6. ReaderInv'
  BY <1>1, <1>4 DEF LiveInv, ReaderInv
<1> QED BY <1>4, <1>5, <1>6, LiveTypes DEF LiveInv

(* A read gives out the entries after the last one, which are then pending.  *)
LEMMA GivenOut ==
  ASSUME LiveInv, GiveOut
  PROVE  /\ handed' \in 0 .. Len(changes) /\ handed' \in Nat
         /\ Unread \subseteq 1 .. handed' /\ Unread # {}
         /\ unacked' \subseteq 1 .. handed'
         /\ 1 .. handed \subseteq 1 .. handed'
         /\ (1 .. handed') \ unacked' \subseteq (1 .. handed) \ unacked
<1>1. /\ handed \in Nat /\ Len(changes) \in Nat /\ handed <= Len(changes)
      /\ DOMAIN changes = 1 .. Len(changes) /\ unacked \subseteq 1 .. handed
      /\ ReadCount \in Nat
  BY LiveTypes, LiveConstants DEF LiveInv, GroupTypes
<1> DEFINE top == IF handed + ReadCount < Len(changes) THEN handed + ReadCount
                  ELSE Len(changes)
<1>2. Unread = (handed + 1) .. top /\ top \in Nat /\ top >= handed
  BY <1>1 DEF Unread
<1> HIDE DEF top
<1>3. Cardinality(Unread) = top - handed
  <2>1. Cardinality((handed + 1) .. top)
          = IF handed + 1 > top THEN 0 ELSE top - (handed + 1) + 1
    BY <1>1, <1>2, FS_Interval
  <2> QED BY <1>1, <1>2, <2>1
<1>4. handed' = top /\ unacked' = unacked \cup Unread /\ Unread # {}
  BY <1>1, <1>2, <1>3 DEF GiveOut
<1>5. top <= Len(changes)
  BY <1>1 DEF top
<1> QED BY <1>1, <1>2, <1>4, <1>5

(* Reading, listing, acknowledging and failing ring no bell, so what was told*)
(* stays told; what they acknowledge has been told, or a recovery will ring  *)
(* everything.                                                               *)
LEMMA ReadStep == LiveInv /\ ReadChanges => LiveInv'
<1> SUFFICES ASSUME LiveInv, ReadChanges PROVE LiveInv'
  OBVIOUS
<1>1. /\ GiveOut /\ UNCHANGED <<changes, session, bellVars, viewVars>>
      /\ UNCHANGED <<truth, unannounced, stray, broken>>
      /\ reader' = [at |-> "heard", recovers |-> reader.recovers, batch |-> Unread]
      /\ reader.at = "reading"
  BY DEF ReadChanges, ReaderGoes, storeVars
<1>2. /\ PageTypes' /\ BellInv' /\ \A i : Informed(i)' <=> Informed(i)
  BY <1>1, TellingStays, LiveTypes DEF LiveInv
<1>3. GroupTypes' /\ LoopTypes' /\ TruthInv'
  BY <1>1, GivenOut, LiveTypes DEF LiveInv, GroupTypes, LoopTypes, TruthInv
<1>4. ReaderInv'
  BY <1>1, <1>2, GivenOut DEF LiveInv, ReaderInv
<1> QED BY <1>2, <1>3, <1>4, LiveTypes DEF LiveInv

LEMMA StrayStep == LiveInv /\ StrayRead => LiveInv'
<1> SUFFICES ASSUME LiveInv, StrayRead PROVE LiveInv'
  OBVIOUS
<1>1. /\ UNCHANGED <<changes, session, bellVars, viewVars>>
      /\ UNCHANGED <<truth, unannounced, reader, broken>>
      /\ stray' = FALSE /\ (GiveOut \/ UNCHANGED <<handed, unacked>>)
  BY DEF StrayRead, storeVars
<1>2. /\ PageTypes' /\ BellInv' /\ \A i : Informed(i)' <=> Informed(i)
  BY <1>1, TellingStays, LiveTypes DEF LiveInv
<1>3. /\ handed' \in 0 .. Len(changes) /\ unacked' \subseteq 1 .. handed'
      /\ 1 .. handed \subseteq 1 .. handed'
      /\ (1 .. handed') \ unacked' \subseteq (1 .. handed) \ unacked
  BY <1>1, GivenOut, LiveTypes DEF LiveInv, GroupTypes
<1>4. GroupTypes' /\ LoopTypes' /\ TruthInv'
  BY <1>1, <1>3, LiveTypes DEF LiveInv, GroupTypes, LoopTypes, TruthInv
<1>5. ReaderInv'
  BY <1>1, <1>2, <1>3 DEF LiveInv, ReaderInv
<1> QED BY <1>2, <1>4, <1>5, LiveTypes DEF LiveInv

LEMMA ListStep == LiveInv /\ ListPending => LiveInv'
<1> SUFFICES ASSUME LiveInv, ListPending PROVE LiveInv'
  OBVIOUS
<1>1. /\ UNCHANGED <<changes, session, bellVars, viewVars>>
      /\ UNCHANGED <<truth, unannounced, handed, unacked, stray, broken>>
      /\ reader.at = "listing"
      /\ \/ /\ reader' = [at |-> "reading", recovers |-> FALSE, batch |-> {}]
         \/ \E ids \in SUBSET unacked :
              reader' = [at |-> "acking", recovers |-> reader.recovers, batch |-> ids]
  BY DEF ListPending, ReaderGoes, storeVars, groupVars
<1>2. /\ PageTypes' /\ BellInv' /\ \A i : Informed(i)' <=> Informed(i)
  BY <1>1, TellingStays, LiveTypes DEF LiveInv
<1>3. reader.recovers
  BY <1>1 DEF LiveInv, ReaderInv
<1>4. \/ reader'.at = "reading" /\ reader'.recovers = FALSE /\ reader'.batch = {}
      \/ reader'.at = "acking" /\ reader'.recovers /\ reader'.batch \subseteq unacked
  BY <1>1, <1>3
<1>5. GroupTypes' /\ TruthInv'
  BY <1>1, LiveTypes DEF LiveInv, GroupTypes, TruthInv
<1>6. LoopTypes'
  BY <1>1, <1>3, <1>4, LiveTypes DEF LiveInv, GroupTypes, LoopTypes
<1>7. ReaderInv'
  BY <1>1, <1>2, <1>4 DEF LiveInv, ReaderInv
<1> QED BY <1>2, <1>5, <1>6, <1>7, LiveTypes DEF LiveInv

LEMMA OldestIsThere ==
  ASSUME LiveInv, reader.batch # {} PROVE Oldest \in reader.batch
<1>1. reader.batch \in SUBSET Nat
  BY LiveTypes DEF LiveInv, LoopTypes
<1>2. \E i \in reader.batch : \A j \in reader.batch : i <= j
  BY <1>1, LeastNat
<1> QED BY <1>2 DEF Oldest

LEMMA AckStep == LiveInv /\ AckChange => LiveInv'
<1> SUFFICES ASSUME LiveInv, AckChange PROVE LiveInv'
  OBVIOUS
<1> DEFINE rest == reader.batch \ {Oldest}
           stage == IF reader.batch # {Oldest} THEN "acking"
                    ELSE IF reader.recovers THEN "recovering" ELSE "reading"
<1>1. /\ UNCHANGED <<changes, session, bellVars, viewVars>>
      /\ UNCHANGED <<truth, unannounced, handed, stray, broken>>
      /\ reader.at = "acking" /\ unacked' = unacked \ {Oldest}
      /\ reader' = [at |-> stage, recovers |-> reader.recovers, batch |-> rest]
  BY DEF AckChange, ReaderGoes, storeVars
<1>2. /\ PageTypes' /\ BellInv' /\ \A i : Informed(i)' <=> Informed(i)
  BY <1>1, TellingStays, LiveTypes DEF LiveInv
<1>3. GroupTypes' /\ LoopTypes' /\ TruthInv'
  BY <1>1, LiveTypes DEF LiveInv, GroupTypes, LoopTypes, TruthInv
<1>4. ASSUME ~reader.recovers
      PROVE  /\ \A i \in reader.batch : Informed(i)
             /\ Informed(Oldest) /\ (stage = "acking" => rest # {}) /\ stage # "recovering"
  BY <1>1, <1>4, OldestIsThere DEF LiveInv, ReaderInv
<1>5. stage \in {"acking", "recovering", "reading"}
      /\ (reader.recovers => stage # "reading")
  OBVIOUS
<1> HIDE DEF rest, stage
<1>6. rest \subseteq reader.batch
  BY DEF rest
<1>7. ReaderInv'
  <2>1. reader'.at = stage /\ reader'.recovers = reader.recovers /\ reader'.batch = rest
    BY <1>1
  <2>2. CASE reader.recovers
    <3>1. reader.recovers = TRUE
      BY <2>2, LiveTypes DEF LiveInv, LoopTypes
    <3> QED BY <1>5, <2>1, <2>2, <3>1 DEF ReaderInv
  <2>3. CASE ~reader.recovers
    <3>1. \A i \in (1 .. handed) \ unacked : Informed(i)
      BY <2>3 DEF LiveInv, ReaderInv
    <3>2. \A i \in (1 .. handed') \ unacked' : Informed(i)'
      BY <1>1, <1>2, <1>4, <2>3, <3>1
    <3>3. \A i \in rest : Informed(i)'
      BY <1>2, <1>4, <1>6, <2>3
    <3>4. stage \in {"acking", "reading"}
      BY <1>4, <1>5, <2>3
    <3> QED BY <1>4, <2>1, <2>3, <3>2, <3>3, <3>4 DEF ReaderInv
  <2> QED BY <2>2, <2>3
<1> QED BY <1>2, <1>3, <1>7, LiveTypes DEF LiveInv

LEMMA SleepStep == LiveInv /\ (ReaderFails \/ ReaderWakes) => LiveInv'
<1> SUFFICES ASSUME LiveInv, ReaderFails \/ ReaderWakes PROVE LiveInv'
  OBVIOUS
<1>1. /\ UNCHANGED <<changes, session, bellVars, viewVars>>
      /\ UNCHANGED <<truth, unannounced, handed>>
      /\ unacked' \subseteq unacked /\ stray' \in BOOLEAN /\ broken' \in Nat
      /\ reader'.at \in {"asleep", "recovering"} /\ reader'.recovers = TRUE
      /\ reader'.batch = {}
  <2>1. CASE ReaderFails
    <3>1. unacked' \subseteq unacked
      BY <2>1 DEF ReaderFails
    <3>2. stray' \in BOOLEAN /\ broken' \in Nat
      <4>1. broken' = broken + 1 /\ (stray' \in {stray, TRUE} \/ stray' = stray)
        BY <2>1 DEF ReaderFails
      <4>2. stray \in BOOLEAN /\ broken \in Nat
        BY LiveTypes DEF LiveInv, GroupTypes
      <4>3. stray' = TRUE \/ stray' = stray
        BY <4>1, Zenon
      <4>4. stray' \in BOOLEAN
        BY <4>2, <4>3, Zenon
      <4> QED BY <4>1, <4>2, <4>4
    <3> QED BY <2>1, <3>1, <3>2 DEF ReaderFails, storeVars
  <2>2. CASE ReaderWakes
    <3>1. reader.recovers = TRUE
      BY <2>2, LiveTypes DEF ReaderWakes, LiveInv, ReaderInv, LoopTypes
    <3> QED BY <2>2, <3>1, LiveTypes
            DEF ReaderWakes, ReaderGoes, storeVars, groupVars, LiveInv,
                GroupTypes
  <2> QED BY <2>1, <2>2
<1>2. PageTypes' /\ BellInv'
  BY <1>1, TellingStays, LiveTypes DEF LiveInv
<1>3. GroupTypes' /\ LoopTypes' /\ TruthInv'
  BY <1>1, LiveTypes DEF LiveInv, GroupTypes, LoopTypes, TruthInv
<1>4. ReaderInv'
  BY <1>1 DEF ReaderInv
<1> QED BY <1>2, <1>3, <1>4, LiveTypes DEF LiveInv

(* The page                                                                  *)

(* Steps of the page leave the stream and the reader alone: they keep the    *)
(* invariant if they forget nothing they were told.                          *)
LEMMA PageStep ==
  ASSUME LiveInv, UNCHANGED <<storeVars, groupVars, reader, broken>>,
         PageTypes', BellInv', \A i \in 1 .. handed : Informed(i) => Informed(i)'
  PROVE  LiveInv'
<1>1. UNCHANGED <<truth, unannounced, changes, handed, unacked, stray, reader, broken>>
  BY DEF storeVars, groupVars
<1>2. GroupTypes' /\ LoopTypes' /\ TruthInv'
  BY <1>1, LiveTypes DEF LiveInv, GroupTypes, LoopTypes, TruthInv
<1>3. ReaderInv'
  <2>1. reader.batch \subseteq 1 .. handed
    BY LiveTypes DEF LiveInv, LoopTypes
  <2> QED BY <1>1, <2>1 DEF LiveInv, ReaderInv
<1> QED BY <1>2, <1>3, LiveTypes DEF LiveInv

(* A page that opens queries everything after its subscription.              *)
LEMMA OpenStep == LiveInv /\ OpenPage => LiveInv'
<1> SUFFICES ASSUME LiveInv, OpenPage PROVE LiveInv'
  OBVIOUS
<1>1. /\ session.at = "none" /\ session' = [at |-> "opening", channels |-> session.channels,
                                            single |-> session.single]
      /\ todo' = session.channels
      /\ UNCHANGED <<changes, bell, changed, view, failing, misses>>
  BY DEF OpenPage, SessionGoes, storeVars, bellVars
<1>2. PageTypes'
  BY <1>1, LiveTypes DEF LiveInv, PageTypes
<1>3. BellInv'
  BY <1>1 DEF LiveInv, BellInv
<1>4. \A i : Informed(i)'
  BY <1>1 DEF Informed
<1> QED BY <1>2, <1>3, <1>4, PageStep DEF OpenPage

(* The bell is taken together with what it stands for.                       *)
LEMMA WakeStep == LiveInv /\ Wake => LiveInv'
<1> SUFFICES ASSUME LiveInv, Wake PROVE LiveInv'
  OBVIOUS
<1>1. /\ session.at = "waiting" /\ bell' = FALSE /\ changed' = {}
      /\ todo' = IF session.single THEN session.channels ELSE changed
      /\ UNCHANGED <<changes, view, failing, misses>>
      /\ \/ session' = session /\ todo' = {}
         \/ session' = [at |-> "querying", channels |-> session.channels,
                        single |-> session.single]
  BY DEF Wake, TakeChanged, SessionGoes, storeVars
<1>2. /\ session'.channels = session.channels /\ session'.single = session.single
      /\ session'.at \in {"waiting", "querying"} /\ (session'.at = "waiting" => todo' = {})
  BY <1>1
<1>3. PageTypes'
  BY <1>1, <1>2, LiveTypes DEF LiveInv, PageTypes
<1>4. BellInv'
  BY <1>1, <1>2 DEF BellInv
<1>5. \A i \in 1 .. handed : Informed(i) => Informed(i)'
  <2>1. todo = {} /\ (session.single => changed = {})
    BY <1>1 DEF LiveInv, BellInv
  <2> QED BY <1>1, <1>2, <2>1 DEF Informed, Shown, Subscribed
<1> QED BY <1>3, <1>4, <1>5, PageStep DEF Wake

(* An answered query shows what is committed, which is no less than what the *)
(* stream says; a failed one shows its error, or ends the page.              *)
LEMMA QueryStep ==
  ASSUME LiveInv, NEW c \in Channel, Query(c) PROVE LiveInv'
<1>1. /\ UNCHANGED <<changes, bell, changed>>
      /\ c \in todo /\ todo' = todo \ {c} /\ Subscribed
      /\ UNCHANGED <<storeVars, groupVars, reader, broken>>
  BY DEF Query, storeVars, bellVars, Subscribed
<1>2. \/ /\ view' = [view EXCEPT ![c] = [a \in Reads(c) |-> truth[a]]]
         /\ failing' = failing \ {c} /\ misses' = misses /\ TurnEnds
      \/ /\ view' = view /\ misses' = misses + 1 /\ session.single
         /\ failing' = failing /\ SessionGoes("closed")
      \/ /\ view' = view /\ misses' = misses + 1
         /\ failing' = failing \cup {c} /\ TurnEnds
  BY DEF Query
<1>3. /\ session'.channels = session.channels /\ session'.single = session.single
      /\ session'.at \in {"opening", "querying", "waiting", "closed"}
      /\ session'.at = "waiting" => todo' = {}
  <2>1. session.at \in {"opening", "querying"}
    BY DEF Query
  <2> QED BY <1>2, <2>1 DEF TurnEnds, SessionGoes
<1>4. todo \subseteq session.channels /\ session.channels \subseteq Channel
      /\ failing \subseteq session.channels /\ misses \in Nat
  BY LiveTypes DEF LiveInv, PageTypes
<1>5. PageTypes'
  <2>1. /\ DOMAIN view' = Channel /\ \A d \in Channel : view'[d] \in [Reads(d) -> Nat]
    <3>1. [a \in Reads(c) |-> truth[a]] \in [Reads(c) -> Nat]
      BY LiveTypes DEF LiveInv, GroupTypes, Reads
    <3> QED BY <1>2, <3>1, LiveTypes DEF LiveInv, PageTypes
  <2>2. failing' \subseteq session.channels /\ misses' \in Nat
    BY <1>1, <1>2, <1>4
  <2> QED BY <1>1, <1>3, <1>4, <2>1, <2>2, LiveTypes DEF LiveInv, PageTypes
<1>6. BellInv'
  BY <1>1, <1>3 DEF LiveInv, BellInv
<1>7. ASSUME NEW i \in 1 .. handed, Informed(i) PROVE Informed(i)'
  <2> SUFFICES ASSUME Subscribed', NEW d \in session.channels
               PROVE  \/ d \in failing' \/ d \in todo'
                      \/ bell' /\ session.single
                      \/ d \in changed' \/ Shown(i, d)'
    BY <1>3 DEF Informed
  <2>1. CASE d # c
    <3>1. view'[d] = view[d] /\ (d \in failing => d \in failing')
      BY <1>2, <1>4, <2>1, LiveTypes DEF LiveInv, PageTypes
    <3> QED BY <1>1, <1>7, <2>1, <3>1 DEF Informed, Shown
  <2>2. CASE d = c /\ view' # view
    <3>1. view'[c] = [a \in Reads(c) |-> truth[a]]
      BY <1>2, <2>2, LiveTypes DEF LiveInv, PageTypes
    <3>2. i \in DOMAIN changes /\ changes[i].topic \in Area /\ changes[i].version \in Nat
      BY EntryTypes
    <3>3. changes[i].version <= truth[changes[i].topic] /\ truth[changes[i].topic] \in Nat
      BY <3>2, LiveTypes DEF LiveInv, GroupTypes, TruthInv
    <3>4. Shown(i, d)'
      BY <1>1, <2>2, <3>1, <3>3 DEF Shown
    <3> QED BY <3>4
  <2>3. CASE d = c /\ c \in failing'
    BY <2>3
  <2>4. CASE d = c /\ view' = view /\ ~(c \in failing')
    <3>1. CASE session'.at = "closed"
      BY <3>1 DEF Subscribed
    <3>2. view' = [view EXCEPT ![c] = [a \in Reads(c) |-> truth[a]]]
          \/ session'.at = "closed"
      BY <1>2, <2>4 DEF SessionGoes
    <3>3. CASE view' = [view EXCEPT ![c] = [a \in Reads(c) |-> truth[a]]]
      <4>1. view'[c] = [a \in Reads(c) |-> truth[a]]
        BY <3>3, LiveTypes DEF LiveInv, PageTypes
      <4>2. i \in DOMAIN changes /\ changes[i].topic \in Area /\ changes[i].version \in Nat
        BY EntryTypes
      <4>3. changes[i].version <= truth[changes[i].topic] /\ truth[changes[i].topic] \in Nat
        BY <4>2, LiveTypes DEF LiveInv, GroupTypes, TruthInv
      <4>4. Shown(i, d)'
        BY <1>1, <2>4, <4>1, <4>3 DEF Shown
      <4> QED BY <4>4
    <3> QED BY <3>1, <3>2, <3>3
  <2> QED BY <2>1, <2>2, <2>3, <2>4
<1> QED BY <1>1, <1>5, <1>6, <1>7, PageStep

(* A page that is gone need not be told of anything.                         *)
LEMMA CloseStep == LiveInv /\ ClosePage => LiveInv'
<1> SUFFICES ASSUME LiveInv, ClosePage PROVE LiveInv'
  OBVIOUS
<1>1. /\ session' = [at |-> "closed", channels |-> session.channels,
                     single |-> session.single]
      /\ UNCHANGED <<changes, bell, changed, todo, view, failing, misses>>
  BY DEF ClosePage, SessionGoes, storeVars, bellVars, viewVars
<1>2. PageTypes' /\ BellInv'
  BY <1>1, LiveTypes DEF LiveInv, PageTypes, BellInv
<1>3. \A i : Informed(i)'
  BY <1>1 DEF Informed, Subscribed
<1> QED BY <1>2, <1>3, PageStep DEF ClosePage

LEMMA LiveStep == LiveInv /\ [NextLive]_liveVars => LiveInv'
<1> SUFFICES ASSUME LiveInv, [NextLive]_liveVars PROVE LiveInv'
  OBVIOUS
<1>1. CASE UNCHANGED liveVars
  <2>1. UNCHANGED <<storeVars, groupVars, reader, session, bellVars, viewVars, broken>>
    BY <1>1 DEF liveVars
  <2>2. PageTypes' /\ BellInv' /\ \A i : Informed(i)' <=> Informed(i)
    BY <2>1, TellingStays, LiveTypes DEF LiveInv, storeVars
  <2> QED BY <2>1, <2>2, PageStep
<1>2. ASSUME NEW a \in Area, Edit(a) \/ Announce(a) PROVE LiveInv'
  BY <1>2, EditStep, AnnounceStep
<1>3. CASE ReaderStep \/ ReaderFails \/ StrayRead
  BY <1>3, RebuildStep, ListStep, ReadStep, FanoutStep, AckStep, SleepStep,
     StrayStep
     DEF ReaderStep
<1>4. CASE OpenPage \/ SessionStep \/ ClosePage
  BY <1>4, OpenStep, WakeStep, QueryStep, CloseStep DEF SessionStep
<1> QED BY <1>1, <1>2, <1>3, <1>4 DEF NextLive

(* A request that waits for its bell shows every change whose entry has been *)
(* acknowledged for its worker, and no changed channel waits unrung, however *)
(* changes, queries, failures and recoveries interleave; for any topics,     *)
(* channels, changes, size of a read and failures.                           *)
THEOREM PagesAreTold == SpecLive => []LiveSafety
<1>1. LiveInv => LiveSafety
  <2> SUFFICES ASSUME LiveInv, session.at = "waiting", ~bell
               PROVE  /\ changed = {}
                      /\ ~reader.recovers => \A i \in 1 .. handed : i \in unacked \/ Shows(i)
    BY DEF LiveSafety, AcknowledgedIsShown, LiveInv
  <2>1. changed = {} /\ todo = {}
    BY DEF LiveInv, BellInv
  <2>2. \A i : Informed(i) => Shows(i)
    BY <2>1 DEF Informed, Shown, Shows, Subscribed
  <2> QED BY <2>1, <2>2 DEF LiveInv, ReaderInv
<1>2. SpecLive => []LiveInv
  BY LiveInit, LiveStep, PTL DEF SpecLive
<1> QED BY <1>1, <1>2, PTL

----------------------------------------------------------------------------
(* The records of an alert rule and their events                            *)

Busy == {"apply", "commit"}

(* The report a report is compared with was observed before it.              *)
InputInv ==
  /\ input.prev < input.last \/ (input.last = 0 /\ input.prev = 0)
  /\ ComparedWithEarlier

(* Two workers have the same report only if one of them was too slow.        *)
HoldInv ==
  \A w, v \in AlertWorker :
    (/\ w # v /\ ~Doing(w, "idle") /\ ~Doing(v, "idle")
     /\ job[w].msg = job[v].msg /\ job[w].msg # Deadline)
      => job[w].msg \in doubled

(* A report that was evaluated has its receipt, and is evaluated again only  *)
(* by someone who did not see it in time.                                    *)
ReceiptInv ==
  /\ EvaluatedOnce
  /\ \A m \in Message : m \notin receipts => evaluations[m] = 0
  /\ \A w \in AlertWorker :
       job[w].stage \in Busy /\ job[w].msg # Deadline /\ job[w].msg \in receipts
         => job[w].msg \in doubled

(* One open record at most; after the removal of the rule only evaluations   *)
(* that were under way open one.                                             *)
OpenInv ==
  /\ AtMostOneOpen
  /\ \A w \in AlertWorker : job[w].stage \in Busy => rule \/ orphaned

(* Where an event of a resolution is, the event of the opening is too, or it *)
(* has been published.                                                       *)
Led(es) ==
  \A e \in es : e.type = "resolved" =>
    Triggered(e.record) \in es \/ Triggered(e.record) \in published
JobLed(w) ==
  /\ Doing(w, "commit") =>
       /\ Led(job[w].queued)
       /\ \A r \in DOMAIN job[w].seen :
            Triggered(r) \in job[w].queued \/ Triggered(r) \in published
  /\ Doing(w, "publish") =>
       Led(job[w].left) /\ job[w].events \ job[w].left \subseteq published
  /\ Doing(w, "delete") => job[w].events \subseteq published
EventInv ==
  /\ EventsFollowRecords
  /\ \A e \in outbox : e.record \in DOMAIN records
  /\ \A w \in AlertWorker : JobLed(w)

AlertInv ==
  AlertsTypeOK /\ InputInv /\ HoldInv /\ ReceiptInv /\ OpenInv /\ EventInv

(* What a job knows in each of its stages.                                   *)
LEMMA JobFields ==
  ASSUME NEW j \in Job
  PROVE  /\ j.stage \in {"idle", "prepare", "evaluate", "apply", "commit", "publish",
                         "delete", "drain"}
         /\ j.stage = "prepare" => j.msg \in Message /\ j.active \in BOOLEAN
         /\ j.stage = "evaluate" =>
              j.msg \in Message /\ j.active \in BOOLEAN /\ j.prev \in Message \cup {0}
         /\ j.stage \in Busy => j.msg \in Message \cup {Deadline} /\ j.matched \in BOOLEAN
         /\ j.stage = "commit" =>
              j.seen \in Seq(Record) /\ j.queued \subseteq Event /\ j.at \in Clock
         /\ j.stage = "publish" =>
              /\ j.msg \in Message \cup {Deadline}
              /\ j.events \subseteq Event /\ j.left \subseteq Event
         /\ j.stage = "delete" => j.msg \in Message \cup {Deadline} /\ j.events \subseteq Event
         /\ j.stage = "drain" => j.msg \in Message
BY DEF Job, Busy

LEMMA JobRecords ==
  ASSUME NEW m \in Message \cup {Deadline}, NEW p \in Message \cup {0},
         NEW matched \in BOOLEAN, NEW active \in BOOLEAN, NEW es \in SUBSET Event, NEW left \in SUBSET Event
  PROVE  /\ Resting \in Job /\ Resting.stage = "idle"
         /\ m # Deadline => Taking(m, active) \in Job /\ Comparing(m, active, p) \in Job
         /\ Evaluated(m, matched) \in Job
         /\ Publishing(m, es, left) \in Job
         /\ Deleting(m, es) \in Job
         /\ m # Deadline => Draining(m) \in Job
         /\ Afterwards(m) \in Job
<1>1. m # Deadline => m \in Message
  OBVIOUS
<1> QED BY <1>1 DEF Job, Resting, Taking, Comparing, Evaluated, Publishing, Deleting,
           Draining, Afterwards

LEMMA EventFields ==
  /\ \A r : /\ Triggered(r).type = "triggered" /\ Triggered(r).record = r
            /\ Resolved(r).type = "resolved" /\ Resolved(r).record = r
            /\ r \in Nat => Triggered(r) \in Event /\ Resolved(r) \in Event
  /\ \A e \in Event : e.record \in Nat /\ e.type \in {"triggered", "resolved"}
BY DEF Triggered, Resolved, Event

LEMMA Moved ==
  ASSUME NEW w \in AlertWorker, NEW next, job \in [AlertWorker -> Job], Goes(w, next)
  PROVE  /\ job'[w] = next /\ \A v \in AlertWorker \ {w} : job'[v] = job[v]
         /\ next \in Job => job' \in [AlertWorker -> Job]
BY DEF Goes

(* A worker that goes on with its message, or rests, takes nobody's report.  *)
LEMMA HoldersStay ==
  ASSUME HoldInv, NEW w \in AlertWorker, doubled \subseteq doubled',
         \A v \in AlertWorker \ {w} : job'[v] = job[v],
         job'[w].stage = "idle" \/ (job[w].stage # "idle" /\ job'[w].msg = job[w].msg)
  PROVE  HoldInv'
BY DEF HoldInv, Doing

(* What others have begun stays led while events are published.              *)
LEMMA OthersLed ==
  ASSUME EventInv, NEW w \in AlertWorker, published \subseteq published',
         \A v \in AlertWorker \ {w} : job'[v] = job[v]
  PROVE  \A v \in AlertWorker \ {w} : JobLed(v)'
BY DEF EventInv, JobLed, Doing, Led

(* What is in the outbox is led, whenever a worker looks at it.              *)
LEMMA OutboxLed ==
  ASSUME EventInv
  PROVE  /\ Led(outbox)
         /\ \A r \in DOMAIN records : Triggered(r) \in outbox \/ Triggered(r) \in published
BY DEF EventInv, EventsFollowRecords, Told, Led

LEMMA AlertInit == InitAlerts => AlertInv
<1> SUFFICES ASSUME InitAlerts PROVE AlertInv
  OBVIOUS
<1>1. records = <<>> /\ DOMAIN records = {} /\ records \in Seq(Record)
  BY DEF InitAlerts
<1>2. \A w \in AlertWorker : job[w] = Resting /\ job[w].stage = "idle"
  BY DEF InitAlerts, Resting
<1>3. AlertsTypeOK
  <2>1. job \in [AlertWorker -> Job]
    BY DEF InitAlerts, Job, Resting
  <2>2. evaluations \in [Message -> Nat]
    BY DEF InitAlerts
  <2>3. clock \in Clock /\ offlines \in 0 .. MaxOffline /\ afaults \in 0 .. MaxAlertFaults
    BY AlertConstants DEF InitAlerts, Clock
  <2>4. input \in [last : Message \cup {0}, prev : Message \cup {0}]
    BY DEF InitAlerts
  <2>5. rule \in BOOLEAN /\ stranded \in BOOLEAN /\ orphaned \in BOOLEAN
    BY DEF InitAlerts
  <2> QED BY <1>1, <2>1, <2>2, <2>3, <2>4, <2>5 DEF InitAlerts, AlertsTypeOK
<1>4. InputInv
  BY <1>2 DEF InitAlerts, InputInv, ComparedWithEarlier, Doing
<1>5. HoldInv
  BY <1>2 DEF HoldInv, Doing
<1>6. ReceiptInv
  BY <1>2 DEF InitAlerts, ReceiptInv, EvaluatedOnce, Busy
<1>7. OpenInv
  BY <1>1, <1>2 DEF OpenInv, AtMostOneOpen, IsOpen, Busy
<1>8. EventInv
  BY <1>1, <1>2 DEF InitAlerts, EventInv, EventsFollowRecords, JobLed, Doing
<1> QED BY <1>3, <1>4, <1>5, <1>6, <1>7, <1>8 DEF AlertInv

LEMMA TickClockStep == AlertInv /\ TickClock => AlertInv'
<1> SUFFICES ASSUME AlertInv, TickClock PROVE AlertInv'
  OBVIOUS
<1>1. UNCHANGED <<rule, listed, input, calmSince, records, outbox, published, receipts, unread, job,
        evaluations, doubled, offlines, stranded, orphaned, afaults>>
  BY DEF TickClock
<1>2. clock' \in Clock
  BY AlertConstants DEF AlertInv, AlertsTypeOK, TickClock, Clock
<1>3. AlertsTypeOK'
  BY <1>1, <1>2 DEF AlertInv, AlertsTypeOK
<1>4. InputInv' /\ HoldInv' /\ ReceiptInv'
  BY <1>1 DEF AlertInv, InputInv, ComparedWithEarlier, HoldInv, ReceiptInv,
     EvaluatedOnce,
              Doing
<1>5. OpenInv'
  BY <1>1 DEF AlertInv, OpenInv, AtMostOneOpen, IsOpen
<1>6. EventInv'
  BY <1>1 DEF AlertInv, EventInv, EventsFollowRecords, Told, JobLed, Led, Doing
<1> QED BY <1>3, <1>4, <1>5, <1>6 DEF AlertInv

(* A worker takes a report that another has only if that one was too slow.   *)
LEMMA TakeStep ==
  ASSUME AlertInv, NEW w \in AlertWorker, NEW m \in Message, Take(w, m)
  PROVE  AlertInv'
<1> DEFINE others == {v \in AlertWorker : ~Doing(v, "idle") /\ job[v].msg = m}
<1>1. /\ UNCHANGED <<clock, rule, listed, input, calmSince, records, outbox, published,
           receipts, unread, evaluations, offlines, stranded, orphaned>>
      /\ job[w].stage = "idle" /\ Goes(w, Taking(m, listed))
  BY DEF Take, Doing
<1>2. /\ doubled \subseteq doubled' /\ doubled' \subseteq doubled \cup {m}
      /\ others # {} => m \in doubled'
      /\ afaults' \in 0 .. MaxAlertFaults
  BY AlertConstants DEF Take, AlertInv, AlertsTypeOK
<1>3. m # Deadline
  BY AlertConstants DEF Message, Deadline
<1>4. Taking(m, listed) \in Job
  BY DEF Taking, Job, AlertInv, AlertsTypeOK
<1>5. /\ job'[w] = Taking(m, listed) /\ \A v \in AlertWorker \ {w} : job'[v] = job[v]
      /\ job' \in [AlertWorker -> Job]
  BY <1>1, <1>4, Moved DEF AlertInv, AlertsTypeOK
<1>6. job'[w].stage = "prepare" /\ job'[w].msg = m
  BY <1>5 DEF Taking
<1>7. AlertsTypeOK'
  BY <1>1, <1>2, <1>5 DEF AlertInv, AlertsTypeOK
<1>8. InputInv'
  BY <1>1, <1>5, <1>6 DEF AlertInv, InputInv, ComparedWithEarlier, Doing
<1>9. HoldInv'
  <2>1. \A v \in AlertWorker \ {w} : ~Doing(v, "idle") /\ job[v].msg = m => m \in doubled'
    BY <1>2
  <2> QED BY <1>2, <1>5, <1>6, <2>1 DEF AlertInv, HoldInv, Doing
<1>10. ReceiptInv'
  BY <1>1, <1>2, <1>5, <1>6 DEF AlertInv, ReceiptInv, EvaluatedOnce, Busy
<1>11. OpenInv'
  BY <1>1, <1>5, <1>6 DEF AlertInv, OpenInv, AtMostOneOpen, IsOpen, Busy
<1>12. EventInv'
  <2>1. JobLed(w)'
    BY <1>6 DEF JobLed, Doing
  <2>2. \A v \in AlertWorker \ {w} : JobLed(v)'
    BY <1>1, <1>5, OthersLed DEF AlertInv
  <2> QED BY <1>1, <2>1, <2>2 DEF AlertInv, EventInv, EventsFollowRecords, Told
<1> QED BY <1>7, <1>8, <1>9, <1>10, <1>11, <1>12 DEF AlertInv

(* The report is compared with one before it.                                *)
LEMMA PrepareStepA ==
  ASSUME AlertInv, NEW w \in AlertWorker, Prepare(w) PROVE AlertInv'
<1> DEFINE m == job[w].msg
           p == IF input'.last = m THEN input'.prev ELSE 0
           next == Comparing(m, job[w].active, p)
<1>1. /\ UNCHANGED <<clock, rule, listed, calmSince, records, outbox, published, receipts,
           unread, evaluations, doubled, offlines, stranded, orphaned, afaults>>
      /\ job[w].stage = "prepare" /\ Goes(w, next)
      /\ input' = IF NewestInput(m) THEN [last |-> m, prev |-> input.last] ELSE input
  BY DEF Prepare, Doing
<1>2. m \in Message /\ job[w].active \in BOOLEAN
  BY <1>1, JobFields DEF AlertInv, AlertsTypeOK
<1>3. m \in Nat /\ m > 0 /\ Message \subseteq Nat /\ m # Deadline
  BY <1>2, AlertConstants DEF Message, Deadline
<1>4. /\ input' \in [last : Message \cup {0}, prev : Message \cup {0}]
      /\ input'.prev < input'.last \/ (input'.last = 0 /\ input'.prev = 0)
      /\ p \in Message \cup {0} /\ p < m
  <2>1. /\ input.last \in Message \cup {0} /\ input.prev \in Message \cup {0}
        /\ input \in [last : Message \cup {0}, prev : Message \cup {0}]
        /\ input.prev < input.last \/ (input.last = 0 /\ input.prev = 0)
    BY DEF AlertInv, AlertsTypeOK, InputInv
  <2>2. CASE m > input.last
    <3>1. input' = [last |-> m, prev |-> input.last]
      BY <1>1, <2>2 DEF NewestInput
    <3> QED BY <1>2, <1>3, <2>1, <2>2, <3>1
  <2>3. CASE ~(m > input.last)
    <3>1. input' = input
      BY <1>1, <2>3 DEF NewestInput
    <3> QED BY <1>2, <1>3, <2>1, <3>1
  <2> QED BY <2>2, <2>3
<1> HIDE DEF p
<1>5. next \in Job /\ next.stage = "evaluate" /\ next.msg = m /\ next.prev = p
  BY <1>2, <1>4 DEF Comparing, Job
<1> HIDE DEF next
<1>6. /\ job'[w] = next /\ \A v \in AlertWorker \ {w} : job'[v] = job[v]
      /\ job' \in [AlertWorker -> Job]
  BY <1>1, <1>5, Moved DEF AlertInv, AlertsTypeOK
<1>7. AlertsTypeOK'
  BY <1>1, <1>4, <1>6 DEF AlertInv, AlertsTypeOK
<1>8. InputInv'
  BY <1>4, <1>5, <1>6 DEF AlertInv, InputInv, ComparedWithEarlier, Doing
<1>9. HoldInv'
  BY <1>1, <1>5, <1>6, HoldersStay DEF AlertInv
<1>10. ReceiptInv'
  BY <1>1, <1>5, <1>6 DEF AlertInv, ReceiptInv, EvaluatedOnce, Busy
<1>11. OpenInv'
  BY <1>1, <1>5, <1>6 DEF AlertInv, OpenInv, AtMostOneOpen, IsOpen, Busy
<1>12. EventInv'
  <2>1. JobLed(w)'
    BY <1>5, <1>6 DEF JobLed, Doing
  <2>2. \A v \in AlertWorker \ {w} : JobLed(v)'
    BY <1>1, <1>6, OthersLed DEF AlertInv
  <2> QED BY <1>1, <2>1, <2>2 DEF AlertInv, EventInv, EventsFollowRecords, Told
<1> QED BY <1>7, <1>8, <1>9, <1>10, <1>11, <1>12 DEF AlertInv

(* A report is evaluated only if it has no receipt and its rule is live.     *)
LEMMA EvaluateStepA ==
  ASSUME AlertInv, NEW w \in AlertWorker, Evaluate(w) PROVE AlertInv'
<1> DEFINE m == job[w].msg
           next == IF rule /\ Unevaluated(m) THEN Evaluated(m, m \in High) ELSE Draining(m)
<1>1. /\ UNCHANGED <<clock, rule, listed, input, calmSince, records, outbox, published, receipts,
           unread, evaluations, doubled, offlines, stranded, orphaned, afaults>>
      /\ job[w].stage = "evaluate" /\ Goes(w, next)
  BY DEF Evaluate, Doing
<1>2. m \in Message /\ m # Deadline
  BY <1>1, JobFields, AlertConstants DEF AlertInv, AlertsTypeOK, Message,
     Deadline
<1>3. next \in Job /\ next.msg = m /\ next.stage \in {"apply", "drain"}
      /\ (next.stage = "apply" => rule /\ m \notin receipts)
  <2>1. CASE rule /\ Unevaluated(m)
    <3>1. (m \in High) \in BOOLEAN
      OBVIOUS
    <3>2. Evaluated(m, m \in High) \in Job
      BY <1>2, <3>1, JobRecords
    <3> QED BY <2>1, <3>2 DEF Evaluated, Unevaluated
  <2>2. CASE ~(rule /\ Unevaluated(m))
    <3>1. Draining(m) \in Job
      BY <1>2, JobRecords
    <3> QED BY <2>2, <3>1 DEF Draining
  <2> QED BY <2>1, <2>2
<1> HIDE DEF next
<1>4. /\ job'[w] = next /\ \A v \in AlertWorker \ {w} : job'[v] = job[v]
      /\ job' \in [AlertWorker -> Job]
  BY <1>1, <1>3, Moved DEF AlertInv, AlertsTypeOK
<1>5. AlertsTypeOK'
  BY <1>1, <1>4 DEF AlertInv, AlertsTypeOK
<1>6. InputInv'
  BY <1>1, <1>3, <1>4 DEF AlertInv, InputInv, ComparedWithEarlier, Doing
<1>7. HoldInv'
  BY <1>1, <1>3, <1>4, HoldersStay DEF AlertInv
<1>8. ReceiptInv'
  BY <1>1, <1>3, <1>4 DEF AlertInv, ReceiptInv, EvaluatedOnce, Busy
<1>9. OpenInv'
  BY <1>1, <1>3, <1>4 DEF AlertInv, OpenInv, AtMostOneOpen, IsOpen, Busy
<1>10. EventInv'
  <2>1. JobLed(w)'
    BY <1>3, <1>4 DEF JobLed, Doing
  <2>2. \A v \in AlertWorker \ {w} : JobLed(v)'
    BY <1>1, <1>4, OthersLed DEF AlertInv
  <2> QED BY <1>1, <2>1, <2>2 DEF AlertInv, EventInv, EventsFollowRecords, Told
<1> QED BY <1>5, <1>6, <1>7, <1>8, <1>9, <1>10 DEF AlertInv

(* A device without rules leaves records and events alone.                   *)
LEMMA SkipStep ==
  ASSUME AlertInv, NEW w \in AlertWorker, Skip(w) PROVE AlertInv'
<1>1. /\ UNCHANGED <<clock, rule, listed, input, calmSince, records, outbox, published,
           receipts, evaluations, doubled, offlines, orphaned, afaults>>
      /\ job[w].stage = "evaluate"
      /\ unread' \subseteq unread /\ stranded' \in BOOLEAN
      /\ Goes(w, Draining(job[w].msg)) \/ Goes(w, Resting)
  BY DEF Skip, Doing, AlertInv, AlertsTypeOK
<1>2. job[w].msg \in Message
  BY <1>1, JobFields DEF AlertInv, AlertsTypeOK
<1>3. PICK next \in Job : /\ Goes(w, next)
                          /\ \/ next.stage = "idle"
                             \/ next.stage = "drain" /\ next.msg = job[w].msg
  <2>1. Draining(job[w].msg) \in Job /\ Resting \in Job
    BY <1>2 DEF Draining, Resting, Job
  <2>2. /\ Draining(job[w].msg).stage = "drain" /\ Draining(job[w].msg).msg = job[w].msg
        /\ Resting.stage = "idle"
    BY DEF Draining, Resting
  <2> QED BY <1>1, <2>1, <2>2
<1>4. /\ job'[w] = next /\ \A v \in AlertWorker \ {w} : job'[v] = job[v]
      /\ job' \in [AlertWorker -> Job]
  BY <1>3, Moved DEF AlertInv, AlertsTypeOK
<1>5. AlertsTypeOK'
  BY <1>1, <1>4 DEF AlertInv, AlertsTypeOK
<1>6. InputInv'
  BY <1>1, <1>3, <1>4 DEF AlertInv, InputInv, ComparedWithEarlier, Doing
<1>7. HoldInv'
  BY <1>1, <1>3, <1>4, HoldersStay DEF AlertInv
<1>8. ReceiptInv'
  BY <1>1, <1>3, <1>4 DEF AlertInv, ReceiptInv, EvaluatedOnce, Busy
<1>9. OpenInv'
  BY <1>1, <1>3, <1>4 DEF AlertInv, OpenInv, AtMostOneOpen, IsOpen, Busy
<1>10. EventInv'
  <2>1. JobLed(w)'
    BY <1>3, <1>4 DEF JobLed, Doing
  <2>2. \A v \in AlertWorker \ {w} : JobLed(v)'
    BY <1>1, <1>4, OthersLed DEF AlertInv
  <2> QED BY <1>1, <2>1, <2>2 DEF AlertInv, EventInv, EventsFollowRecords, Told
<1> QED BY <1>5, <1>6, <1>7, <1>8, <1>9, <1>10 DEF AlertInv

LEMMA EvaluateOfflineStep ==
  ASSUME AlertInv, NEW w \in AlertWorker, EvaluateOffline(w) PROVE AlertInv'
<1>1. PICK matched \in BOOLEAN : Goes(w, Evaluated(Deadline, matched))
  BY DEF EvaluateOffline
<1>2. /\ UNCHANGED <<clock, rule, listed, input, calmSince, records, outbox, published, receipts,
           unread, evaluations, doubled, stranded, orphaned, afaults>>
      /\ rule /\ offlines' \in 0 .. MaxOffline
  BY AlertConstants DEF EvaluateOffline, AlertInv, AlertsTypeOK
<1> DEFINE next == Evaluated(Deadline, matched)
<1>3. next \in Job /\ next.msg = Deadline /\ next.stage = "apply"
  BY JobRecords DEF Evaluated
<1> HIDE DEF next
<1>4. /\ job'[w] = next /\ \A v \in AlertWorker \ {w} : job'[v] = job[v]
      /\ job' \in [AlertWorker -> Job]
  BY <1>1, <1>3, Moved DEF AlertInv, AlertsTypeOK, next
<1>5. AlertsTypeOK'
  BY <1>2, <1>4 DEF AlertInv, AlertsTypeOK
<1>6. InputInv'
  BY <1>2, <1>3, <1>4 DEF AlertInv, InputInv, ComparedWithEarlier, Doing
<1>7. HoldInv'
  BY <1>2, <1>3, <1>4 DEF AlertInv, HoldInv, Doing
<1>8. ReceiptInv'
  BY <1>2, <1>3, <1>4 DEF AlertInv, ReceiptInv, EvaluatedOnce, Busy
<1>9. OpenInv'
  BY <1>2, <1>3, <1>4 DEF AlertInv, OpenInv, AtMostOneOpen, IsOpen, Busy
<1>10. EventInv'
  <2>1. JobLed(w)'
    BY <1>3, <1>4 DEF JobLed, Doing
  <2>2. \A v \in AlertWorker \ {w} : JobLed(v)'
    BY <1>2, <1>4, OthersLed DEF AlertInv
  <2> QED BY <1>2, <2>1, <2>2 DEF AlertInv, EventInv, EventsFollowRecords, Told
<1> QED BY <1>5, <1>6, <1>7, <1>8, <1>9, <1>10 DEF AlertInv

(* The events a statement finds when it begins are led.                      *)
LEMMA BeginCommitStep ==
  ASSUME AlertInv, NEW w \in AlertWorker, BeginCommit(w) PROVE AlertInv'
<1> DEFINE next == [stage |-> "commit", msg |-> job[w].msg, matched |-> job[w].matched,
                    seen |-> records, queued |-> outbox, at |-> clock]
<1>1. /\ UNCHANGED <<clock, rule, listed, input, calmSince, records, outbox, published, receipts,
           unread, evaluations, doubled, offlines, stranded, orphaned, afaults>>
      /\ job[w].stage = "apply" /\ Goes(w, next)
  BY DEF BeginCommit, Doing
<1>2. job[w].msg \in Message \cup {Deadline} /\ job[w].matched \in BOOLEAN
  BY <1>1, JobFields DEF AlertInv, AlertsTypeOK, Busy
<1>3. /\ next \in Job /\ next.msg = job[w].msg /\ next.stage = "commit"
      /\ next.seen = records /\ next.queued = outbox
  BY <1>2 DEF AlertInv, AlertsTypeOK, Job
<1> HIDE DEF next
<1>4. /\ job'[w] = next /\ \A v \in AlertWorker \ {w} : job'[v] = job[v]
      /\ job' \in [AlertWorker -> Job]
  BY <1>1, <1>3, Moved DEF AlertInv, AlertsTypeOK
<1>5. AlertsTypeOK'
  BY <1>1, <1>4 DEF AlertInv, AlertsTypeOK
<1>6. InputInv'
  BY <1>1, <1>3, <1>4 DEF AlertInv, InputInv, ComparedWithEarlier, Doing
<1>7. HoldInv'
  BY <1>1, <1>3, <1>4, HoldersStay DEF AlertInv
<1>8. ReceiptInv'
  BY <1>1, <1>3, <1>4 DEF AlertInv, ReceiptInv, EvaluatedOnce, Busy
<1>9. OpenInv'
  BY <1>1, <1>3, <1>4 DEF AlertInv, OpenInv, AtMostOneOpen, IsOpen, Busy
<1>10. EventInv'
  <2>1. JobLed(w)'
    BY <1>1, <1>3, <1>4, OutboxLed DEF AlertInv, JobLed, Doing, Led
  <2>2. \A v \in AlertWorker \ {w} : JobLed(v)'
    BY <1>1, <1>4, OthersLed DEF AlertInv
  <2> QED BY <1>1, <2>1, <2>2 DEF AlertInv, EventInv, EventsFollowRecords, Told
<1> QED BY <1>5, <1>6, <1>7, <1>8, <1>9, <1>10 DEF AlertInv

(* What a statement does to the records: it opens one if none is open, or    *)
(* resolves open ones it has seen.                                           *)
LEMMA ChangedRecords ==
  ASSUME AlertInv, NEW w \in AlertWorker, Doing(w, "commit")
  PROVE  /\ Changed(w) \in Seq(Record)
         /\ DOMAIN records \subseteq DOMAIN Changed(w)
         /\ DOMAIN records = 1 .. Len(records) /\ Len(records) \in Nat
         /\ Creates(w) =>
              /\ DOMAIN Changed(w) = DOMAIN records \cup {Len(records) + 1}
              /\ \A r \in DOMAIN records : Changed(w)[r] = records[r]
              /\ Changed(w)[Len(records) + 1].status = "active"
         /\ ~Creates(w) =>
              /\ DOMAIN Changed(w) = DOMAIN records
              /\ \A r \in DOMAIN records :
                   Changed(w)[r].status =
                     IF Resolves(w, r) THEN "resolved" ELSE records[r].status
<1>1. records \in Seq(Record) /\ job[w].at \in Clock
  BY JobFields DEF AlertInv, AlertsTypeOK, Doing
<1>2. DOMAIN records = 1 .. Len(records) /\ Len(records) \in Nat
  BY <1>1
<1>3. \A r \in DOMAIN records : records[r] \in Record
  BY <1>1, <1>2, ElementsOf
<1>4. CASE Creates(w)
  <2> DEFINE new == [status |-> "active", at |-> job[w].at]
  <2>1. new \in Record /\ new.status = "active"
    BY <1>1 DEF Record, Open
  <2>2. Changed(w) = Append(records, new)
    BY <1>4 DEF Changed
  <2> HIDE DEF new
  <2>3. /\ Append(records, new) \in Seq(Record)
        /\ Len(Append(records, new)) = Len(records) + 1
        /\ DOMAIN Append(records, new) = 1 .. (Len(records) + 1)
        /\ \A r \in 1 .. Len(records) : Append(records, new)[r] = records[r]
        /\ Append(records, new)[Len(records) + 1] = new
    BY <1>1, <2>1
  <2> QED BY <1>2, <1>4, <2>1, <2>2, <2>3
<1>5. CASE ~Creates(w)
  <2> DEFINE f == [r \in DOMAIN records |->
                     IF Resolves(w, r) THEN WithStatus(records[r], "resolved")
                     ELSE records[r]]
  <2>1. Changed(w) = f
    BY <1>5 DEF Changed
  <2>2. \A r \in DOMAIN records : /\ WithStatus(records[r], "resolved") \in Record
                                  /\ WithStatus(records[r], "resolved").status = "resolved"
    BY <1>3 DEF Record, WithStatus
  <2>3. f \in [1 .. Len(records) -> Record]
    BY <1>2, <1>3, <2>2
  <2>4. /\ DOMAIN f = DOMAIN records
        /\ \A r \in DOMAIN records :
             f[r].status = IF Resolves(w, r) THEN "resolved" ELSE records[r].status
    BY <2>2
  <2> HIDE DEF f
  <2>5. f \in Seq(Record)
    BY <1>2, <2>3
  <2> QED BY <1>2, <1>5, <2>1, <2>4, <2>5
<1> QED BY <1>4, <1>5

LEMMA CommitStep ==
  ASSUME AlertInv, NEW w \in AlertWorker, Commit(w) PROVE AlertInv'
<1> DEFINE m == job[w].msg
           new == NewEvents(w)
           es == Deliverable(w, new)
           next == IF es = {} THEN Afterwards(m) ELSE Publishing(m, es, es)
<1>1. /\ UNCHANGED <<clock, rule, listed, input, published, unread, doubled, offlines, stranded,
           orphaned, afaults>>
      /\ Doing(w, "commit") /\ records' = Changed(w) /\ outbox' = outbox \cup new
      /\ Goes(w, next) /\ receipts' = receipts \cup Receipted(w)
  BY DEF Commit
<1>2. /\ job[w].stage = "commit" /\ m \in Message \cup {Deadline}
      /\ job[w].seen \in Seq(Record) /\ job[w].queued \subseteq Event /\ job[w].at \in Clock
  BY <1>1, JobFields DEF AlertInv, AlertsTypeOK, Doing, Busy
<1>3. /\ Changed(w) \in Seq(Record)
      /\ DOMAIN records \subseteq DOMAIN records'
      /\ DOMAIN records = 1 .. Len(records) /\ Len(records) \in Nat
      /\ Creates(w) =>
           /\ DOMAIN records' = DOMAIN records \cup {Len(records) + 1}
           /\ \A r \in DOMAIN records : records'[r] = records[r]
           /\ records'[Len(records) + 1].status = "active"
      /\ ~Creates(w) =>
           /\ DOMAIN records' = DOMAIN records
           /\ \A r \in DOMAIN records :
                records'[r].status = IF Resolves(w, r) THEN "resolved" ELSE records[r].status
  BY <1>1, ChangedRecords
<1>4. /\ new \subseteq Event
      /\ \A e \in new : \/ Creates(w) /\ e = Triggered(Len(records) + 1)
                        \/ \E r \in DOMAIN records : Resolves(w, r) /\ e = Resolved(r)
      /\ Creates(w) => Triggered(Len(records) + 1) \in new
      /\ \A r \in DOMAIN records : Resolves(w, r) => Resolved(r) \in new
  BY <1>3, EventFields DEF NewEvents
<1>5. es \subseteq Event /\ es = job[w].queued \cup new
  BY <1>2, <1>4 DEF Deliverable
<1>6. next \in Job /\ next.stage \in {"idle", "drain", "publish"}
      /\ (next.stage # "idle" => next.msg = m)
      /\ (next.stage = "publish" => next.events = es /\ next.left = es)
  <2> HIDE DEF m, es
  <2>1. Afterwards(m) \in Job /\ Publishing(m, es, es) \in Job
    BY <1>2, <1>5, JobRecords
  <2> QED BY <2>1 DEF next, Afterwards, Publishing, Resting, Draining
<1> HIDE DEF new, es, next
<1>7. /\ job'[w] = next /\ \A v \in AlertWorker \ {w} : job'[v] = job[v]
      /\ job' \in [AlertWorker -> Job]
  BY <1>1, <1>6, Moved DEF AlertInv, AlertsTypeOK
<1>8. AlertsTypeOK'
  <2>1. calmSince' \in Clock \cup {Never}
    BY <1>2 DEF Commit, CalmSince, AlertInv, AlertsTypeOK
  <2>2. receipts' \subseteq Message
    BY <1>1, <1>2 DEF Receipted, AlertInv, AlertsTypeOK
  <2>3. evaluations' \in [Message -> Nat]
    BY <1>2 DEF Commit, AlertInv, AlertsTypeOK
  <2> QED BY <1>1, <1>3, <1>4, <1>7, <2>1, <2>2, <2>3 DEF AlertInv, AlertsTypeOK
<1>9. InputInv'
  BY <1>1, <1>6, <1>7 DEF AlertInv, InputInv, ComparedWithEarlier, Doing
<1>10. HoldInv'
  BY <1>1, <1>2, <1>6, <1>7, HoldersStay DEF AlertInv
<1>11. ReceiptInv'
  <2>1. CASE m = Deadline
    <3>1. receipts' = receipts /\ evaluations' = evaluations
      BY <1>1, <2>1 DEF Commit, Receipted
    <3> QED BY <1>1, <1>6, <1>7, <3>1 DEF AlertInv, ReceiptInv, EvaluatedOnce,
               Busy
  <2>2. CASE m # Deadline
    <3>1. /\ m \in Message /\ receipts' = receipts \cup {m}
          /\ evaluations' = [evaluations EXCEPT ![m] = @ + 1]
          /\ evaluations \in [Message -> Nat]
      BY <1>1, <1>2, <2>2 DEF Commit, Receipted, AlertInv, AlertsTypeOK
    <3>2. m \notin doubled => evaluations[m] = 0
      BY <1>2, <2>2, <3>1 DEF AlertInv, ReceiptInv, Busy
    <3>3. EvaluatedOnce'
      BY <1>1, <3>1, <3>2 DEF AlertInv, ReceiptInv, EvaluatedOnce
    <3>4. \A k \in Message : k \notin receipts' => evaluations'[k] = 0
      BY <3>1 DEF AlertInv, ReceiptInv
    <3>5. ASSUME NEW v \in AlertWorker, job'[v].stage \in Busy, job'[v].msg # Deadline,
                 job'[v].msg \in receipts'
          PROVE  job'[v].msg \in doubled
      <4>1. v # w /\ job'[v] = job[v]
        BY <1>6, <1>7, <3>5 DEF Busy
      <4>2. CASE job[v].msg \in receipts
        BY <3>5, <4>1, <4>2 DEF AlertInv, ReceiptInv
      <4>3. CASE job[v].msg = m
        BY <1>2, <2>2, <3>5, <4>1, <4>3 DEF AlertInv, HoldInv, Doing, Busy
      <4> QED BY <3>1, <3>5, <4>1, <4>2, <4>3
    <3> QED BY <1>1, <3>3, <3>4, <3>5 DEF ReceiptInv
  <2> QED BY <2>1, <2>2
<1>12. OpenInv'
  <2>1. CASE Creates(w)
    <3>1. \A r \in DOMAIN records : ~IsOpen(records, r)
      BY <2>1 DEF Creates, Unresolved
    <3>2. \A r \in DOMAIN records' : IsOpen(records', r) => r = Len(records) + 1
      BY <1>3, <2>1, <3>1 DEF IsOpen
    <3>3. rule \/ orphaned
      BY <1>2 DEF AlertInv, OpenInv, Busy
    <3> QED BY <1>1, <1>6, <1>7, <3>2, <3>3 DEF AlertInv, OpenInv,
               AtMostOneOpen, Busy
  <2>2. CASE ~Creates(w)
    <3>1. \A r \in DOMAIN records' : IsOpen(records', r) => IsOpen(records, r)
      BY <1>3, <2>2 DEF IsOpen, Open
    <3> QED BY <1>1, <1>3, <1>6, <1>7, <2>2, <3>1 DEF AlertInv, OpenInv,
               AtMostOneOpen, Busy
  <2> QED BY <2>1, <2>2
<1>13. EventInv'
  <2>1. \A r \in DOMAIN records :
          /\ Told(Triggered(r)) /\ (records[r].status = "resolved" /\ rule => Told(Resolved(r)))
    BY DEF AlertInv, EventInv, EventsFollowRecords
  <2>2. ASSUME NEW r \in DOMAIN records'
        PROVE  /\ Told(Triggered(r))'
               /\ records'[r].status = "resolved" /\ rule => Told(Resolved(r))'
    <3>1. CASE Creates(w) /\ r = Len(records) + 1
      BY <1>1, <1>3, <1>4, <3>1 DEF Told
    <3>2. CASE r \in DOMAIN records
      BY <1>1, <1>3, <1>4, <2>1, <3>2 DEF Told
    <3> QED BY <1>3, <2>2, <3>1, <3>2
  <2>3. EventsFollowRecords'
    BY <1>1, <2>2 DEF AlertInv, EventInv, EventsFollowRecords
  <2>4. \A e \in outbox' : e.record \in DOMAIN records'
    BY <1>1, <1>3, <1>4, EventFields DEF AlertInv, EventInv
  <2>5. JobLed(w)'
    <3>1. \A r \in DOMAIN records :
            Resolves(w, r) => Triggered(r) \in es \/ Triggered(r) \in published
      BY <1>1, <1>5 DEF AlertInv, EventInv, JobLed, Resolves, IsOpen
    <3>2. Led(es)
      <4> SUFFICES ASSUME NEW e \in es, e.type = "resolved"
                   PROVE  Triggered(e.record) \in es \/ Triggered(e.record) \in published
        BY DEF Led
      <4>1. CASE e \in job[w].queued
        BY <1>1, <1>5, <4>1 DEF AlertInv, EventInv, JobLed, Led
      <4>2. CASE e \in new
        BY <1>4, <3>1, <4>2, EventFields
      <4> QED BY <1>5, <4>1, <4>2
    <3> QED BY <1>1, <1>6, <1>7, <3>2 DEF JobLed, Doing, Led
  <2>6. \A v \in AlertWorker \ {w} : JobLed(v)'
    BY <1>1, <1>7, OthersLed DEF AlertInv
  <2> QED BY <2>3, <2>4, <2>5, <2>6 DEF EventInv
<1> QED BY <1>8, <1>9, <1>10, <1>11, <1>12, <1>13 DEF AlertInv

(* The opening of a record is published before its resolution: the pipeline  *)
(* has it, further ahead, or it was published before.                        *)
LEMMA PublishStep ==
  ASSUME AlertInv, NEW w \in AlertWorker, Publish(w) PROVE AlertInv'
<1>1. PICK e \in job[w].left :
        /\ ~\E f \in job[w].left : Precedes(f, e)
        /\ published' = published \cup {e}
        /\ Goes(w, IF job[w].left = {e} THEN Deleting(job[w].msg, job[w].events)
                   ELSE Publishing(job[w].msg, job[w].events, job[w].left \ {e}))
  BY DEF Publish
<1>2. /\ UNCHANGED <<clock, rule, listed, input, calmSince, records, outbox, receipts, unread,
           evaluations, doubled, offlines, stranded, orphaned, afaults>>
      /\ job[w].stage = "publish" /\ Doing(w, "publish")
  BY DEF Publish, Doing
<1>3. /\ job[w].msg \in Message \cup {Deadline}
      /\ job[w].events \subseteq Event /\ job[w].left \subseteq Event
  BY <1>2, JobFields DEF AlertInv, AlertsTypeOK
<1> DEFINE next == IF job[w].left = {e} THEN Deleting(job[w].msg, job[w].events)
                   ELSE Publishing(job[w].msg, job[w].events, job[w].left \ {e})
<1>4. /\ next \in Job /\ next.msg = job[w].msg /\ next.events = job[w].events
      /\ \/ next.stage = "delete" /\ job[w].left = {e}
         \/ next.stage = "publish" /\ next.left = job[w].left \ {e}
  <2>1. /\ Deleting(job[w].msg, job[w].events) \in Job
        /\ Publishing(job[w].msg, job[w].events, job[w].left \ {e}) \in Job
    BY <1>3, JobRecords
  <2> QED BY <2>1 DEF Deleting, Publishing
<1> HIDE DEF next
<1>5. /\ job'[w] = next /\ \A v \in AlertWorker \ {w} : job'[v] = job[v]
      /\ job' \in [AlertWorker -> Job]
  BY <1>1, <1>4, Moved DEF AlertInv, AlertsTypeOK, next
<1>6. AlertsTypeOK'
  BY <1>1, <1>2, <1>3, <1>5 DEF AlertInv, AlertsTypeOK
<1>7. InputInv'
  BY <1>2, <1>4, <1>5 DEF AlertInv, InputInv, ComparedWithEarlier, Doing
<1>8. HoldInv'
  BY <1>2, <1>4, <1>5, HoldersStay DEF AlertInv
<1>9. ReceiptInv'
  BY <1>2, <1>4, <1>5 DEF AlertInv, ReceiptInv, EvaluatedOnce, Busy
<1>10. OpenInv'
  BY <1>2, <1>4, <1>5 DEF AlertInv, OpenInv, AtMostOneOpen, IsOpen, Busy
<1>11. Led(job[w].left) /\ job[w].events \ job[w].left \subseteq published
  BY <1>2 DEF AlertInv, EventInv, JobLed
<1>12. e.type = "resolved" => Triggered(e.record) \in published
  <2> SUFFICES ASSUME e.type = "resolved", Triggered(e.record) \in job[w].left PROVE FALSE
    BY <1>11 DEF Led
  <2>1. Precedes(Triggered(e.record), e)
    BY EventFields DEF Precedes
  <2> QED BY <1>1, <2>1
<1>13. EventInv'
  <2>1. EventsFollowRecords'
    BY <1>1, <1>2, <1>12 DEF AlertInv, EventInv, EventsFollowRecords, Told
  <2>2. JobLed(w)'
    <3>1. CASE next.stage = "delete" /\ job[w].left = {e}
      BY <1>1, <1>4, <1>5, <1>11, <3>1 DEF JobLed, Doing
    <3>2. CASE next.stage = "publish" /\ next.left = job[w].left \ {e}
      BY <1>1, <1>4, <1>5, <1>11, <3>2 DEF JobLed, Doing, Led
    <3> QED BY <1>4, <3>1, <3>2
  <2>3. \A v \in AlertWorker \ {w} : JobLed(v)'
    BY <1>1, <1>5, OthersLed DEF AlertInv
  <2> QED BY <1>2, <2>1, <2>2, <2>3 DEF AlertInv, EventInv
<1> QED BY <1>6, <1>7, <1>8, <1>9, <1>10, <1>13 DEF AlertInv

(* Only published events leave the outbox.                                   *)
LEMMA DeleteStep ==
  ASSUME AlertInv, NEW w \in AlertWorker, DeletePublished(w) PROVE AlertInv'
<1> DEFINE next == Afterwards(job[w].msg)
<1>1. /\ UNCHANGED <<clock, rule, listed, input, calmSince, records, published, receipts, unread,
           evaluations, doubled, offlines, stranded, orphaned, afaults>>
      /\ job[w].stage = "delete" /\ Goes(w, next) /\ outbox' = outbox \ job[w].events
  BY DEF DeletePublished, WithoutPublished, Doing
<1>2. job[w].msg \in Message \cup {Deadline}
  BY <1>1, JobFields DEF AlertInv, AlertsTypeOK
<1>3. /\ next \in Job /\ next.stage \in {"idle", "drain"}
      /\ next.stage # "idle" => next.msg = job[w].msg
  <2>1. next \in Job
    BY <1>2, JobRecords
  <2> QED BY <2>1 DEF Afterwards, Resting, Draining
<1> HIDE DEF next
<1>4. /\ job'[w] = next /\ \A v \in AlertWorker \ {w} : job'[v] = job[v]
      /\ job' \in [AlertWorker -> Job]
  BY <1>1, <1>3, Moved DEF AlertInv, AlertsTypeOK
<1>5. AlertsTypeOK'
  BY <1>1, <1>4 DEF AlertInv, AlertsTypeOK
<1>6. InputInv'
  BY <1>1, <1>3, <1>4 DEF AlertInv, InputInv, ComparedWithEarlier, Doing
<1>7. HoldInv'
  BY <1>1, <1>3, <1>4, HoldersStay DEF AlertInv
<1>8. ReceiptInv'
  BY <1>1, <1>3, <1>4 DEF AlertInv, ReceiptInv, EvaluatedOnce, Busy
<1>9. OpenInv'
  BY <1>1, <1>3, <1>4 DEF AlertInv, OpenInv, AtMostOneOpen, IsOpen, Busy
<1>10. EventInv'
  <2>1. job[w].events \subseteq published
    BY <1>1 DEF AlertInv, EventInv, JobLed, Doing
  <2>2. \A e : Told(e) => Told(e)'
    BY <1>1, <2>1 DEF Told
  <2>3. EventsFollowRecords'
    BY <1>1, <2>2 DEF AlertInv, EventInv, EventsFollowRecords
  <2>4. JobLed(w)'
    BY <1>3, <1>4 DEF JobLed, Doing
  <2>5. \A v \in AlertWorker \ {w} : JobLed(v)'
    BY <1>1, <1>4, OthersLed DEF AlertInv
  <2> QED BY <1>1, <2>3, <2>4, <2>5 DEF AlertInv, EventInv
<1> QED BY <1>5, <1>6, <1>7, <1>8, <1>9, <1>10 DEF AlertInv

LEMMA DrainStep ==
  ASSUME AlertInv, NEW w \in AlertWorker, Drain(w) PROVE AlertInv'
<1> DEFINE next == IF outbox = {} THEN Resting ELSE Publishing(job[w].msg, outbox, outbox)
<1>1. /\ UNCHANGED <<clock, rule, listed, input, calmSince, records, outbox, published, receipts,
           evaluations, doubled, offlines, stranded, orphaned, afaults>>
      /\ job[w].stage = "drain" /\ Goes(w, next) /\ unread' \subseteq unread
  BY DEF Drain, Doing
<1>2. job[w].msg \in Message /\ outbox \in SUBSET Event
  BY <1>1, JobFields DEF AlertInv, AlertsTypeOK
<1>3. /\ next \in Job /\ next.stage \in {"idle", "publish"}
      /\ next.stage # "idle" =>
           next.msg = job[w].msg /\ next.events = outbox /\ next.left = outbox
  <2>1. Resting \in Job /\ Publishing(job[w].msg, outbox, outbox) \in Job
    BY <1>2, JobRecords
  <2> QED BY <2>1 DEF Resting, Publishing
<1> HIDE DEF next
<1>4. /\ job'[w] = next /\ \A v \in AlertWorker \ {w} : job'[v] = job[v]
      /\ job' \in [AlertWorker -> Job]
  BY <1>1, <1>3, Moved DEF AlertInv, AlertsTypeOK
<1>5. AlertsTypeOK'
  BY <1>1, <1>4 DEF AlertInv, AlertsTypeOK
<1>6. InputInv'
  BY <1>1, <1>3, <1>4 DEF AlertInv, InputInv, ComparedWithEarlier, Doing
<1>7. HoldInv'
  BY <1>1, <1>3, <1>4, HoldersStay DEF AlertInv
<1>8. ReceiptInv'
  BY <1>1, <1>3, <1>4 DEF AlertInv, ReceiptInv, EvaluatedOnce, Busy
<1>9. OpenInv'
  BY <1>1, <1>3, <1>4 DEF AlertInv, OpenInv, AtMostOneOpen, IsOpen, Busy
<1>10. EventInv'
  <2>1. JobLed(w)'
    BY <1>1, <1>3, <1>4, OutboxLed DEF AlertInv, JobLed, Doing, Led
  <2>2. \A v \in AlertWorker \ {w} : JobLed(v)'
    BY <1>1, <1>4, OthersLed DEF AlertInv
  <2> QED BY <1>1, <2>1, <2>2 DEF AlertInv, EventInv, EventsFollowRecords, Told
<1> QED BY <1>5, <1>6, <1>7, <1>8, <1>9, <1>10 DEF AlertInv

LEMMA FailJobStep ==
  ASSUME AlertInv, NEW w \in AlertWorker, FailJob(w) PROVE AlertInv'
<1>1. /\ UNCHANGED <<clock, rule, listed, input, calmSince, records, outbox, published, receipts,
           unread, evaluations, doubled, offlines, orphaned>>
      /\ Goes(w, Resting)
  BY DEF FailJob
<1>2. afaults' \in 0 .. MaxAlertFaults /\ stranded' \in BOOLEAN
  <2>1. afaults' \in 0 .. MaxAlertFaults
    BY AlertConstants DEF FailJob, AlertInv, AlertsTypeOK
  <2>2. stranded' \in BOOLEAN
    BY DEF FailJob, AlertInv, AlertsTypeOK
  <2> QED BY <2>1, <2>2
<1>3. Resting \in Job /\ Resting.stage = "idle"
  BY DEF Resting, Job
<1>4. /\ job'[w] = Resting /\ \A v \in AlertWorker \ {w} : job'[v] = job[v]
      /\ job' \in [AlertWorker -> Job]
  BY <1>1, <1>3, Moved DEF AlertInv, AlertsTypeOK
<1>5. AlertsTypeOK'
  BY <1>1, <1>2, <1>4 DEF AlertInv, AlertsTypeOK
<1>6. InputInv'
  BY <1>1, <1>3, <1>4 DEF AlertInv, InputInv, ComparedWithEarlier, Doing
<1>7. HoldInv'
  BY <1>1, <1>3, <1>4, HoldersStay DEF AlertInv
<1>8. ReceiptInv'
  BY <1>1, <1>3, <1>4 DEF AlertInv, ReceiptInv, EvaluatedOnce, Busy
<1>9. OpenInv'
  BY <1>1, <1>3, <1>4 DEF AlertInv, OpenInv, AtMostOneOpen, IsOpen, Busy
<1>10. EventInv'
  <2>1. JobLed(w)'
    BY <1>3, <1>4 DEF JobLed, Doing
  <2>2. \A v \in AlertWorker \ {w} : JobLed(v)'
    BY <1>1, <1>4, OthersLed DEF AlertInv
  <2> QED BY <1>1, <2>1, <2>2 DEF AlertInv, EventInv, EventsFollowRecords, Told
<1> QED BY <1>5, <1>6, <1>7, <1>8, <1>9, <1>10 DEF AlertInv

(* Users change the status of records, and refreshes what Redis lists: not   *)
(* what the evaluations have.                                                *)
LEMMA UserStep ==
  ASSUME AlertInv,
         UNCHANGED <<clock, input, calmSince, outbox, published, receipts, unread, job,
           evaluations, doubled, offlines, stranded, afaults>>,
         records' \in Seq(Record), rule' \in BOOLEAN, orphaned' \in BOOLEAN,
         listed' \in BOOLEAN,
         DOMAIN records' = DOMAIN records, OpenInv',
         \A r \in DOMAIN records : records'[r].status = "resolved" /\ rule' =>
                                     records[r].status = "resolved" /\ rule
  PROVE  AlertInv'
<1>1. AlertsTypeOK'
  BY DEF AlertInv, AlertsTypeOK
<1>2. InputInv' /\ HoldInv' /\ ReceiptInv'
  BY DEF AlertInv, InputInv, ComparedWithEarlier, HoldInv, ReceiptInv,
     EvaluatedOnce, Doing
<1>3. EventInv'
  <2>1. EventsFollowRecords'
    BY DEF AlertInv, EventInv, EventsFollowRecords, Told
  <2>2. \A v \in AlertWorker : JobLed(v)'
    BY DEF AlertInv, EventInv, JobLed, Doing, Led
  <2> QED BY <2>1, <2>2 DEF AlertInv, EventInv
<1> QED BY <1>1, <1>2, <1>3 DEF AlertInv

LEMMA AcknowledgeStep ==
  ASSUME AlertInv, NEW r \in DOMAIN records, Acknowledge(r) PROVE AlertInv'
<1> DEFINE acked == WithStatus(records[r], "acknowledged")
<1>1. /\ UNCHANGED <<clock, rule, listed, input, calmSince, outbox, published, receipts, unread, job,
           evaluations, doubled, offlines, stranded, orphaned, afaults>>
      /\ records[r].status = "active" /\ records' = [records EXCEPT ![r] = acked]
  BY DEF Acknowledge
<1>2. records \in Seq(Record) /\ DOMAIN records = 1 .. Len(records) /\ Len(records) \in Nat
  BY DEF AlertInv, AlertsTypeOK
<1>3. records[r] \in Record /\ acked \in Record /\ acked.status = "acknowledged"
  <2>1. records[r] \in Record
    BY <1>2, ElementsOf
  <2> QED BY <2>1 DEF Record, Open, WithStatus
<1> HIDE DEF acked
<1>4. /\ records' \in Seq(Record) /\ DOMAIN records' = DOMAIN records
      /\ records'[r] = acked /\ \A s \in DOMAIN records \ {r} : records'[s] = records[s]
  BY <1>1, <1>2, <1>3
<1>5. \A s \in DOMAIN records : IsOpen(records', s) <=> IsOpen(records, s)
  BY <1>1, <1>3, <1>4 DEF IsOpen, Open
<1>6. OpenInv'
  BY <1>1, <1>4, <1>5 DEF AlertInv, OpenInv, AtMostOneOpen
<1>7. \A s \in DOMAIN records : records'[s].status = "resolved" => records[s].status = "resolved"
  BY <1>3, <1>4
<1> QED BY <1>1, <1>4, <1>6, <1>7, UserStep DEF AlertInv, AlertsTypeOK

LEMMA RemoveStep == AlertInv /\ RemoveRule => AlertInv'
<1> SUFFICES ASSUME AlertInv, RemoveRule PROVE AlertInv'
  OBVIOUS
<1>1. /\ UNCHANGED <<clock, listed, input, calmSince, outbox, published, receipts, unread, job,
           evaluations, doubled, offlines, stranded, afaults>>
      /\ rule' = FALSE /\ records' = Closed(records)
      /\ orphaned' = \E w \in AlertWorker : job[w].stage \in Busy
  BY DEF RemoveRule, Busy
<1>2. records \in Seq(Record) /\ DOMAIN records = 1 .. Len(records) /\ Len(records) \in Nat
  BY DEF AlertInv, AlertsTypeOK
<1>3. \A r \in DOMAIN records : records[r] \in Record
  BY <1>2, ElementsOf
<1>4. /\ DOMAIN records' = DOMAIN records
      /\ \A r \in DOMAIN records : records'[r].status = "resolved" /\ records'[r] \in Record
  BY <1>1, <1>3 DEF Closed, WithStatus, Record
<1>5. records' \in Seq(Record)
  <2>1. records' \in [1 .. Len(records) -> Record]
    BY <1>1, <1>2, <1>4 DEF Closed
  <2> QED BY <1>2, <2>1
<1>6. \A r : ~IsOpen(records', r)
  BY <1>4 DEF IsOpen, Open
<1>7. OpenInv'
  BY <1>1, <1>6 DEF OpenInv, AtMostOneOpen
<1>8. listed' \in BOOLEAN
  BY <1>1 DEF AlertInv, AlertsTypeOK
<1> QED BY <1>1, <1>4, <1>5, <1>7, <1>8, UserStep

LEMMA AlertStep == AlertInv /\ [NextAlerts]_alertVars => AlertInv'
<1> SUFFICES ASSUME AlertInv, [NextAlerts]_alertVars PROVE AlertInv'
  OBVIOUS
<1>1. CASE UNCHANGED alertVars \/ RefreshList
  <2>1. /\ UNCHANGED <<clock, rule, input, calmSince, records, outbox, published,
             receipts, unread, job, evaluations, doubled, offlines, stranded, orphaned,
             afaults>>
        /\ listed' \in BOOLEAN
    BY <1>1 DEF alertVars, RefreshList, AlertInv, AlertsTypeOK
  <2>2. OpenInv'
    BY <2>1 DEF AlertInv, OpenInv, AtMostOneOpen, IsOpen
  <2> QED BY <2>1, <2>2, UserStep DEF AlertInv, AlertsTypeOK
<1>2. CASE TickClock \/ RemoveRule
  BY <1>2, TickClockStep, RemoveStep
<1>3. ASSUME NEW r \in DOMAIN records, Acknowledge(r) PROVE AlertInv'
  BY <1>3, AcknowledgeStep
<1>4. ASSUME NEW w \in AlertWorker, NEW m \in Message, Take(w, m) PROVE AlertInv'
  BY <1>4, TakeStep
<1>5. ASSUME NEW w \in AlertWorker, Proceed(w) \/ EvaluateOffline(w) \/ FailJob(w)
      PROVE  AlertInv'
  BY <1>5, PrepareStepA, EvaluateStepA, SkipStep, BeginCommitStep, CommitStep,
     PublishStep, DeleteStep, DrainStep, EvaluateOfflineStep, FailJobStep DEF Proceed
<1> QED BY <1>1, <1>2, <1>3, <1>4, <1>5 DEF NextAlerts

(* A rule has one open record at most, a report is evaluated once and against*)
(* one before it, and every opening and resolution has its event, published  *)
(* in this order; for any number of reports, workers, records and failures.  *)
THEOREM AlertsAreRight == SpecAlerts => []AlertSafety
<1>1. AlertInv => AlertSafety
  BY DEF AlertInv, AlertSafety, InputInv, ReceiptInv, OpenInv, EventInv
<1>2. SpecAlerts => []AlertInv
  BY AlertInit, AlertStep, PTL DEF SpecAlerts
<1> QED BY <1>1, <1>2, PTL
=============================================================================
