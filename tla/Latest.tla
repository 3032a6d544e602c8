------------------------------- MODULE Latest -------------------------------
(***************************************************************************)
(* The real-time copy of one device in Redis: its newest value, whether it *)
(* is online, and the deadline at which it goes offline.  Reports reach    *)
(* the copy and the database through two consumers, each in any order and  *)
(* possibly again.  Every service worker sweeps the deadlines; projections *)
(* of the catalogue rebuild a copy that is incomplete and refresh one that *)
(* is not; the deletion of the device erases it.                           *)
(*                                                                         *)
(* A Lua script is one step.  A pipeline is not: other commands come       *)
(* between its commands, so those that touch different keys are steps of   *)
(* their own where it matters.  All clocks show the same time.             *)
(***************************************************************************)
EXTENDS Integers

CONSTANTS
  Sweeper,         \* workers that look for deadlines that have passed
  Projector,       \* workers that project the device
  Window,          \* how long a report keeps its device online
  MaxNow,          \* bound on the clock
  MaxProjections   \* bound on the projections

ASSUME LatestConstants ==
  Window \in Nat \ {0} /\ MaxNow \in Nat /\ MaxProjections \in Nat

VARIABLES
  now,
  reports,      \* times at which the device was observed
  db,           \* the newest observation the history consumer has stored
  row,          \* the device in the database, and what its deletion has done
  runtime,      \* its runtime hash
  latest,       \* its hash of latest values
  deadline,     \* its score in the index of deadlines
  sweep,        \* workers that have found the deadline due, and when
  proj,         \* projections under way
  projections,
  raced,        \* a rebuilding projection dropped the deadline of a new report
  overlapped    \* a projection was under way when the device was deleted

latestVars == <<now, reports, db, row, runtime, latest, deadline, sweep, proj,
                projections, raced, overlapped>>

Time == 0 .. MaxNow
None == -1          \* no time, no deadline, a point without observation
Absent == -2        \* no document of the point
NotSweeping == -1

State == {"none", "offline", "online", "stale"}
Runtime(known, last, until, state) ==
  [known |-> known, last |-> last, until |-> until, state |-> state]
NoRuntime == Runtime(FALSE, None, None, "none")
\* named: _device_id is set; listed: _element_ids is.
Copy(named, listed, value) ==
  [named |-> named, listed |-> listed, value |-> value]
NoLatest == Copy(FALSE, FALSE, Absent)
Projection(stage, at, rebuild, kept, point) ==
  [stage |-> stage, at |-> at, rebuild |-> rebuild, kept |-> kept, point |-> point]
NotProjecting == Projection("idle", 0, FALSE, None, None)

\* The device is in the database and has not reported; Redis has nothing of
\* it, or the complete copy an earlier projection left.
InitLatest ==
  /\ now = 0 /\ reports = {} /\ db = None /\ row = "live" /\ deadline = None
  /\ \/ runtime = NoRuntime /\ latest = NoLatest
     \/ /\ runtime = Runtime(TRUE, None, None, "offline")
        /\ latest = Copy(TRUE, TRUE, None)
  /\ sweep = [s \in Sweeper |-> NotSweeping]
  /\ proj = [p \in Projector |-> NotProjecting]
  /\ projections = 0 /\ raced = FALSE /\ overlapped = FALSE

Tick ==
  /\ now < MaxNow /\ now' = now + 1
  /\ UNCHANGED <<reports, db, row, runtime, latest, deadline, sweep, proj,
                 projections, raced, overlapped>>

----------------------------------------------------------------------------
(* Reports                                                                 *)

Observe ==
  /\ reports' = reports \cup {now}
  /\ UNCHANGED <<now, db, row, runtime, latest, deadline, sweep, proj,
                 projections, raced, overlapped>>

\* persist: device_latest_value keeps the newest observation.
Persist(r) ==
  /\ r \in reports /\ r > db
  /\ db' = r
  /\ UNCHANGED <<now, reports, row, runtime, latest, deadline, sweep, proj,
                 projections, raced, overlapped>>

Newer(r) == r >= runtime.last
Known == runtime.known

\* The script of update.  A derived report carries values but says nothing of
\* the connection.
Update(r, derived) ==
  /\ r \in reports /\ Known
  /\ IF Newer(r) /\ ~derived
       THEN /\ runtime' = Runtime(TRUE, r, r + Window,
                 IF r + Window < now THEN "stale" ELSE "online")
            /\ deadline' = r + Window
       ELSE UNCHANGED <<runtime, deadline>>
  /\ latest' = Copy(latest.named \/ (Newer(r) /\ ~derived), latest.listed,
                   IF r >= latest.value THEN r ELSE latest.value)
  /\ UNCHANGED <<now, reports, db, row, sweep, proj, projections, raced,
                 overlapped>>

----------------------------------------------------------------------------
(* Going offline                                                           *)

FindDue(s) ==
  /\ sweep[s] = NotSweeping
  /\ deadline # None /\ deadline <= now
  /\ sweep' = [sweep EXCEPT ![s] = now]
  /\ UNCHANGED <<now, reports, db, row, runtime, latest, deadline, proj,
                 projections, raced, overlapped>>

BugTrustsIndex(s) == TRUE
BugForgetsExtended(s) == None

\* The script looks again at the deadline of the device: a report may have
\* extended it since.
Expired(s) == runtime.until <= sweep[s]
Rescheduled(s) == runtime.until

Expire(s) ==
  /\ sweep[s] # NotSweeping
  /\ sweep' = [sweep EXCEPT ![s] = NotSweeping]
  /\ IF deadline = None THEN UNCHANGED <<runtime, deadline>>
     ELSE IF Expired(s)
       THEN runtime' = [runtime EXCEPT !.state = "stale"] /\ deadline' = None
       ELSE deadline' = Rescheduled(s) /\ UNCHANGED runtime
  /\ UNCHANGED <<now, reports, db, row, latest, proj, projections, raced,
                 overlapped>>

----------------------------------------------------------------------------
(* Projection                                                              *)

In(p, stage) == proj[p].stage = stage
Go(p, stage, rebuild, kept, point) ==
  proj' = [proj EXCEPT ![p] = Projection(stage, @.at, rebuild, kept, point)]
To(p, stage) == Go(p, stage, proj[p].rebuild, proj[p].kept, proj[p].point)
Rest == UNCHANGED <<now, reports, db, row, sweep, projections, overlapped>>

\* initializeDevice, when the device has just been created.
Initialize ==
  /\ row = "live" /\ runtime = NoRuntime /\ latest = NoLatest
  /\ runtime' = Runtime(TRUE, None, None, "offline")
  /\ latest' = Copy(TRUE, FALSE, Absent)
  /\ UNCHANGED <<deadline, proj, raced>> /\ Rest

BeginProjection(p) ==
  /\ In(p, "idle") /\ row = "live" /\ projections < MaxProjections
  /\ projections' = projections + 1
  /\ proj' = [proj EXCEPT ![p] = Projection("check", now, FALSE, None, None)]
  /\ UNCHANGED <<now, reports, db, row, runtime, latest, deadline, sweep,
                 raced, overlapped>>

\* Whether the copy is complete, and the deadline to keep.
CheckCopy(p) ==
  /\ In(p, "check")
  /\ LET complete == latest.named /\ latest.listed /\ runtime.known
     IN IF complete THEN Go(p, "meta", FALSE, runtime.until, proj[p].point)
                    ELSE Go(p, "drop", TRUE, None, proj[p].point)
  /\ UNCHANGED <<runtime, latest, deadline, raced>> /\ Rest

DropCopy(p) ==
  /\ In(p, "drop") /\ To(p, "meta")
  /\ runtime' = NoRuntime /\ latest' = NoLatest
  /\ UNCHANGED <<deadline, raced>> /\ Rest

ProjectMeta(p) ==
  /\ In(p, "meta") /\ To(p, "deadline")
  /\ latest' = Copy(TRUE, latest.listed, latest.value)
  /\ runtime' = Runtime(TRUE, runtime.last, runtime.until,
                       IF proj[p].rebuild THEN "offline" ELSE runtime.state)
  /\ UNCHANGED <<deadline, raced>> /\ Rest

ProjectDeadline(p) ==
  /\ In(p, "deadline") /\ To(p, "points")
  /\ deadline' = IF proj[p].rebuild THEN None
                 ELSE IF proj[p].kept # None THEN proj[p].kept ELSE deadline
  /\ raced' = (raced \/ (proj[p].rebuild /\ runtime.state = "online"))
  /\ UNCHANGED <<runtime, latest>> /\ Rest

ReadPoints(p) ==
  /\ In(p, "points")
  /\ Go(p, "elements", proj[p].rebuild, proj[p].kept, db)
  /\ UNCHANGED <<runtime, latest, deadline, raced>> /\ Rest

BugWritesStoredValue(p) == proj[p].point

\* kRefreshElementMetadataScript: a document that exists keeps its value.
Refreshed(p) == IF latest.value = Absent THEN proj[p].point ELSE latest.value

ProjectElements(p) ==
  /\ In(p, "elements") /\ To(p, "state")
  /\ latest' = Copy(latest.named, TRUE, Refreshed(p))
  /\ UNCHANGED <<runtime, deadline, raced>> /\ Rest

\* The state follows the stored values of every device that has some.
ProjectState(p) ==
  /\ In(p, "state")
  /\ proj' = [proj EXCEPT ![p] = NotProjecting]
  /\ LET last == proj[p].point  until == last + Window
     IN IF last = None THEN UNCHANGED <<runtime, deadline>>
        ELSE /\ runtime' = Runtime(runtime.known, last, until,
                  IF until >= proj[p].at THEN "online" ELSE "stale")
             /\ deadline' = until
  /\ UNCHANGED <<latest, raced>> /\ Rest

\* A statement or a pipeline fails; what was written stays.
AbortProjection(p) ==
  /\ ~In(p, "idle")
  /\ proj' = [proj EXCEPT ![p] = NotProjecting]
  /\ UNCHANGED <<runtime, latest, deadline, raced>> /\ Rest

----------------------------------------------------------------------------
(* Deletion                                                                *)

RemoveRow ==
  /\ row = "live" /\ row' = "deleted"
  /\ overlapped' = (\E p \in Projector : ~In(p, "idle"))
  /\ UNCHANGED <<now, reports, db, runtime, latest, deadline, sweep, proj,
                 projections, raced>>

\* eraseDevice, one command after the other.
Erase ==
  /\ \/ row = "deleted" /\ row' = "runtime_gone" /\ runtime' = NoRuntime
        /\ UNCHANGED <<latest, deadline>>
     \/ row = "runtime_gone" /\ row' = "latest_gone" /\ latest' = NoLatest
        /\ UNCHANGED <<runtime, deadline>>
     \/ row = "latest_gone" /\ row' = "erased" /\ deadline' = None
        /\ UNCHANGED <<runtime, latest>>
  /\ UNCHANGED <<now, reports, db, sweep, proj, projections, raced, overlapped>>

----------------------------------------------------------------------------
Project(p) ==
  \/ CheckCopy(p) \/ DropCopy(p) \/ ProjectMeta(p) \/ ProjectDeadline(p)
  \/ ReadPoints(p) \/ ProjectElements(p) \/ ProjectState(p)

NextLatest ==
  \/ Tick \/ Observe \/ Initialize \/ RemoveRow \/ Erase
  \/ \E r \in reports : Persist(r) \/ \E derived \in BOOLEAN : Update(r, derived)
  \/ \E s \in Sweeper : FindDue(s) \/ Expire(s)
  \/ \E p \in Projector : BeginProjection(p) \/ Project(p) \/ AbortProjection(p)

\* The loops of the workers sleep until the next deadline, a wake-up, or a
\* minute at most.
FairLatest ==
  /\ \A s \in Sweeper : WF_latestVars(FindDue(s)) /\ WF_latestVars(Expire(s))
  /\ \A p \in Projector : WF_latestVars(Project(p))

SpecLatest == InitLatest /\ [][NextLatest]_latestVars
FairSpecLatest == SpecLatest /\ FairLatest

----------------------------------------------------------------------------
(* Properties                                                              *)

Until == 0 .. (MaxNow + Window)

LatestTypeOK ==
  /\ now \in Time /\ reports \subseteq Time /\ db \in Time \cup {None}
  /\ row \in {"live", "deleted", "runtime_gone", "latest_gone", "erased"}
  /\ runtime \in [known : BOOLEAN, last : Time \cup {None},
                  until : Until \cup {None}, state : State]
  /\ latest \in [named : BOOLEAN, listed : BOOLEAN,
                 value : Time \cup {None, Absent}]
  /\ deadline \in Until \cup {None}
  /\ sweep \in [Sweeper -> Time \cup {NotSweeping}]
  /\ proj \in [Projector ->
       [stage : {"idle", "check", "drop", "meta", "deadline", "points",
                 "elements", "state"},
        at : Time, rebuild : BOOLEAN, kept : Until \cup {None},
        point : Time \cup {None}]]
  /\ projections \in 0 .. MaxProjections
  /\ raced \in BOOLEAN /\ overlapped \in BOOLEAN

\* Whoever reports, sweeps and projects at the same time, a device is marked
\* stale only when its deadline has passed: the sweep decides on the state at
\* the time of its script, not on the index it read before.
StaleMeansPast == runtime.state = "stale" => runtime.until <= now

\* A device that is shown online has a deadline in the index, or it would stay
\* online for ever.  (A projection that rebuilds a copy while a report comes in
\* between two of its commands can drop one, as can an erasure it overlaps.)
Undisturbed == ~raced /\ ~overlapped
OnlineIsWatched ==
  runtime.state = "online" /\ Undisturbed => deadline # None

\* Reports that come late or again, and projections, never replace a value by
\* one observed before it; only the whole copy can go.
ValueNeverGoesBack ==
  [][latest'.value < latest.value => latest'.value = Absent]_latestVars

\* Once a device has been erased, reports that are still under way do not
\* bring it back; only a projection that began before the deletion can.
ErasedStaysErased == row = "erased" /\ ~overlapped => ~runtime.known

\* A device that stops reporting is shown as stale in the end.
Overdue == runtime.state = "online" /\ runtime.until <= now /\ Undisturbed
SilentGoesStale == Overdue ~> ~Overdue

\* What hydrate says of a device whose copy is complete: the database is not
\* consulted for it, so a projection does not take back a newer report.
ProjectionKeepsReports ==
  [][\A p \in Projector :
       In(p, "state") /\ ~proj[p].rebuild /\ proj'[p].stage = "idle"
         => runtime'.last >= runtime.last]_latestVars

\* The state of the copy, its deadline and the index agree, and nothing that was
\* erased comes back.
LatestSafety ==
  LatestTypeOK /\ StaleMeansPast /\ OnlineIsWatched /\ ErasedStaysErased
=============================================================================
