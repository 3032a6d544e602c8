------------------------------ MODULE Snapshots ------------------------------
(***************************************************************************)
(* The runtime configuration in Redis.  A projection writes a new version  *)
(* key by key and then switches the active pointer to it; collectors read  *)
(* the pointer and then load the version it named key by key, without a    *)
(* lock.  Versions that are no longer active stay for a grace period,      *)
(* which is measured by their score in a sorted set, and are erased by     *)
(* later projections or by the cleanup every Service Worker does once.      *)
(*                                                                         *)
(* Versions are numbered in the order of their UUIDv7, clock is the wall   *)
(* clock, which all processes are assumed to share.                        *)
(***************************************************************************)
EXTENDS Naturals, FiniteSets

CONSTANTS
  ServiceWorker,  \* the Service Workers, which project and clean up
  Loader,         \* the collectors, which load
  Key,            \* number of keys of a version; key 1 is its metadata
  Grace,          \* kSnapshotGraceMilliseconds
  MaxProjection,  \* how long a projection takes until it switches
  MaxRead,        \* how long a collector takes to load
  MaxVersions, MaxClock, MaxFaults   \* bounds of the model

Nothing == 0

ASSUME SnapshotsConstants ==
  /\ {Key, Grace, MaxProjection, MaxRead, MaxVersions, MaxClock, MaxFaults} \subseteq Nat
  /\ Key > 0 /\ Nothing \notin ServiceWorker

\* A collector that read the pointer just before a switch loads the version it
\* named within the grace period, which begins when the projection does.
ASSUME GraceIsLong == MaxProjection + MaxRead < Grace

VARIABLES
  clock,
  versions,    \* how many versions have been created
  active,      \* the active pointer
  stored,      \* the keys of each version that exist
  remembered,  \* the members of its set of keys
  score,       \* the sorted set of the versions
  lock,        \* the worker that holds the advisory lock
  pc,          \* what each worker does
  began,       \* createdAt of its projection, now of its cleanup
  version,     \* the version it writes; the one it preserves when erasing
  written,     \* commands of the pipeline that were executed
  doomed,      \* the expired versions it has yet to erase
  victims,     \* the keys it has yet to unlink of the version it erases
  loading,     \* the version a collector loads
  since,       \* when it read the pointer
  missing,     \* the keys it has yet to read
  torn,        \* it found a key missing
  faults

versionVars == <<versions, active, stored, remembered, score>>
workVars == <<lock, pc, began, version, written, doomed, victims>>
readVars == <<loading, since, missing, torn>>
snapshotVars == <<clock, versionVars, workVars, readVars, faults>>

Version == 1 .. MaxVersions
Keys == 1 .. Key
Fault == faults < MaxFaults /\ faults' = faults + 1

InitSnapshots ==
  /\ clock = 0 /\ versions = 0 /\ active = Nothing
  /\ stored = [v \in Version |-> {}]
  /\ remembered = [v \in Version |-> {}]
  /\ score = [v \in {} |-> 0]
  /\ lock = Nothing
  /\ pc = [w \in ServiceWorker |-> "idle"]
  /\ began = [w \in ServiceWorker |-> 0]
  /\ version = [w \in ServiceWorker |-> Nothing]
  /\ written = [w \in ServiceWorker |-> 0]
  /\ doomed = [w \in ServiceWorker |-> {}]
  /\ victims = [w \in ServiceWorker |-> {}]
  /\ loading = [c \in Loader |-> Nothing]
  /\ since = [c \in Loader |-> 0]
  /\ missing = [c \in Loader |-> {}]
  /\ torn = [c \in Loader |-> FALSE]
  /\ faults = 0

\* A function like f that maps x to y (ZADD).
Put(f, x, y) == [z \in DOMAIN f \cup {x} |-> IF z = x THEN y ELSE f[z]]

Turns(w, from, to) == pc[w] = from /\ pc' = [pc EXCEPT ![w] = to]

\* The coroutine of a worker ends, with its variables and its session.
EndTurn(w) ==
  /\ pc' = [pc EXCEPT ![w] = "idle"]
  /\ began' = [began EXCEPT ![w] = 0]
  /\ version' = [version EXCEPT ![w] = Nothing]
  /\ written' = [written EXCEPT ![w] = 0]
  /\ doomed' = [doomed EXCEPT ![w] = {}]
  /\ victims' = [victims EXCEPT ![w] = {}]
  /\ lock' = IF lock = w THEN Nothing ELSE lock

----------------------------------------------------------------------------
(* A projection, under the advisory lock (see Reconciler)                  *)

Begin(w) ==
  /\ Turns(w, "idle", "compare")
  /\ lock = Nothing /\ lock' = w
  /\ UNCHANGED <<clock, versionVars, began, version, written, doomed, victims, readVars, faults>>

\* The active version stays if its signature is that of the database.
Same(w) ==
  /\ pc[w] = "compare"
  /\ active # Nothing /\ 1 \in stored[active]
  /\ EndTurn(w)
  /\ UNCHANGED <<clock, versionVars, readVars, faults>>

\* Otherwise a new one gets its name and its time of creation ...
Create(w) ==
  /\ Turns(w, "compare", "register")
  /\ versions < MaxVersions /\ versions' = versions + 1
  /\ version' = [version EXCEPT ![w] = versions + 1]
  /\ began' = [began EXCEPT ![w] = clock]
  /\ written' = [written EXCEPT ![w] = 0]
  /\ UNCHANGED <<clock, active, stored, remembered, score, lock, doomed,
                 victims, readVars, faults>>

\* ... which is its first score ...
Register(w) ==
  /\ Turns(w, "register", "write")
  /\ score' = Put(score, version[w], began[w])
  /\ UNCHANGED <<clock, versions, active, stored, remembered, lock, began,
                 version, written, doomed, victims, readVars, faults>>

\* ... and is written by a pipeline: each key, and that the key exists.
WriteKey(v, n) == stored' = [stored EXCEPT ![v] = @ \cup {n}] /\ UNCHANGED remembered
RememberKey(v, n) == remembered' = [remembered EXCEPT ![v] = @ \cup {n}] /\ UNCHANGED stored

Commands(v, n) == IF n % 2 = 0 THEN WriteKey(v, (n + 2) \div 2)
                              ELSE RememberKey(v, (n + 1) \div 2)

Written(n) == n = 2 * Key

WriteKeys(w) ==
  /\ pc[w] = "write" /\ ~Written(written[w])
  /\ Commands(version[w], written[w])
  /\ written' = [written EXCEPT ![w] = @ + 1]
  /\ UNCHANGED <<clock, versions, active, score, lock, pc, began, version,
                 doomed, victims, readVars, faults>>

\* The version that is active gets a new score, the time of creation of the
\* one that replaces it.
Rescored(v, t) == IF v = Nothing THEN score ELSE Put(score, v, t)

Retire(w) ==
  /\ Written(written[w])
  /\ Turns(w, "write", "switch")
  /\ score' = Rescored(active, began[w])
  /\ UNCHANGED <<clock, versions, active, stored, remembered, lock, began,
                 version, written, doomed, victims, readVars, faults>>

Switch(w) ==
  /\ Turns(w, "switch", "expire")
  /\ active' = version[w]
  /\ UNCHANGED <<clock, versions, stored, remembered, score, lock, began, version,
                 written, doomed, victims, readVars, faults>>

----------------------------------------------------------------------------
(* Erasing, by a projection and by the cleanup                             *)

\* The cleanup preserves the active version it reads after it took the time.
CleanNow(w) ==
  /\ Turns(w, "idle", "clean")
  /\ began' = [began EXCEPT ![w] = clock]
  /\ UNCHANGED <<clock, versionVars, lock, version, written, doomed, victims, readVars, faults>>

Clean(w) ==
  /\ active # Nothing /\ Turns(w, "clean", "expire")
  /\ version' = [version EXCEPT ![w] = active]
  /\ UNCHANGED <<clock, versionVars, lock, began, written, doomed, victims, readVars, faults>>

CleanNothing(w) ==
  /\ pc[w] = "clean" /\ active = Nothing
  /\ EndTurn(w)
  /\ UNCHANGED <<clock, versionVars, readVars, faults>>

BugNothingPreserved(now, preserve) == {v \in DOMAIN score : score[v] + Grace <= now}
Expired(now, preserve) == {v \in DOMAIN score \ {preserve} : score[v] + Grace <= now}

Expire(w) ==
  /\ Turns(w, "expire", "erase")
  /\ doomed' = [doomed EXCEPT ![w] = Expired(began[w], version[w])]
  /\ UNCHANGED <<clock, versionVars, lock, began, version, written, victims, readVars, faults>>

\* A version is erased key by key, its set of keys last, then its score.
Erase(w, v) ==
  /\ Turns(w, "erase", "unlink")
  /\ v \in doomed[w]
  /\ version' = [version EXCEPT ![w] = v]
  /\ victims' = [victims EXCEPT ![w] = remembered[v]]
  /\ UNCHANGED <<clock, versionVars, lock, began, written, doomed, readVars, faults>>

UnlinkSet(v, S) ==
  IF S = {} THEN remembered' = [remembered EXCEPT ![v] = {}] ELSE UNCHANGED remembered

Unlink(w) ==
  /\ pc[w] = "unlink"
  /\ \/ \E k \in victims[w] :
          /\ stored' = [stored EXCEPT ![version[w]] = @ \ {k}]
          /\ victims' = [victims EXCEPT ![w] = @ \ {k}]
          /\ UnlinkSet(version[w], victims[w])
          /\ UNCHANGED pc
     \/ /\ victims[w] = {}
        /\ UnlinkSet(version[w], victims[w])
        /\ Turns(w, "unlink", "remove")
        /\ UNCHANGED <<stored, victims>>
  /\ UNCHANGED <<clock, versions, active, score, lock, began, version,
                 written, doomed, readVars, faults>>

Remove(w) ==
  /\ Turns(w, "remove", "erase")
  /\ score' = [v \in DOMAIN score \ {version[w]} |-> score[v]]
  /\ doomed' = [doomed EXCEPT ![w] = @ \ {version[w]}]
  /\ UNCHANGED <<clock, versions, active, stored, remembered, lock, began,
                 version, written, victims, readVars, faults>>

Done(w) ==
  /\ pc[w] = "erase" /\ doomed[w] = {}
  /\ EndTurn(w)
  /\ UNCHANGED <<clock, versionVars, readVars, faults>>

----------------------------------------------------------------------------

\* A command fails, or the process dies: what was done stays as it is.
CommandFails(w) ==
  /\ pc[w] # "idle" /\ Fault
  /\ EndTurn(w)
  /\ UNCHANGED <<clock, versionVars, readVars>>

(* A collector reads the pointer, and loads what it names: a missing key    *)
(* reads as an empty one.                                                   *)
Capture(c) ==
  /\ loading[c] = Nothing /\ active # Nothing
  /\ loading' = [loading EXCEPT ![c] = active]
  /\ since' = [since EXCEPT ![c] = clock]
  /\ missing' = [missing EXCEPT ![c] = Keys]
  /\ UNCHANGED <<clock, versionVars, workVars, torn, faults>>

Load(c) ==
  /\ loading[c] # Nothing
  /\ \/ \E k \in missing[c] :
          /\ missing' = [missing EXCEPT ![c] = @ \ {k}]
          /\ torn' = [torn EXCEPT ![c] = @ \/ k \notin stored[loading[c]]]
          /\ UNCHANGED <<loading, since>>
     \/ /\ missing[c] = {}
        /\ loading' = [loading EXCEPT ![c] = Nothing]
        /\ since' = [since EXCEPT ![c] = 0]
        /\ UNCHANGED <<missing, torn>>
  /\ UNCHANGED <<clock, versionVars, workVars, faults>>

\* A projection that has not switched yet, and a load, take a bounded time.
Projecting(w) == pc[w] \in {"register", "write", "switch"}

Elapse ==
  /\ clock < MaxClock
  /\ \A w \in ServiceWorker : Projecting(w) => clock < began[w] + MaxProjection
  /\ \A c \in Loader : loading[c] # Nothing => clock < since[c] + MaxRead
  /\ clock' = clock + 1
  /\ UNCHANGED <<versionVars, workVars, readVars, faults>>

NextSnapshots ==
  \/ Elapse
  \/ \E w \in ServiceWorker :
       \/ Begin(w) \/ Same(w) \/ Create(w) \/ Register(w) \/ WriteKeys(w) \/ Retire(w)
       \/ Switch(w) \/ CleanNow(w) \/ Clean(w) \/ CleanNothing(w) \/ Expire(w)
       \/ \E v \in doomed[w] : Erase(w, v)
       \/ Unlink(w) \/ Remove(w) \/ Done(w) \/ CommandFails(w)
  \/ \E c \in Loader : Capture(c) \/ Load(c)

SpecSnapshots == InitSnapshots /\ [][NextSnapshots]_snapshotVars

----------------------------------------------------------------------------

\* Types; and only a worker that erases has versions to erase.
VersionTypes ==
  /\ clock \in 0 .. MaxClock /\ versions \in 0 .. MaxVersions
  /\ active \in 0 .. versions
  /\ stored \in [Version -> SUBSET Keys] /\ remembered \in [Version -> SUBSET Keys]
  /\ DOMAIN score \subseteq 1 .. versions /\ \A v \in DOMAIN score : score[v] \in 0 .. clock
  /\ faults \in 0 .. MaxFaults

WorkTypes ==
  /\ lock \in ServiceWorker \cup {Nothing}
  /\ pc \in [ServiceWorker -> {"idle", "compare", "register", "write", "switch", "clean",
                        "expire", "erase", "unlink", "remove"}]
  /\ began \in [ServiceWorker -> 0 .. MaxClock] /\ version \in [ServiceWorker -> 0 .. MaxVersions]
  /\ written \in [ServiceWorker -> 0 .. 2 * Key]
  /\ doomed \in [ServiceWorker -> SUBSET Version] /\ victims \in [ServiceWorker -> SUBSET Keys]
  /\ \A w \in ServiceWorker : doomed[w] # {} => pc[w] \in {"erase", "unlink", "remove"}

ReadTypes ==
  /\ loading \in [Loader -> 0 .. MaxVersions] /\ since \in [Loader -> 0 .. MaxClock]
  /\ missing \in [Loader -> SUBSET Keys] /\ torn \in [Loader -> BOOLEAN]

SnapshotTypeOK == VersionTypes /\ WorkTypes /\ ReadTypes

\* "The version pointer is switched only after every readable key has been
\* written": whoever projects or cleans up, and wherever they fail, what the
\* pointer names is whole.
ActiveComplete == active # Nothing => stored[active] = Keys

\* By GraceIsLong, "its multi-key load cannot be torn down midway": a collector that read the
\* pointer loads all of the version it named, though it may be replaced, and
\* expired versions erased, in the meantime.
NoTornLoad == \A c \in Loader : ~torn[c]

\* Abandoned versions are not lost: a later cleanup will find every key,
\* except for one key for each failure in the middle of a pipeline.
Forgotten(v, k) == k \in stored[v] /\ (v \notin DOMAIN score \/ k \notin remembered[v])
Lost == {p \in Version \X Keys : Forgotten(p[1], p[2])}
InFlight == {w \in ServiceWorker : pc[w] = "write" /\ written[w] % 2 = 1}
LeaksAreFaults == Cardinality(Lost) <= faults + Cardinality(InFlight)

\* The active version is complete, nobody applies one of which a part is missing,
\* and what no version needs is leaked by failures only, however projections,
\* cleanups and loads interleave.
SnapshotSafety == SnapshotTypeOK /\ ActiveComplete /\ NoTornLoad /\ LeaksAreFaults
=============================================================================
