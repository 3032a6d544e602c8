----------------------------- MODULE EdgeStreams -----------------------------
(***************************************************************************)
(* The streams between the sessions of edge nodes and the projection of    *)
(* what the nodes send.  Every Service Worker has a stream of its own,     *)
(* named after its incarnation, and a lease on it: sessions append to it   *)
(* and the projector of the worker reads it as long as the lease is its    *)
(* own.  When the lease is gone another worker takes it with a token for   *)
(* recovery, projects what is left, what the dead worker had begun first,  *)
(* and removes the stream.                                                 *)
(*                                                                         *)
(* Leases expire by the clock of Redis.  That the holder is late with its  *)
(* heartbeat, a projection that fails, a crash and a stop are faults.  The *)
(* heartbeat runs beside the loop of the projector.  Every command to      *)
(* Redis is a step of its own.                                             *)
(***************************************************************************)
EXTENDS Integers, FiniteSets

NoWorker == "none"

CONSTANTS
  Incarnation,  \* workers, each of one start of a process
  Capacity,     \* length of a stream
  BatchSize,    \* entries of a stream that are read at once
  MaxAccepts,   \* bound on the messages of nodes
  MaxFaults

ASSUME EdgeStreamConstants ==
  /\ Capacity \in Nat \ {0} /\ BatchSize \in Nat \ {0}
  /\ MaxAccepts \in Nat /\ MaxFaults \in Nat
  /\ NoWorker \notin Incarnation

Entry == 1 .. MaxAccepts

VARIABLES
  \* Redis, by the incarnation a stream belongs to
  queue,      \* entries of the stream
  here,       \* streams that exist
  grouped,    \* streams with the group of the projectors
  taken,      \* pending entries, by consumer
  lease,      \* incarnation whose token is in the lease
  \* workers
  state,      \* "new", "up", "failed" (its lease is lost) or "down"
  loop,       \* where the loop of the projector is
  known,      \* deadStreams: streams it recovers
  held,       \* recoveryLeases_: leases its heartbeat renews
  gone,       \* lostRecoveryLeases_
  recovering, \* workers that read pending entries first
  due,        \* workers whose nextDiscovery and nextRecoverySweep have come:
              \* they look for dead streams and sweep those they have, then read
  \* history
  accepted,   \* by stream, what nodes have been told is accepted
  projected,
  overtaken,  \* streams in which a loop has passed over entries that are
              \* pending for another worker, or forgotten to read its own first
  faults

streamVars == <<queue, here, grouped, taken, lease>>
workerVars == <<state, loop, known, held, gone, recovering, due>>
edgeStreamVars ==
  <<streamVars, workerVars, accepted, projected, overtaken, faults>>

NoEntries == [i \in Incarnation |-> {}]
Loop(stage, i, batch) == [at |-> stage, on |-> i, batch |-> batch]
LoopAt(stage) == Loop(stage, NoWorker, NoEntries)

InitEdgeStreams ==
  /\ queue = NoEntries /\ here = {} /\ grouped = {}
  /\ taken = [i \in Incarnation |-> NoEntries]
  /\ lease = [i \in Incarnation |-> NoWorker]
  /\ state \in [Incarnation -> {"new", "down"}]
  /\ loop = [w \in Incarnation |-> LoopAt("start")]
  /\ known = NoEntries /\ held = NoEntries /\ gone = NoEntries
  /\ recovering = Incarnation /\ due = {}
  /\ accepted = NoEntries /\ projected = {} /\ overtaken = {}
  /\ faults = 0

Fault == faults < MaxFaults /\ faults' = faults + 1
Runs(w, stage) == state[w] = "up" /\ loop[w].at = stage
LoopIs(w, l) == loop' = [loop EXCEPT ![w] = l]
LoopGoes(w, stage) == LoopIs(w, LoopAt(stage))
Lacks(f, w, i) == [f EXCEPT ![w] = @ \ {i}]
Gains(f, w, i) == [f EXCEPT ![w] = @ \cup {i}]
Recovers(w) == recovering' = recovering \cup {w}

-----------------------------------------------------------------------------
\* Sessions.

Start(w) ==
  /\ state[w] = "new" /\ lease[w] = NoWorker
  /\ state' = [state EXCEPT ![w] = "up"] /\ lease' = [lease EXCEPT ![w] = w]
  /\ here' = here \cup {w} /\ grouped' = grouped \cup {w}
  /\ UNCHANGED <<queue, taken, loop, known, held, gone, recovering, due,
                 accepted, projected, overtaken, faults>>

AcceptedBy(i) == UNION {accepted[j] : j \in i}

\* publishIngress: the node is told that its message is accepted only if the
\* worker still has its lease and the stream is not full.
AcceptMessage(w) ==
  /\ state[w] \in {"up", "failed"} /\ lease[w] = w
  /\ Cardinality(queue[w]) < Capacity
  /\ \E e \in Entry :
       /\ e = Cardinality(AcceptedBy(Incarnation)) + 1
       /\ queue' = Gains(queue, w, e) /\ accepted' = Gains(accepted, w, e)
  /\ here' = here \cup {w}
  /\ UNCHANGED <<grouped, taken, lease, workerVars, projected, overtaken,
                 faults>>

-----------------------------------------------------------------------------
\* Leases.

\* A lease outlives three heartbeats: it expires when its holder is down, or
\* late.
ExpireLease(i) ==
  /\ lease[i] # NoWorker /\ lease' = [lease EXCEPT ![i] = NoWorker]
  /\ IF state[lease[i]] = "down" THEN UNCHANGED faults ELSE Fault
  /\ UNCHANGED <<queue, here, grouped, taken, workerVars, accepted, projected,
                 overtaken>>

\* markLeaseLost
Fail(w) == state' = [state EXCEPT ![w] = "failed"]

\* maintainLeases, when something is lost.
BeatOwn(w) ==
  /\ state[w] = "up" /\ lease[w] # w /\ Fail(w)
  /\ UNCHANGED <<streamVars, loop, known, held, gone, recovering, due, accepted,
                 projected, overtaken, faults>>

BeatRecovery(w, i) ==
  /\ state[w] = "up" /\ i \in held[w] /\ lease[i] # w
  /\ held' = Lacks(held, w, i) /\ gone' = Gains(gone, w, i)
  /\ UNCHANGED <<streamVars, state, loop, known, recovering, due, accepted,
                 projected, overtaken, faults>>

\* The loop ends and releases the leases it renews.
Leaves(w) ==
  /\ state' = [state EXCEPT ![w] = "down"] /\ LoopGoes(w, "start")
  /\ known' = [known EXCEPT ![w] = {}] /\ held' = [held EXCEPT ![w] = {}]
  /\ gone' = [gone EXCEPT ![w] = {}] /\ due' = due \ {w}
  /\ UNCHANGED <<queue, here, grouped, taken, recovering, accepted, projected,
                 overtaken>>

Release(w) ==
  lease' = [i \in Incarnation |->
              IF lease[i] = w /\ i \in held[w] \cup {w}
              THEN NoWorker ELSE lease[i]]

Finish(w) == state[w] = "failed" /\ Leaves(w) /\ Release(w) /\ UNCHANGED faults
LoopStops(w) == Runs(w, "start") /\ Fault /\ Leaves(w) /\ Release(w)
WorkerDies(w) ==
  state[w] \in {"up", "failed"} /\ Fault /\ Leaves(w) /\ UNCHANGED lease

-----------------------------------------------------------------------------
\* EdgeProjectionRuntime::run: the streams it reads.

BeginPass(w) ==
  /\ Runs(w, "start") /\ LoopGoes(w, "look")
  /\ known' = [known EXCEPT ![w] = @ \ gone[w]]
  /\ held' = [held EXCEPT ![w] = @ \ (known[w] \cap gone[w])]
  /\ gone' = [gone EXCEPT ![w] = {}]
  /\ IF known[w] \cap gone[w] # {} THEN Recovers(w) ELSE UNCHANGED recovering
  /\ UNCHANGED <<streamVars, state, due, accepted, projected, overtaken,
                 faults>>

\* For the history: entries are pending for nobody else.
OnlyTakenBy(i, w) == \A v \in Incarnation \ {w} : taken[i][v] = {}

\* discoverDeadStreams, for one of the streams: the lease is taken when there is
\* none, and a stream whose lease is another's is left alone.
Recoverable(w, i) == i \in here /\ lease[i] \in {NoWorker, w}

Discovers(w, i) ==
  /\ i # w
  /\ IF Recoverable(w, i)
     THEN i \notin known[w] \/ lease[i] = NoWorker
     ELSE i \in known[w]

Discover(w, i) ==
  /\ Runs(w, "look") /\ Discovers(w, i)
  /\ IF Recoverable(w, i)
     THEN /\ lease' = [lease EXCEPT ![i] = w]
          /\ IF i \in known[w]
             THEN /\ UNCHANGED loop
                  /\ overtaken' =
                       overtaken \cup {j \in {i} : ~OnlyTakenBy(j, w)}
             ELSE /\ LoopIs(w, Loop("adopt", i, NoEntries))
                  /\ UNCHANGED overtaken
          /\ UNCHANGED <<known, held, recovering>>
     ELSE /\ known' = Lacks(known, w, i)
          /\ held' = Lacks(held, w, i) /\ Recovers(w)
          /\ UNCHANGED <<lease, loop, overtaken>>
  /\ UNCHANGED <<queue, here, grouped, taken, state, gone, due, accepted,
                 projected, faults>>

\* A stream that is gone is not created again; a lease that is lost meanwhile is
\* not taken.
Adopt(w) ==
  /\ Runs(w, "adopt") /\ LoopGoes(w, "look")
  /\ LET i == loop[w].on IN
     IF i \notin here
     THEN /\ lease' = [lease EXCEPT ![i] = IF @ = w THEN NoWorker ELSE @]
          /\ UNCHANGED <<grouped, known, held, recovering, due>>
     ELSE /\ grouped' = grouped \cup {i} /\ UNCHANGED lease
          /\ IF lease[i] = w
             THEN /\ known' = Gains(known, w, i) /\ held' = Gains(held, w, i)
                  /\ Recovers(w) /\ due' = due \cup {w}
             ELSE UNCHANGED <<known, held, recovering, due>>
  /\ UNCHANGED <<queue, here, taken, state, gone, accepted, projected,
                 overtaken, faults>>

-----------------------------------------------------------------------------
\* What it reads.  A worker reads its own stream and those it recovers.

Streams(w) == known[w] \cup {w}
Pending(i) == UNION {taken[i][v] : v \in Incarnation}
Unread(i) == queue[i] \ Pending(i)

\* What a command returns of a stream.
First(S) == {e \in S : Cardinality({f \in S : f < e}) < BatchSize}
Own(w, S) == [i \in Incarnation |-> IF i \in S THEN First(taken[i][w]) ELSE {}]

BugClaimsNothing(S) == NoEntries

Claimed(S) == [i \in Incarnation |-> IF i \in S THEN First(Pending(i)) ELSE {}]
Fresh(S) == [i \in Incarnation |-> IF i \in S THEN First(Unread(i)) ELSE {}]

\* The first of the readings that finds something.
OrElse(a, b) == IF a # NoEntries THEN a ELSE b

\* With a sweep, pending entries of the streams it recovers come first, its own
\* and then those of others.  Pending entries come before new ones when it is
\* recovering, and instead of none when it is not.
ReadFirst(w, sweep) ==
  LET own == Own(w, Streams(w))
      usual == IF w \in recovering THEN own ELSE OrElse(Fresh(Streams(w)), own)
  IN IF sweep
     THEN OrElse(OrElse(Own(w, known[w]), Claimed(known[w])), usual)
     ELSE usual

\* For the history: a sweep ends with the worker's own entries, or a loop that
\* has lost its lease takes entries and leaves newer ones.
PassesOver(w, sweep, batch) ==
  {i \in Incarnation :
     \/ /\ sweep /\ i \in known[w]
        /\ Own(w, known[w]) # NoEntries /\ ~OnlyTakenBy(i, w)
     \/ /\ lease[i] # w
        /\ ~(batch[i] \subseteq taken[i][w]) /\ ~(Unread(i) \subseteq batch[i])}

Take(w, batch) ==
  taken' = [i \in Incarnation |-> [v \in Incarnation |->
              IF v = w THEN taken[i][v] \cup batch[i]
              ELSE taken[i][v] \ batch[i]]]

Read(w, sweep) ==
  /\ Runs(w, "look") /\ Streams(w) \subseteq grouped
  /\ sweep => known[w] # {}
  /\ w \in due => /\ known[w] # {} => sweep
                  /\ \A i \in Incarnation : ~Discovers(w, i)
  /\ due' = due \ {w}
  /\ LET batch == ReadFirst(w, sweep) IN
     IF batch # NoEntries
     THEN /\ Take(w, batch)
          /\ LoopIs(w, Loop("work", NoWorker, batch))
          /\ overtaken' = overtaken \cup PassesOver(w, sweep, batch)
          /\ UNCHANGED recovering
     ELSE /\ LoopGoes(w, "idle") /\ UNCHANGED <<taken, overtaken>>
          /\ recovering' = recovering \ {w}
  /\ UNCHANGED <<queue, here, grouped, lease, state, known, held, gone,
                 accepted, projected, faults>>

\* A stream has no group: streams that are gone are overtaken, its own is made
\* again.  The loop goes on as if it had found nothing.
ReadFails(w) ==
  /\ Runs(w, "look") /\ ~(Streams(w) \subseteq grouped)
  /\ here' = here \cup {w}
  /\ grouped' = grouped \cup {w} \cup (known[w] \cap here)
  /\ known' = [known EXCEPT ![w] = @ \cap here]
  /\ held' = [held EXCEPT ![w] = @ \ (known[w] \ here)]
  /\ LoopGoes(w, "idle") /\ recovering' = recovering \ {w}
  /\ overtaken' = overtaken \cup {i \in Streams(w) : taken[i][w] # {}}
  /\ due' = due \cup {v \in {w} : ~(known[w] \subseteq here)}
  /\ UNCHANGED <<queue, taken, lease, state, gone, accepted, projected, faults>>

BugErasesUnread(i) == Pending(i) = {}

\* eraseDeadStream: nothing is in the stream.
IsEmpty(i) == queue[i] = {}

Erasable(w, i) == i \in known[w] /\ lease[i] = w /\ IsEmpty(i)

EraseDead(w, i) ==
  /\ Runs(w, "idle") /\ Erasable(w, i)
  /\ here' = here \ {i} /\ grouped' = grouped \ {i}
  /\ queue' = [queue EXCEPT ![i] = {}]
  /\ taken' = [taken EXCEPT ![i] = NoEntries]
  /\ lease' = [lease EXCEPT ![i] = NoWorker]
  /\ known' = Lacks(known, w, i) /\ held' = Lacks(held, w, i)
  /\ UNCHANGED <<state, loop, gone, recovering, due, accepted, projected,
                 overtaken, faults>>

Wait(w) ==
  /\ Runs(w, "idle") /\ \A i \in Incarnation : ~Erasable(w, i)
  /\ LoopGoes(w, "start")
  /\ UNCHANGED <<streamVars, state, known, held, gone, recovering, due,
                 accepted, projected, overtaken, faults>>

-----------------------------------------------------------------------------
\* What it does with a batch, stream by stream.

\* The lease of a stream is lost: the rest of what was read stays pending.
LosesLease(w, i) ==
  /\ LoopGoes(w, "start")
  /\ IF i = w THEN Fail(w) /\ UNCHANGED <<gone, recovering>>
     ELSE gone' = Gains(gone, w, i) /\ Recovers(w) /\ UNCHANGED state

CheckLease(w, i) ==
  /\ Runs(w, "work") /\ loop[w].batch[i] # {}
  /\ IF lease[i] = w
     THEN /\ LoopIs(w, Loop("project", i, loop[w].batch))
          /\ UNCHANGED <<state, gone, recovering>>
     ELSE LosesLease(w, i)
  /\ UNCHANGED <<streamVars, known, held, due, accepted, projected, overtaken,
                 faults>>

ProjectBatch(w) ==
  /\ Runs(w, "project")
  /\ \/ /\ projected' = projected \cup loop[w].batch[loop[w].on]
        /\ LoopIs(w, Loop("acknowledge", loop[w].on, loop[w].batch))
        /\ UNCHANGED <<recovering, faults>>
     \/ /\ Fault /\ Recovers(w) /\ LoopGoes(w, "start")
        /\ \E e \in {0} \cup loop[w].batch[loop[w].on] :
             projected' =
               projected \cup {f \in loop[w].batch[loop[w].on] : f <= e}
  /\ UNCHANGED <<streamVars, state, known, held, gone, due, accepted,
                 overtaken>>

\* acknowledgeAndDeleteFenced
AcknowledgeBatch(w) ==
  /\ Runs(w, "acknowledge")
  /\ LET i == loop[w].on
         left == [loop[w].batch EXCEPT ![i] = {}]
     IN IF lease[i] = w
        THEN /\ queue' = [queue EXCEPT ![i] = @ \ loop[w].batch[i]]
             /\ taken' = [taken EXCEPT ![i] =
                  [v \in Incarnation |-> @[v] \ loop[w].batch[i]]]
             /\ LoopIs(w, IF left = NoEntries THEN LoopAt("start")
                          ELSE Loop("work", NoWorker, left))
             /\ UNCHANGED <<state, gone, recovering>>
        ELSE LosesLease(w, i) /\ UNCHANGED <<queue, taken>>
  /\ UNCHANGED <<here, grouped, lease, known, held, due, accepted, projected,
                 overtaken, faults>>

-----------------------------------------------------------------------------
\* Nodes send, leases expire and workers fail independently of the loops.

\* Discoveries come every 5 s and sweeps every second.
TimePasses(w) ==
  /\ state[w] = "up" /\ w \notin due
  /\ \E i \in Incarnation : i \in known[w] \/ Discovers(w, i)
  /\ due' = due \cup {w}
  /\ UNCHANGED <<streamVars, state, loop, known, held, gone, recovering,
                 accepted, projected, overtaken, faults>>

LoopStep(w) ==
  \/ BeginPass(w) \/ Adopt(w) \/ ReadFails(w) \/ Wait(w)
  \/ ProjectBatch(w) \/ AcknowledgeBatch(w)
  \/ \E sweep \in BOOLEAN : Read(w, sweep)
  \/ \E i \in Incarnation :
       Discover(w, i) \/ EraseDead(w, i) \/ CheckLease(w, i)

Beat(w) ==
  BeatOwn(w) \/ Finish(w) \/ (\E i \in Incarnation : BeatRecovery(w, i))

NextEdgeStreams ==
  \E w \in Incarnation :
    \/ Start(w) \/ AcceptMessage(w) \/ LoopStep(w) \/ Beat(w)
    \/ TimePasses(w) \/ LoopStops(w) \/ WorkerDies(w) \/ ExpireLease(w)

\* The loop and the heartbeat go on, time passes, and the leases of those that
\* are down expire.
EdgeStreamFairness ==
  \A w \in Incarnation :
    /\ WF_edgeStreamVars(LoopStep(w)) /\ WF_edgeStreamVars(Beat(w))
    /\ WF_edgeStreamVars(TimePasses(w))
    /\ WF_edgeStreamVars(ExpireLease(w) /\ UNCHANGED faults)

SpecEdgeStreams == InitEdgeStreams /\ [][NextEdgeStreams]_edgeStreamVars

-----------------------------------------------------------------------------
\* Properties.

EdgeStreamTypeOK ==
  /\ queue \in [Incarnation -> SUBSET Entry]
  /\ grouped \subseteq here /\ here \subseteq Incarnation
  /\ taken \in [Incarnation -> [Incarnation -> SUBSET Entry]]
  /\ \A i, w \in Incarnation : taken[i][w] \subseteq queue[i]
  /\ lease \in [Incarnation -> Incarnation \cup {NoWorker}]
  /\ state \in [Incarnation -> {"new", "up", "failed", "down"}]
  /\ {known, held, gone} \subseteq [Incarnation -> SUBSET Incarnation]
  /\ recovering \subseteq Incarnation /\ due \subseteq Incarnation
  /\ accepted \in [Incarnation -> SUBSET Entry] /\ projected \subseteq Entry
  /\ overtaken \subseteq Incarnation
  /\ faults \in 0 .. MaxFaults

\* What a node has been told is accepted is in the stream until it has been
\* projected, whoever reads and removes the stream.
NothingLost ==
  \A i \in Incarnation : accepted[i] \subseteq projected \cup queue[i]

\* Messages of a stream are first projected in the order they were accepted in,
\* though projections fail, workers die, and those that have lost a lease go on
\* reading.  The exceptions take several faults: a loop that was to read pending
\* entries first forgets it when a stream it also reads has been removed; a
\* sweep that finds entries of the loop itself leaves those of others for the
\* next one; a lease is lost and retaken without another sweep; and a loop
\* without lease takes the first of more new entries than one reading returns.
InOrder ==
  \A i \in Incarnation \ overtaken : \A e, f \in accepted[i] :
    e < f /\ f \in projected => e \in projected

EdgeStreamSafety == EdgeStreamTypeOK /\ NothingLost /\ InOrder

\* As long as one worker runs, everything accepted is projected in the end and
\* the streams of those that are down are removed.
EdgeStreamsEmpty ==
  []<>( /\ AcceptedBy(Incarnation) \subseteq projected
        /\ \A i \in here : state[i] = "up" )
=============================================================================
