----------------------------- MODULE EdgeConfig -----------------------------
(***************************************************************************)
(* The configuration of an edge node.  Every change of the devices of a    *)
(* node raises the revision that is desired for it, builds a snapshot of   *)
(* everything the node has to know, and replaces the queue in Redis the    *)
(* session of the node is to send.  A wire popped from the queue may be    *)
(* lost with its connection, a snapshot may not be built or queued at all: *)
(* the node reports the revision it runs in every heartbeat, and the       *)
(* session builds the desired one again if the node is behind.             *)
(*                                                                         *)
(* Editors and sessions build snapshots at the same time, each statement   *)
(* and each script a step of its own.  What the node sends is projected    *)
(* from the stream of the worker it was connected to, which may be late.   *)
(* One node is modelled.  A snapshot is two wires: "begin", which stands   *)
(* for the items as well, and "commit".  The node (not part of the         *)
(* repository) installs a snapshot that is complete; it answers a commit   *)
(* with what has become of it.  A connection is accepted in several steps, *)
(* and goes on being accepted when the node has given it up and made       *)
(* another.                                                                *)
(***************************************************************************)
EXTENDS Integers, Sequences, FiniteSets

CONSTANTS
  Editor,     \* requests that change devices of the node
  Sessions,   \* number of connections the node makes
  MaxEdits,   \* bound on changes
  MaxClock,   \* bound on the clock revisions are taken from
  MaxLosses   \* bound on crashes, broken connections and failing commands

ASSUME EdgeConfigConstants ==
  /\ Sessions \in Nat \ {0} /\ MaxEdits \in Nat /\ MaxClock \in Nat
  /\ MaxLosses \in Nat

Session == 1 .. Sessions
NoSession == 0

\* Those that build snapshots: requests, sessions, and the worker of each session
\* when it projects a report of the node.
Projector(s) == Sessions + s
Replayer == 1 .. 2 * Sessions
Builder == Editor \cup Replayer
Revision == 0 .. MaxClock + MaxEdits
NoWire == [kind |-> "none", rev |-> 0, content |-> 0]
NoJob == [at |-> "none", rev |-> 0, content |-> 0, state |-> "none"]

VARIABLES
  \* PostgreSQL
  content,    \* what the devices are configured as: the number of changes
  config,     \* status.config of the node
  recorded,   \* revisions in the table of revisions
  supported,  \* the node has declared the protocols its devices need
  clock,      \* the last clock_timestamp() a revision was taken from
  \* Redis
  wires,      \* the queue of the node
  fence,      \* revision of the queue
  holder,     \* the session key
  incoming,   \* what each session has put into the stream of its worker
  \* workers
  job,        \* snapshots that editors and sessions build
  uplink,     \* sessions
  \* the node
  link,       \* the session it is connected by
  staged,     \* the snapshot it is being sent
  installed,  \* the snapshot it runs
  answer,     \* what it has to say about the last commit
  \* history
  promised,   \* by revision, what was configured when it was chosen
  claimant,   \* the session that was the last to claim the key
  lowered,    \* two editors have chosen at once and the smaller revision won
  returned,   \* sessions that have put a wire back into the queue
  losses

rowVars    == <<content, config, recorded, supported, clock>>
queueVars  == <<wires, fence>>
nodeVars   == <<link, staged, installed, answer>>
pastVars   == <<promised, claimant, lowered, returned, losses>>
edgeConfigVars ==
  <<rowVars, queueVars, holder, incoming, job, uplink, nodeVars, pastVars>>

InitEdgeConfig ==
  /\ content = 0 /\ config = [desired |-> 0, active |-> 0, state |-> "idle"]
  /\ recorded = {} /\ supported \in BOOLEAN /\ clock = 1
  /\ wires = <<>> /\ fence = 0 /\ holder = NoSession
  /\ incoming = [s \in Session |-> <<>>]
  /\ job = [j \in Builder |-> NoJob]
  /\ uplink = [s \in Session |->
                  [state |-> "new", seen |-> FALSE, flush |-> FALSE, hand |-> NoWire,
                   rest |-> NoWire]]
  /\ link = NoSession /\ staged = NoWire /\ answer = NoWire
  /\ installed = [rev |-> 0, content |-> 0]
  /\ promised = [r \in Revision |-> 0] /\ lowered = FALSE /\ claimant = NoSession
  /\ returned = {} /\ losses = 0

Lost == losses < MaxLosses /\ losses' = losses + 1
IsOpen(s) == s # NoSession /\ uplink[s].state = "open"
Flushed(s) ==
  IF IsOpen(s) THEN [uplink EXCEPT ![s].flush = TRUE] ELSE uplink
Larger(a, b) == IF a > b THEN a ELSE b

-----------------------------------------------------------------------------
\* Building a snapshot: queueSnapshot and requeueIfStale.

At(j, stage) == job[j].at = stage
To(j, stage) == job' = [job EXCEPT ![j].at = stage]

\* When a session has ended its job it looks at the queues (requestFlush).
EndJob(j) ==
  /\ job' = [job EXCEPT ![j] = NoJob]
  /\ uplink' = IF j \in Session THEN Flushed(j) ELSE uplink

Edit(e) ==
  /\ At(e, "none") /\ content < MaxEdits
  /\ content' = content + 1 /\ To(e, "choose")
  /\ UNCHANGED <<config, recorded, supported, clock, queueVars, holder,
                 incoming, uplink, nodeVars, pastVars>>

\* queueSnapshotQuery chooses the revision from the row it sees when it begins,
\* and writes it when it has got the lock of the row.
Choose(e) ==
  /\ At(e, "choose") /\ clock' \in clock .. MaxClock
  /\ LET r == Larger(clock', Larger(config.desired, config.active) + 1) IN
     /\ job' = [job EXCEPT ![e].at = "raise", ![e].rev = r]
     /\ promised' = [promised EXCEPT ![r] = content]
  /\ UNCHANGED <<content, config, recorded, supported, queueVars, holder,
                 incoming, uplink, nodeVars, claimant, lowered, returned, losses>>

Raise(e) ==
  /\ At(e, "raise") /\ To(e, "build")
  /\ config' = [config EXCEPT !.desired = job[e].rev, !.state = "pending"]
  /\ lowered' = (lowered \/ config.desired > job[e].rev)
  /\ UNCHANGED <<content, recorded, supported, clock, queueVars, holder,
                 incoming, uplink, nodeVars, promised, claimant, returned, losses>>

BugReplaysUnlessPending(desired, active, state) ==
  desired > active /\ state \in {"idle", "applied", "unsupported"}

\* needsConfigurationReplay: what the node has rejected, or has too many items, is
\* not sent again; what needs a protocol the node has not declared is built again.
NeedsReplay(desired, active, state) == desired > active /\ state # "rejected"

\* In a session what the node reports counts, not the row.
ActiveFor(j) == IF j \in Session THEN job[j].rev ELSE config.active

Look(j) ==
  /\ At(j, "look")
  /\ IF NeedsReplay(config.desired, ActiveFor(j), config.state)
     THEN /\ job' = [job EXCEPT ![j] = [at |-> "build", rev |-> config.desired,
                                        content |-> 0, state |-> config.state]]
          /\ UNCHANGED uplink
     ELSE EndJob(j)
  /\ UNCHANGED <<rowVars, queueVars, holder, incoming, nodeVars, pastVars>>

\* buildSnapshot, which refuses a protocol the node has not declared and more than
\* 512 items.
Build(j) ==
  /\ At(j, "build")
  /\ \/ /\ supported
        /\ job' = [job EXCEPT ![j].content = content,
                              ![j].at = IF j \in Editor THEN "record" ELSE "claim"]
     \/ supported /\ To(j, "rejected")
     \/ ~supported /\ To(j, "unsupported")
  /\ UNCHANGED <<rowVars, queueVars, holder, incoming, uplink, nodeVars,
                 pastVars>>

BugAnyRevision(r) == TRUE

\* The row is about the desired revision only.
IsDesired(r) == r = config.desired

\* rejectBuild: the row says why (in the code, by the message of the rejection).
Refuse(j) ==
  /\ EndJob(j)
  /\ \E why \in {"rejected", "unsupported"} :
       /\ At(j, why)
       /\ config' = IF IsDesired(job[j].rev) THEN [config EXCEPT !.state = why]
                    ELSE config
  /\ UNCHANGED <<content, recorded, supported, clock, queueVars, holder,
                 incoming, nodeVars, pastVars>>

\* requeuePendingQuery: nothing has changed since the session looked.
ClaimReplay(j) ==
  /\ At(j, "claim")
  /\ IF IsDesired(job[j].rev) /\ config.state = job[j].state
     THEN /\ config' = [config EXCEPT !.state = "pending"]
          /\ To(j, "record") /\ UNCHANGED uplink
     ELSE EndJob(j) /\ UNCHANGED config
  /\ UNCHANGED <<content, recorded, supported, clock, queueVars, holder,
                 incoming, nodeVars, pastVars>>

\* An editor inserts the revision and fails if it is there; a session updates it.
RecordRevision(j) ==
  /\ At(j, "record")
  /\ IF j \in Editor /\ job[j].rev \in recorded
     THEN EndJob(j) /\ UNCHANGED recorded
     ELSE /\ recorded' = recorded \cup {job[j].rev}
          /\ To(j, "queue") /\ UNCHANGED uplink
  /\ UNCHANGED <<content, config, supported, clock, queueVars, holder, incoming,
                 nodeVars, pastVars>>

BugReplacesAny(r) == FALSE

\* kReplaceQueueScript: a queue is not replaced by an earlier revision.
IsLater(r) == fence > r

ReplaceQueue(j) ==
  /\ At(j, "queue") /\ To(j, "notify")
  /\ IF IsLater(job[j].rev)
     THEN UNCHANGED queueVars
     ELSE LET Wire(kind) == [kind |-> kind, rev |-> job[j].rev,
                             content |-> job[j].content] IN
          /\ wires' = <<Wire("begin"), Wire("commit")>>
          /\ fence' = job[j].rev
  /\ UNCHANGED <<rowVars, holder, incoming, uplink, nodeVars, pastVars>>

\* notifyNode: the session the key names is woken.
NotifyNode(j) ==
  /\ At(j, "notify") /\ job' = [job EXCEPT ![j] = NoJob]
  /\ uplink' = [s \in Session |->
       IF IsOpen(s) /\ s \in {holder, j}
       THEN [uplink[s] EXCEPT !.flush = TRUE] ELSE uplink[s]]
  /\ UNCHANGED <<rowVars, queueVars, holder, incoming, nodeVars, pastVars>>

\* A statement fails, and so does the request; a worker projects the report again.
JobFails(j) ==
  /\ ~At(j, "none") /\ j \notin Session /\ Lost
  /\ job' = [job EXCEPT ![j] = IF j \in Editor THEN NoJob
                               ELSE [NoJob EXCEPT !.at = "look"]]
  /\ UNCHANGED <<rowVars, queueVars, holder, incoming, uplink, nodeVars,
                 promised, claimant, lowered, returned>>

-----------------------------------------------------------------------------
\* Sessions: EdgeGatewayController::connect.

StateOf(s, S) == uplink[s].state \in S
Publish(s, m) == incoming' = [incoming EXCEPT ![s] = Append(@, m)]

\* The node connects and says hello; the session has the message at hand.
Dial(s) ==
  /\ link = NoSession /\ StateOf(s, {"new"})
  /\ \A t \in Session : t < s => ~StateOf(t, {"new"})
  /\ link' = s
  /\ uplink' = [uplink EXCEPT ![s].state = "hello",
       ![s].rest = [kind |-> "hello", rev |-> installed.rev, content |-> 0]]
  /\ UNCHANGED <<rowVars, queueVars, holder, incoming, job, staged, installed,
                 answer, pastVars>>

\* The hello is in the stream before the enrollment is read and the key is claimed.
PublishHello(s) ==
  /\ StateOf(s, {"hello"}) /\ Publish(s, uplink[s].rest)
  /\ uplink' = [uplink EXCEPT ![s].state = "claim", ![s].rest = NoWire]
  /\ UNCHANGED <<rowVars, queueVars, holder, job, nodeVars, pastVars>>

\* kClaimScript takes the key whoever has it: also for a connection that the node
\* has given up, from the session it has connected to instead.
ClaimSession(s) ==
  /\ StateOf(s, {"claim"}) /\ holder' = s /\ claimant' = s
  /\ uplink' = [uplink EXCEPT ![s].state = "greet"]
  /\ UNCHANGED <<rowVars, queueVars, incoming, job, nodeVars, promised, lowered,
                 returned, losses>>

\* The acknowledgement of the hello; a session begins with a look at the queues.
\* One that cannot write it to a connection the node has given up ends, and leaves
\* the key.
Greet(s) ==
  /\ StateOf(s, {"greet"})
  /\ \/ uplink' = [uplink EXCEPT ![s].state = "open", ![s].flush = TRUE]
     \/ link # s /\ uplink' = [uplink EXCEPT ![s].state = "closed"]
  /\ UNCHANGED <<rowVars, queueVars, holder, incoming, job, nodeVars, pastVars>>

\* The node gives up a connection; the session does not know, and may have a
\* message it has not read yet.  The node sends none before it is greeted.
BreakLink ==
  /\ link # NoSession /\ Lost
  /\ link' = NoSession /\ answer' = NoWire
  /\ IF IsOpen(link)
     THEN \E m \in {answer, NoWire} : uplink' = [uplink EXCEPT ![link].rest = m]
     ELSE UNCHANGED uplink
  /\ UNCHANGED <<rowVars, queueVars, holder, incoming, job, staged, installed,
                 promised, claimant, lowered, returned>>

Disconnects(s) ==
  /\ link' = IF link = s THEN NoSession ELSE link
  /\ answer' = IF link = s THEN NoWire ELSE answer

BugReleasesAny(s) == NoSession

\* kReleaseScript: a session releases the key if it is still its own.
Released(s) == IF holder = s THEN NoSession ELSE holder

Becomes(s, state) ==
  [uplink EXCEPT ![s].state = state, ![s].flush = FALSE, ![s].hand = NoWire,
                 ![s].rest = NoWire]

\* A wire that cannot be sent goes back to the queue, which may have been
\* replaced; the session takes no other.
ReturnWire(s) ==
  /\ StateOf(s, {"open", "failed"}) /\ link # s
  /\ uplink[s].hand # NoWire
  /\ uplink' = Becomes(s, "failed") /\ wires' = <<uplink[s].hand>> \o wires
  /\ returned' = returned \cup {s}
  /\ UNCHANGED <<rowVars, fence, holder, incoming, job, nodeVars, promised,
                 claimant, lowered, losses>>

\* A session ends when what it was doing is done.
EndSession(s) ==
  /\ StateOf(s, {"open", "failed"}) /\ link # s /\ At(s, "none")
  /\ uplink[s].hand = NoWire /\ uplink' = Becomes(s, "closed")
  /\ holder' = Released(s)
  /\ UNCHANGED <<rowVars, queueVars, incoming, job, nodeVars, pastVars>>

\* A worker that has lost its lease accepts no connection.
TurnAway(s) ==
  /\ StateOf(s, {"hello", "greet"}) /\ Lost
  /\ uplink' = Becomes(s, "closed") /\ holder' = Released(s) /\ Disconnects(s)
  /\ UNCHANGED <<rowVars, queueVars, incoming, job, staged, installed, promised,
                 claimant, lowered, returned>>

\* The next message of the node, or the next refresh, finds that the key is not the
\* session's own: the message is dropped and the connection closed.
LoseKey(s) ==
  /\ IsOpen(s) /\ holder # s /\ Disconnects(s)
  /\ uplink' = [Becomes(s, "failed") EXCEPT ![s].hand = uplink[s].hand]
  /\ UNCHANGED <<rowVars, queueVars, holder, incoming, job, staged, installed,
                 pastVars>>

\* Its process dies, with the wire that was being sent, or accepting it fails.
SessionDies(s) ==
  /\ ~StateOf(s, {"new", "closed"}) /\ Lost /\ Disconnects(s)
  /\ uplink' = Becomes(s, "closed") /\ job' = [job EXCEPT ![s] = NoJob]
  /\ UNCHANGED <<rowVars, queueVars, holder, incoming, staged, installed,
                 promised, claimant, lowered, returned>>

HolderExpires ==
  /\ holder # NoSession /\ uplink[holder].state = "closed" /\ holder' = NoSession
  /\ UNCHANGED <<rowVars, queueVars, incoming, job, uplink, nodeVars, pastVars>>

\* drainKey.
PopWire(s) ==
  /\ IsOpen(s) /\ uplink[s].flush /\ uplink[s].hand = NoWire /\ wires # <<>>
  /\ wires' = Tail(wires)
  /\ uplink' = [uplink EXCEPT ![s].hand = Head(wires)]
  /\ UNCHANGED <<rowVars, fence, holder, incoming, job, nodeVars, pastVars>>

Drained(s) ==
  /\ IsOpen(s) /\ uplink[s].flush /\ uplink[s].hand = NoWire /\ wires = <<>>
  /\ uplink' = [uplink EXCEPT ![s].flush = FALSE]
  /\ UNCHANGED <<rowVars, queueVars, holder, incoming, job, nodeVars, pastVars>>

\* The node begins again with every "begin" and installs what it has complete.
Install(w) ==
  /\ staged = [w EXCEPT !.kind = "begin"]
  /\ installed' = [rev |-> w.rev, content |-> w.content]
  /\ answer' = [w EXCEPT !.kind = "applied"]

Receive(w) ==
  \/ w.kind = "begin" /\ staged' = w /\ UNCHANGED <<installed, answer>>
  \/ /\ w.kind = "commit" /\ answer = NoWire /\ staged' = NoWire
     /\ \/ Install(w)
        \/ answer' = [w EXCEPT !.kind = "rejected"] /\ UNCHANGED installed
        \/ staged # [w EXCEPT !.kind = "begin"] /\ UNCHANGED <<installed,
                                                               answer>>

\* What is written to a connection the node has given up is lost.
SendWire(s) ==
  /\ IsOpen(s) /\ uplink[s].hand # NoWire
  /\ uplink' = [uplink EXCEPT ![s].hand = NoWire]
  /\ IF link = s THEN Receive(uplink[s].hand)
     ELSE UNCHANGED <<staged, installed, answer>>
  /\ UNCHANGED <<rowVars, queueVars, holder, incoming, job, link, pastVars>>

-----------------------------------------------------------------------------
\* What the node sends.  The session handles one message at a time, and only as
\* long as the session key is its own.

Readable(s) == s # NoSession /\ IsOpen(s) /\ At(s, "none") /\ holder = s

SendAnswer ==
  /\ answer # NoWire /\ Readable(link)
  /\ Publish(link, answer) /\ answer' = NoWire /\ uplink' = Flushed(link)
  /\ UNCHANGED <<rowVars, queueVars, holder, job, link, staged, installed,
                 pastVars>>

ReadRest(s) ==
  /\ Readable(s) /\ uplink[s].rest # NoWire /\ Publish(s, uplink[s].rest)
  /\ uplink' = [Flushed(s) EXCEPT ![s].rest = NoWire]
  /\ UNCHANGED <<rowVars, queueVars, holder, job, nodeVars, pastVars>>

\* The node reports what it can do; its heartbeats count once it has.
SendReport ==
  /\ answer = NoWire /\ Readable(link) /\ ~uplink[link].seen
  /\ Publish(link, [kind |-> "report", rev |-> 0, content |-> 0])
  /\ uplink' = [Flushed(link) EXCEPT ![link].seen = TRUE]
  /\ UNCHANGED <<rowVars, queueVars, holder, job, nodeVars, pastVars>>

\* The session looks whether the node is behind.  Heartbeats are minutes apart:
\* what was being sent has been sent by then (the session does not look for 30 s
\* after it has sent a wire).
Heartbeat ==
  /\ answer = NoWire /\ Readable(link) /\ uplink[link].seen
  /\ ~uplink[link].flush /\ uplink[link].hand = NoWire
  /\ Publish(link, [kind |-> "beat", rev |-> installed.rev, content |-> 0])
  /\ job' = [job EXCEPT ![link].at = "look", ![link].rev = installed.rev]
  /\ UNCHANGED <<rowVars, queueVars, holder, uplink, nodeVars, pastVars>>

-----------------------------------------------------------------------------
\* The projection of what the node has sent.

\* saveHello, saveHeartbeat, saveConfigApplied and saveConfigRejected.
Projected(m) ==
  CASE m.kind = "hello" -> [config EXCEPT !.active = m.rev]
    [] m.kind = "beat" ->
         [config EXCEPT !.active = m.rev,
            !.state = IF m.rev = config.desired /\ m.rev > 0 THEN "applied" ELSE @]
    [] m.kind = "applied" ->
         [config EXCEPT !.active = Larger(@, m.rev),
                        !.state = IF IsDesired(m.rev) THEN "applied" ELSE @]
    [] m.kind = "rejected" ->
         [config EXCEPT !.state = IF IsDesired(m.rev) THEN "rejected" ELSE @]

\* A message whose acknowledgement fails is projected again.
ProjectIngress(s) ==
  /\ incoming[s] # <<>> /\ At(Projector(s), "none")
  /\ Head(incoming[s]).kind # "report" /\ config' = Projected(Head(incoming[s]))
  /\ \/ incoming' = [incoming EXCEPT ![s] = Tail(@)] /\ UNCHANGED losses
     \/ Lost /\ UNCHANGED incoming
  /\ UNCHANGED <<content, recorded, supported, clock, queueVars, holder, job,
                 uplink, nodeVars, promised, claimant, lowered, returned>>

\* saveCapabilities looks whether the node is behind as well.
ProjectReport(s) ==
  /\ incoming[s] # <<>> /\ At(Projector(s), "none")
  /\ Head(incoming[s]).kind = "report" /\ supported' = TRUE
  /\ incoming' = [incoming EXCEPT ![s] = Tail(@)] /\ To(Projector(s), "look")
  /\ UNCHANGED <<content, config, recorded, clock, queueVars, holder, uplink,
                 nodeVars, pastVars>>

Work(j) ==
  \/ Build(j) \/ Refuse(j) \/ RecordRevision(j) \/ ReplaceQueue(j) \/ NotifyNode(j)
  \/ j \in Editor /\ (Choose(j) \/ Raise(j))
  \/ j \in Replayer /\ (Look(j) \/ ClaimReplay(j))

Connect(s) == Dial(s) \/ PublishHello(s) \/ ClaimSession(s) \/ Greet(s)
Serve(s) == PopWire(s) \/ Drained(s) \/ SendWire(s)
GiveUp(s) == ReturnWire(s) \/ EndSession(s) \/ ReadRest(s) \/ LoseKey(s)

NodeSends == SendAnswer \/ SendReport \/ Heartbeat

NextEdgeConfig ==
  \/ \E e \in Editor : Edit(e)
  \/ \E j \in Builder : Work(j) \/ JobFails(j)
  \/ \E s \in Session :
       \/ Connect(s) \/ Serve(s) \/ GiveUp(s) \/ TurnAway(s) \/ SessionDies(s)
       \/ ProjectIngress(s) \/ ProjectReport(s)
  \/ BreakLink \/ HolderExpires \/ NodeSends

\* Requests and sessions go on, the node connects and sends its heartbeats, and
\* what it has sent is projected.
EdgeConfigFairness ==
  /\ \A j \in Builder : WF_edgeConfigVars(Work(j))
  /\ \A s \in Session :
       /\ WF_edgeConfigVars(Connect(s)) /\ WF_edgeConfigVars(Serve(s))
       /\ WF_edgeConfigVars(GiveUp(s))
       /\ WF_edgeConfigVars(ProjectReport(s)
                            \/ (ProjectIngress(s) /\ UNCHANGED losses))
  /\ WF_edgeConfigVars(NodeSends)

SpecEdgeConfig == InitEdgeConfig /\ [][NextEdgeConfig]_edgeConfigVars
FairEdgeConfig == SpecEdgeConfig /\ EdgeConfigFairness

-----------------------------------------------------------------------------
\* Properties.

Wires == [kind : {"none", "begin", "commit", "applied", "rejected", "hello",
                  "report", "beat"},
          rev : Revision, content : 0 .. MaxEdits]

EdgeConfigTypeOK ==
  /\ content \in 0 .. MaxEdits /\ clock \in 1 .. Larger(1, MaxClock)
  /\ config \in [desired : Revision, active : Revision,
       state : {"idle", "pending", "applied", "rejected", "unsupported"}]
  /\ recorded \subseteq Revision /\ supported \in BOOLEAN
  /\ wires \in Seq(Wires) /\ fence \in Revision
  /\ holder \in Session \cup {NoSession} /\ link \in Session \cup {NoSession}
  /\ \A s \in Session : incoming[s] \in Seq(Wires) 
       /\ {uplink[s].hand, uplink[s].rest} \subseteq Wires
  /\ \A j \in Builder :
       job[j].rev \in Revision /\ job[j].content \in 0 .. MaxEdits
  /\ {staged, answer} \subseteq Wires
  /\ promised \in [Revision -> 0 .. MaxEdits]
  /\ claimant \in Session \cup {NoSession} /\ lowered \in BOOLEAN
  /\ returned \subseteq Session /\ losses \in 0 .. MaxLosses

\* Sessions whose connection has broken return the wire they could not send
\* whatever has been queued meanwhile (deliverQueuedItem): one wire is no
\* snapshot, the wires of two sessions may make up an earlier revision.
FewWiresReturn == \A s, t \in returned : s = t

\* When the row says that the configuration is applied, the node runs the desired
\* revision or a later one, whatever snapshots were built at the same time, sent
\* in parts, sent again or confirmed late; and what it runs has everything that
\* was configured when the revision was chosen.  (A revision that was lowered may
\* be chosen again, and then the first of the two counts as the second.)
AppliedIsHonest ==
  FewWiresReturn /\ config.state = "applied" =>
    /\ installed.rev >= config.desired
    /\ ~lowered => installed.content >= promised[config.desired]

\* The session that was the last to claim the key has it until its connection has
\* ended, so that changes wake the right one: the end, the death or the failure of
\* an earlier session, or of one that was never opened, does not take it away.  (A
\* later claim does, though it may be that of a connection the node has given up:
\* then the session of the node ends with the next message, and it connects again.)
KeyIsItsOwn ==
  \A s \in Session :
    claimant = s /\ StateOf(s, {"greet", "open", "failed"}) => holder = s

EdgeConfigSafety == EdgeConfigTypeOK /\ AppliedIsHonest /\ KeyIsItsOwn

\* The node is never sent back to an earlier revision, though builders overtake
\* each other and the wire of a broken connection returns to the queue.
NodeNeverGoesBack ==
  [][FewWiresReturn => installed'.rev >= installed.rev]_edgeConfigVars

\* A configuration that is pending is applied or rejected in the end, whatever
\* was lost on the way.  (When two editors have chosen their revisions at once
\* and the smaller one was written last, it stays pending until the next
\* change: the node already runs the larger one.)
PendingSettles ==
  (config.state = "pending" /\ ~lowered) ~> (config.state # "pending" \/ lowered)
=============================================================================
