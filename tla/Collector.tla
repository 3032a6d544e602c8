----------------------------- MODULE Collector -----------------------------
(***************************************************************************)
(* One collector worker: a single event loop that consumes Redis streams   *)
(* of its own (ingress events of its sockets, commands, egress packets)    *)
(* and passes them between the sockets and the protocol sessions.          *)
(*                                                                         *)
(* A connection together with its session epoch is a session, a number     *)
(* that is never used twice; one socket is open at a time.  Ingress is a   *)
(* queue: a failing event stays at its head, because recovery reads the    *)
(* pending list from its beginning before anything new.  The protocols     *)
(* themselves (framing, polling, queueing of commands, readback) are       *)
(* abstracted to: a command is refused, or one packet is sent and then     *)
(* answered, timed out or cut off.                                         *)
(***************************************************************************)
EXTENDS Naturals, SequencesExt

CONSTANTS Command, MaxSession, MaxFaults

VARIABLES
  \* shared with the service; a collector only reads the first two
  session, overdue, entry, lost, results, faults,
  \* the socket and the device behind it
  live,        \* session of the open socket, 0 if none
  opened,      \* sessions used so far
  sent,        \* history: how often the command was written to the socket
  answered,    \* what the device has answered
  \* Redis
  ingress,     \* the ingress stream
  reserved,    \* the idempotency key iot:v2:command:sent
  egress,      \* commands whose packet is in the egress stream
  delivered,   \* those of them in the pending list
  \* memory of the worker
  known,       \* connectionEpochs_
  batch,       \* commands read and not yet looked at
  current,     \* the command that was reserved and is to be executed
  pending,     \* pendingCommands_
  awaiting,    \* the protocol session awaits its answer
  failing,     \* pending commands a closed session still has to fail
  ready,       \* readyMessages_ of the egress stream
  writing,     \* egressWritePending_: the packet that is being written
  written,     \* its write has ended
  recovering,      \* highRecovering_
  egressRecovering,
  unacked      \* history: egress packets whose acknowledgement failed

None == "none"

linkVars   == <<entry, lost, results>>
deviceVars == <<live, opened, sent, answered>>
egressVars == <<egress, delivered, ready, writing, written, unacked>>
tickVars   == <<batch, current, failing>>
recovery   == <<recovering, egressRecovering>>
collectorVars ==
  <<deviceVars, ingress, reserved, egressVars, known, tickVars, pending,
    awaiting, recovery>>

Fault   == faults < MaxFaults /\ faults' = faults + 1
NoFault == UNCHANGED faults

CollectorInit ==
  /\ live = 0 /\ opened = 0
  /\ sent = [c \in Command |-> 0]
  /\ answered = [c \in Command |-> None]
  /\ ingress = <<>>
  /\ reserved = {}
  /\ egress = <<>> /\ delivered = {}
  /\ known = {}
  /\ batch = {} /\ current = None
  /\ pending = {} /\ awaiting = {} /\ failing = {}
  /\ ready = <<>> /\ writing = None /\ written = FALSE
  /\ recovering = TRUE /\ egressRecovering = TRUE
  /\ unacked = 0

\* The coroutine of tick() is at one place at a time.
Free == batch = {} /\ current = None /\ failing = {}

\* recoverClaimedMessages: an exception ends the tick, every stream is read
\* again from its pending list.
Recover == recovering' = TRUE /\ egressRecovering' = TRUE
Abort   == Recover /\ batch' = {} /\ current' = None /\ failing' = {}

----------------------------------------------------------------------------
(* Results.                                                                *)

OwnsEntry(c) == entry[c] = "pending"

\* publishAllAndAcknowledge: publishes only if the entry is still pending.
Publish(c, v) ==
  IF OwnsEntry(c)
  THEN /\ entry' = [entry EXCEPT ![c] = "gone"]
       /\ results' = results \cup {<<c, v>>}
  ELSE UNCHANGED <<entry, results>>

MaybePublish(c, v) == Publish(c, v) \/ UNCHANGED <<entry, results>>

\* finishCommand for a command of pendingCommands_.
Finish(c, v) ==
  IF c \in pending
  THEN Publish(c, v) /\ pending' = pending \ {c}
  ELSE UNCHANGED <<entry, results, pending>>

\* The same when the script fails: the command stays in pendingCommands_.
FinishFails(c, v) ==
  /\ c \in pending
  /\ MaybePublish(c, v) /\ UNCHANGED pending

----------------------------------------------------------------------------
(* consumeCommand                                                          *)

Queued  == {c \in Command : entry[c] = "queued"}
Claimed == {c \in Command : entry[c] = "pending"}

Deliver(S) ==
  entry' = [c \in Command |-> IF c \in S THEN "pending" ELSE entry[c]]

\* readAvailable: recovery reads the pending list, normal operation what is
\* new.  The answer of the read may be lost.
StillRecovering == Claimed # {}

ReadCommands ==
  /\ Free
  /\ \/ NoFault /\ recovering
        /\ batch' = Claimed /\ recovering' = StillRecovering
        /\ UNCHANGED <<entry, egressRecovering>>
     \/ NoFault /\ ~recovering /\ Queued # {}
        /\ batch' = Queued /\ Deliver(Queued)
        /\ UNCHANGED recovery
     \/ Fault /\ ~recovering /\ Queued # {}
        /\ Deliver(Queued) /\ Recover
        /\ UNCHANGED batch
  /\ UNCHANGED <<lost, results, deviceVars, ingress, reserved,
                 egressVars, known, current, failing, pending, awaiting>>

Stale(c) == session[c] \notin known

\* failUndeliverable: the session has ended, or the operation is too old.  Both
\* are looked at before the reservation.
FailUndeliverable(c) ==
  /\ c \in batch /\ current = None
  /\ \/ NoFault /\ Publish(c, "REJECTED")
        /\ batch' = batch \ {c} /\ UNCHANGED <<current, failing, recovery>>
     \/ Fault /\ MaybePublish(c, "REJECTED") /\ Abort
  /\ UNCHANGED <<lost, deviceVars, ingress, reserved, egressVars,
                 known, pending, awaiting>>

RejectStale(c)   == Stale(c) /\ FailUndeliverable(c)
RejectExpired(c) == ~Stale(c) /\ c \in overdue /\ FailUndeliverable(c)

BugNeverReserved(c) == FALSE
Reserved(c) == c \in reserved

\* reserveTransmission: SET NX.  A command reserved before is acknowledged
\* without a result.
Reserve(c) ==
  /\ c \in batch /\ current = None /\ ~Stale(c) /\ c \notin overdue
  /\ \/ /\ ~Reserved(c) /\ UNCHANGED entry
        /\ \/ NoFault /\ reserved' = reserved \cup {c}
              /\ current' = c /\ batch' = batch \ {c}
              /\ UNCHANGED <<failing, recovery>>
           \/ Fault /\ reserved' \in {reserved, reserved \cup {c}} /\ Abort
     \/ /\ Reserved(c) /\ UNCHANGED reserved
        /\ \/ NoFault /\ entry' = [entry EXCEPT ![c] = "gone"]
              /\ batch' = batch \ {c} /\ UNCHANGED <<current, failing, recovery>>
           \/ Fault /\ entry' \in {entry, [entry EXCEPT ![c] = "gone"]} /\ Abort
  /\ UNCHANGED <<lost, results, deviceVars, ingress, egressVars,
                 known, pending, awaiting>>

\* engine_.execute refuses the command: it is invalid, the device is not on
\* this connection, or the session is busy.
Refuse(c, v) ==
  /\ current = c
  /\ \/ NoFault /\ Publish(c, v) /\ UNCHANGED pending
        /\ current' = None /\ UNCHANGED <<batch, failing, recovery>>
     \/ Fault /\ MaybePublish(c, v) /\ pending' = pending \cup {c} /\ Abort
  /\ UNCHANGED <<lost, deviceVars, ingress, reserved, egressVars,
                 known, awaiting>>

\* engine_.execute sends: the packet is appended to the egress stream.
Send(c) ==
  /\ current = c
  /\ pending' = pending \cup {c} /\ awaiting' = awaiting \cup {c}
  /\ \/ NoFault /\ egress' = Append(egress, c)
        /\ current' = None /\ UNCHANGED <<batch, failing, recovery>>
     \/ Fault /\ egress' \in {egress, Append(egress, c)} /\ Abort
  /\ UNCHANGED <<linkVars, deviceVars, ingress, reserved, delivered,
                 ready, writing, written, unacked, known>>

----------------------------------------------------------------------------
(* consumeEgress and completeEgress                                        *)

\* acknowledgeAndDelete.
Drop(c) ==
  /\ \E i \in 1 .. Len(egress) : egress[i] = c /\ egress' = RemoveAt(egress, i)
  /\ delivered' = delivered \ {c}

\* Packets are read in the order of the stream: c is the first one of S.
Leads(c, S) ==
  \E i \in 1 .. Len(egress) :
    egress[i] = c /\ c \in S /\ \A j \in 1 .. i - 1 : egress[j] \notin S

Undelivered == Command \ delivered

\* waitForWork: the blocking read claims one packet for the next tick.  It is
\* reached again only if that tick took none, because one is being written.
WaitForWork(c) ==
  /\ Free /\ Leads(c, Undelivered)
  /\ ready = <<>> \/ writing # None
  /\ delivered' = delivered \cup {c}
  /\ \/ NoFault /\ ready' = Append(ready, c) /\ UNCHANGED recovery
     \/ Fault /\ UNCHANGED ready /\ Recover
  /\ UNCHANGED <<linkVars, deviceVars, ingress, reserved, egress,
                 writing, written, unacked, known, tickVars, pending, awaiting>>

\* readAvailable(egress, 1): what waitForWork has left, else the first pending
\* packet when recovering, else the first new one.
NextPacket(c) ==
  \/ ready # <<>> /\ c = Head(ready)
  \/ ready = <<>> /\ egressRecovering /\ Leads(c, delivered)
  \/ ready = <<>> /\ ~egressRecovering /\ Leads(c, Undelivered)

\* consumeEgress.  A packet of a socket that is gone is acknowledged, one of
\* an old session is a dead letter, the rest is written.
TakePacket(c) ==
  /\ Free /\ writing = None /\ NextPacket(c) /\ ready' = <<>>
  /\ \/ NoFault /\ live = session[c] /\ ~Stale(c)
        /\ writing' = c /\ written' = FALSE
        /\ delivered' = delivered \cup {c} /\ UNCHANGED <<egress, recovery>>
     \/ NoFault /\ (live # session[c] \/ Stale(c))
        /\ Drop(c) /\ UNCHANGED <<writing, written, recovery>>
     \/ Fault /\ Recover /\ delivered' = delivered \cup {c}
        /\ UNCHANGED <<egress, writing, written>>
  /\ UNCHANGED <<linkVars, deviceVars, ingress, reserved, unacked,
                 known, tickVars, pending, awaiting>>

EndRecovery ==
  /\ Free /\ writing = None /\ egressRecovering
  /\ ready = <<>> /\ delivered = {}
  /\ egressRecovering' = FALSE
  /\ UNCHANGED <<linkVars, faults, deviceVars, ingress, reserved,
                 egressVars, known, tickVars, pending, awaiting, recovering>>

\* The socket write ends.  When the socket was closed meanwhile the bytes may
\* have left or not.
Write(c) ==
  /\ writing = c /\ ~written
  /\ written' = TRUE
  /\ \/ sent' = [sent EXCEPT ![c] = @ + 1]
     \/ live # session[c] /\ UNCHANGED sent
  /\ UNCHANGED <<linkVars, faults, live, opened, answered, ingress,
                 reserved, egress, delivered, ready, writing, unacked, known,
                 tickVars, pending, awaiting, recovery>>

\* completeEgress: when the acknowledgement fails the packet is read again.
CompleteEgress(c) ==
  /\ writing = c /\ written
  /\ writing' = None /\ written' = FALSE
  /\ \/ NoFault /\ Drop(c) /\ UNCHANGED <<egressRecovering, unacked>>
     \/ Fault /\ (Drop(c) \/ UNCHANGED <<egress, delivered>>)
        /\ egressRecovering' = TRUE /\ unacked' = unacked + 1
  /\ UNCHANGED <<linkVars, deviceVars, ingress, reserved, ready, known,
                 tickVars, pending, awaiting, recovering>>

----------------------------------------------------------------------------
(* Sockets, ingress and the protocol sessions.                             *)

Event(kind, s, c, v) == [kind |-> kind, session |-> s, command |-> c, verdict |-> v]

Connect ==
  /\ live = 0 /\ opened < MaxSession
  /\ live' = opened + 1 /\ opened' = opened + 1
  /\ ingress' = Append(ingress, Event("up", opened + 1, None, None))
  /\ UNCHANGED <<linkVars, faults, sent, answered, reserved,
                 egressVars, known, tickVars, pending, awaiting, recovery>>

\* The socket closes.  An event that cannot be published is lost.
Disconnect ==
  /\ live # 0 /\ live' = 0
  /\ \/ NoFault /\ ingress' = Append(ingress, Event("down", live, None, None))
     \/ Fault /\ UNCHANGED ingress
  /\ UNCHANGED <<linkVars, opened, sent, answered, reserved,
                 egressVars, known, tickVars, pending, awaiting, recovery>>

\* The device answers a command that has reached it.
Answer(c, v) ==
  /\ sent[c] > 0 /\ answered[c] = None /\ live = session[c]
  /\ answered' = [answered EXCEPT ![c] = v]
  /\ ingress' = Append(ingress, Event("reply", live, c, v))
  /\ UNCHANGED <<linkVars, faults, live, opened, sent, reserved,
                 egressVars, known, tickVars, pending, awaiting, recovery>>

\* "connected": after a failure the event is read again and found outdated.
Outdated(s) == \E k \in known : k >= s

HandleUp ==
  /\ Free /\ ingress # <<>> /\ Head(ingress).kind = "up"
  /\ LET s == Head(ingress).session IN
       known' = IF Outdated(s) THEN known ELSE known \cup {s}
  /\ \/ NoFault /\ ingress' = Tail(ingress) /\ UNCHANGED recovery
     \/ Fault /\ UNCHANGED ingress /\ Recover
  /\ UNCHANGED <<linkVars, deviceVars, reserved, egressVars, tickVars,
                 pending, awaiting>>

\* Retire session s: its protocol session is dropped and every command that
\* is pending on it is to be failed, one after the other.
Retire(s, next) ==
  /\ known' = (known \ {s}) \cup next
  /\ awaiting' = {c \in awaiting : session[c] # s}
  /\ failing' = {c \in pending : session[c] = s}
  /\ UNCHANGED <<batch, current, pending>>

\* "disconnected"; the event is acknowledged when the session is unknown,
\* which it is after it was handled.
HandleDown ==
  /\ Free /\ ingress # <<>> /\ Head(ingress).kind = "down"
  /\ \/ Head(ingress).session \in known
        /\ Retire(Head(ingress).session, {}) /\ UNCHANGED ingress
     \/ Head(ingress).session \notin known
        /\ ingress' = Tail(ingress)
        /\ UNCHANGED <<known, awaiting, tickVars, pending>>
  /\ UNCHANGED <<linkVars, faults, deviceVars, reserved, egressVars,
                 recovery>>

\* consumeConfig gives the open connection a new session epoch.
Refresh ==
  /\ Free /\ live \in known /\ opened < MaxSession
  /\ live' = opened + 1 /\ opened' = opened + 1
  /\ Retire(live, {opened + 1})
  /\ UNCHANGED <<linkVars, faults, sent, answered, ingress, reserved,
                 egressVars, recovery>>

\* failPendingForConnection: the reason of the closed connection says nothing
\* about the write.
FailPending(c) ==
  /\ c \in failing
  /\ \/ NoFault /\ Finish(c, "UNKNOWN") /\ failing' = failing \ {c}
        /\ UNCHANGED <<batch, current, recovery>>
     \/ Fault /\ FinishFails(c, "UNKNOWN") /\ Abort
  /\ UNCHANGED <<lost, deviceVars, ingress, reserved, egressVars,
                 known, awaiting>>

\* A packet of the device.  One of an old session is a dead letter; the
\* protocol session ignores an answer it does not await.
HandleReply ==
  /\ Free /\ ingress # <<>> /\ Head(ingress).kind = "reply"
  /\ LET e == Head(ingress)
         expected == e.session \in known /\ e.command \in awaiting
     IN  \/ /\ NoFault /\ ingress' = Tail(ingress)
            /\ awaiting' = IF expected THEN awaiting \ {e.command} ELSE awaiting
            /\ IF expected THEN Finish(e.command, e.verdict)
               ELSE UNCHANGED <<entry, results, pending>>
            /\ UNCHANGED recovery
         \/ /\ Fault /\ expected /\ awaiting' = awaiting \ {e.command}
            /\ FinishFails(e.command, e.verdict)
            /\ UNCHANGED ingress /\ Recover
  /\ UNCHANGED <<lost, deviceVars, reserved, egressVars, known,
                 tickVars>>

\* The deadline of the protocol session, in a coroutine of its own: its
\* failure does not start a recovery.
Timeout(c) ==
  /\ c \in awaiting
  /\ awaiting' = awaiting \ {c}
  /\ \/ NoFault /\ Finish(c, "UNKNOWN")
     \/ Fault /\ FinishFails(c, "UNKNOWN")
  /\ UNCHANGED <<lost, deviceVars, ingress, reserved, egressVars,
                 known, tickVars, recovery>>

\* Any other Redis command of a tick fails.
TickFails ==
  /\ Free /\ Fault /\ Recover
  /\ UNCHANGED <<linkVars, deviceVars, ingress, reserved, egressVars,
                 known, tickVars, pending, awaiting>>

\* The process dies.  Its successor has an instance id of its own and never
\* reads these streams.
Crash ==
  /\ Fault /\ opened > lost
  /\ lost' = opened /\ live' = 0
  /\ entry' = [c \in Command |->
                 IF entry[c] \in {"queued", "pending"} THEN "orphan" ELSE entry[c]]
  /\ ingress' = <<>> /\ egress' = <<>> /\ delivered' = {}
  /\ known' = {} /\ batch' = {} /\ current' = None /\ pending' = {}
  /\ awaiting' = {} /\ failing' = {}
  /\ ready' = <<>> /\ writing' = None /\ written' = FALSE
  /\ recovering' = TRUE /\ egressRecovering' = TRUE
  /\ UNCHANGED <<results, opened, sent, answered, reserved, unacked>>

CollectorStep ==
  \/ ReadCommands \/ EndRecovery \/ Connect \/ Disconnect
  \/ HandleUp \/ HandleDown \/ Refresh \/ HandleReply \/ TickFails
  \/ \E c \in Command :
       \/ RejectStale(c) \/ RejectExpired(c) \/ Reserve(c)
       \/ (\E v \in {"REJECTED", "UNKNOWN"} : Refuse(c, v))
       \/ Send(c) \/ WaitForWork(c) \/ TakePacket(c) \/ Write(c)
       \/ CompleteEgress(c)
       \/ (\E v \in {"SUCCEEDED", "FAILED"} : Answer(c, v))
       \/ FailPending(c) \/ Timeout(c)

Events ==
  [kind : {"up", "down", "reply"}, session : 1 .. MaxSession,
   command : Command \cup {None}, verdict : {None, "SUCCEEDED", "FAILED"}]

CollectorTypeOK ==
  /\ live \in 0 .. MaxSession /\ opened \in 0 .. MaxSession
  /\ sent \in [Command -> Nat]
  /\ answered \in [Command -> {None, "SUCCEEDED", "FAILED"}]
  /\ ingress \in Seq(Events)
  /\ reserved \subseteq Command
  /\ egress \in Seq(Command)
  /\ delivered \subseteq Command
  /\ known \subseteq 1 .. MaxSession
  /\ batch \subseteq Command /\ current \in Command \cup {None}
  /\ pending \subseteq Command /\ awaiting \subseteq Command
  /\ failing \subseteq Command
  /\ ready \in Seq(Command)
  /\ writing \in Command \cup {None} /\ written \in BOOLEAN
  /\ written => writing # None
  /\ recovering \in BOOLEAN /\ egressRecovering \in BOOLEAN
  /\ unacked \in Nat
=============================================================================
