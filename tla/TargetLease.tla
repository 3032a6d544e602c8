---------------------------- MODULE TargetLease ----------------------------
(***************************************************************************)
(* The exclusive connection of a TCP client link to one of its targets.    *)
(* Every collector worker that has the link in its configuration runs a    *)
(* TcpTransport::ClientTarget for the target; only the one whose           *)
(* connection holds the target's lease in Redis may reach the device.  A   *)
(* worker knows its lease from CollectorWorker::targetLeases_, trusts it   *)
(* for Validity from the moment it asked (12 s) and renews it every 5 s;   *)
(* in Redis the lease lives for Lease from the moment it was granted       *)
(* (15 s).                                                                 *)
(*                                                                         *)
(* Targets are independent of each other: keys, clients and entries of the *)
(* worker's maps are per target, so one target is modelled.  Clocks of     *)
(* different machines advance at the same rate (Tick); a worker's loop     *)
(* runs a due deadline at most Slack late.  A Redis command whose answer   *)
(* is not waited for any more may still be executed, at any later time.    *)
(***************************************************************************)
EXTENDS Integers, FiniteSets

CONSTANTS
  Worker,       \* the collector workers, of one process or of several
  Token,        \* connection ids; an id is used again when nothing refers to it
  Lease,        \* PX of the lease in Redis
  Validity,     \* kTargetLeaseValidity
  Slack,        \* how late a worker may run its deadline
  Timeout,      \* time after which a claim or a renewal has failed (3 s)
  MaxEvents     \* bound on configuration changes, shutdowns, crashes and
                \* failing commands

\* The margin between 15 s and 12 s has to cover the lateness of a worker.
ASSUME LeaseConstants ==
  /\ Lease \in Nat /\ Validity \in Nat \ {0} /\ Slack \in Nat
  /\ Validity + Slack < Lease /\ Timeout \in Nat
  /\ MaxEvents \in Nat

\* A number, as the ids are, but of no connection.
None == -1
ASSUME TokenConstants == Token \subseteq Nat

VARIABLES
  phase,     \* "up", "stopping" (stopping_ is set) or "down"
  want,      \* the loaded configuration has the target: a client exists
  attempt,   \* ClientTarget::attempt and connectionId
  stage,     \* of the attempt: claim pending, connecting, connected; "error"
             \* if the client has given up
  retry,     \* the reconnect timer is armed
  lease,     \* targetLeases_ of the worker
  left,      \* time to the deadline of that lease; negative: it is late
  calls,     \* Redis commands on their way, and who waits for them
  holder,    \* value of the lease key in Redis
  ttl,       \* its remaining time to live
  events

clientVars == <<want, attempt, stage, retry>>
redisVars  == <<holder, ttl>>
vars == <<phase, clientVars, lease, left, calls, redisVars, events>>

Up(w) == phase[w] = "up"
Event == events < MaxEvents /\ events' = events + 1

Init ==
  /\ phase = [w \in Worker |-> "down"]
  /\ want = [w \in Worker |-> FALSE]
  /\ attempt = [w \in Worker |-> None]
  /\ stage = [w \in Worker |-> "none"]
  /\ retry = [w \in Worker |-> FALSE]
  /\ lease = [w \in Worker |-> None]
  /\ left = [w \in Worker |-> 0]
  /\ calls = {}
  /\ holder = None /\ ttl = 0
  /\ events = 0

----------------------------------------------------------------------------
(* Commands.  A command is "sent" until Redis executes it, then answered   *)
(* with "yes" or "no"; when its coroutine has given up it is "gone" and    *)
(* may still be executed.  age is the time since the coroutine began.      *)

Op == {"claim", "renew", "release", "undo"}

Command(op, w, t) ==
  [op |-> op, worker |-> w, token |-> t, age |-> 0, state |-> "sent"]

Calls == [op : Op, worker : Worker,
          token : Token, age : 0..Validity,
          state : {"sent", "yes", "no", "gone"}]

Waiting(c) == c.state # "gone"
Gone(c) == [c EXCEPT !.state = "gone", !.age = 0]

Fresh(t) ==
  /\ holder # t
  /\ \A w \in Worker : attempt[w] # t /\ lease[w] # t
  /\ \A c \in calls : c.token # t

\* The scripts: a claim takes a free lease or its own, the others need it.
Granted(c) == holder = c.token \/ (c.op = "claim" /\ holder = None)

Execute(c) ==
  /\ c.state \in {"sent", "gone"}
  /\ IF ~Granted(c) THEN UNCHANGED redisVars
     ELSE IF c.op \in {"claim", "renew"}
          THEN holder' = c.token /\ ttl' = Lease
          ELSE holder' = None /\ ttl' = 0
  /\ calls' = (calls \ {c}) \cup
       (IF c.state = "gone" \/ c.op = "release" THEN {}
        ELSE {[c EXCEPT !.state = IF Granted(c) THEN "yes" ELSE "no"]})
  /\ UNCHANGED <<phase, clientVars, lease, left, events>>

\* A command nobody waits for was lost before it reached Redis.
Vanish(c) ==
  /\ ~Waiting(c)
  /\ calls' = calls \ {c}
  /\ UNCHANGED <<phase, clientVars, lease, left, redisVars, events>>

----------------------------------------------------------------------------
(* TcpTransport::ClientTarget                                              *)

\* connect: a new attempt claims the target before it opens a socket.  One
\* unused id is as good as another.
Connect(w, rest) ==
  \E t \in Token :
    /\ Fresh(t) /\ \A u \in Token : Fresh(u) => t <= u
    /\ attempt' = [attempt EXCEPT ![w] = t]
    /\ stage' = [stage EXCEPT ![w] = "claim"]
    /\ retry' = [retry EXCEPT ![w] = FALSE]
    /\ calls' = rest \cup {Command("claim", w, t)}

\* The client is left without an attempt, with its timer or without.
NoAttempt(w, at, again) ==
  /\ attempt' = [attempt EXCEPT ![w] = None]
  /\ stage' = [stage EXCEPT ![w] = at]
  /\ retry' = [retry EXCEPT ![w] = again]

\* clearAttempt, and scheduleReconnect.
Leave(w) == NoAttempt(w, "none", TRUE) /\ UNCHANGED want

\* fail after an error that another attempt would not mend: no timer is armed.
GiveUp(w) == NoAttempt(w, "error", FALSE)

\* connect of a new client, whose target may have no valid address.
BeginConnect(w, rest) ==
  Connect(w, rest) \/ (GiveUp(w) /\ calls' = rest)

\* releaseTargetLease of the attempt: only the lease the worker still holds.
ReleaseOf(w) ==
  IF attempt[w] # None /\ lease[w] = attempt[w]
  THEN {Command("release", w, lease[w])} ELSE {}

Unleased(w) ==
  /\ lease' = [lease EXCEPT ![w] = None]
  /\ left' = [left EXCEPT ![w] = 0]

Release(w) ==
  IF ReleaseOf(w) # {} THEN Unleased(w) ELSE UNCHANGED <<lease, left>>

\* revoke: the socket of the attempt is closed; the lease is already gone.
BugLeavesSocket(w, t) == UNCHANGED clientVars
Revoke(w, t) ==
  IF attempt[w] = t THEN Leave(w) ELSE UNCHANGED clientVars

Reconnect(w) ==
  /\ Up(w) /\ retry[w]
  /\ Connect(w, calls)
  /\ UNCHANGED <<phase, want, lease, left, redisVars, events>>

Connected(w) ==
  /\ stage[w] = "connect"
  /\ stage' = [stage EXCEPT ![w] = "open"]
  /\ UNCHANGED <<phase, want, attempt, retry, lease, left, calls, redisVars,
                 events>>

\* The connect fails (fail); the error decides whether there is another one.
ConnectFails(w) ==
  /\ stage[w] = "connect"
  /\ Release(w) /\ calls' = calls \cup ReleaseOf(w)
  /\ Leave(w) \/ (GiveUp(w) /\ UNCHANGED want)
  /\ UNCHANGED <<phase, redisVars, events>>

\* The connection closes (removeConnection): there is always another attempt.
Disconnected(w) ==
  /\ stage[w] = "open"
  /\ Release(w) /\ calls' = calls \cup ReleaseOf(w)
  /\ Leave(w)
  /\ UNCHANGED <<phase, redisVars, events>>

\* consumeConfig: the target appears, disappears, or its client is restarted
\* (ClientTarget::stop, then a new ClientTarget).
Appear(w) ==
  /\ Up(w) /\ ~want[w] /\ Event
  /\ want' = [want EXCEPT ![w] = TRUE]
  /\ BeginConnect(w, calls)
  /\ UNCHANGED <<phase, lease, left, redisVars>>

Disappear(w) ==
  /\ Up(w) /\ want[w] /\ Event
  /\ want' = [want EXCEPT ![w] = FALSE]
  /\ Release(w) /\ calls' = calls \cup ReleaseOf(w)
  /\ NoAttempt(w, "none", FALSE)
  /\ UNCHANGED <<phase, redisVars>>

Replace(w) ==
  /\ Up(w) /\ want[w] /\ Event
  /\ Release(w) /\ BeginConnect(w, calls \cup ReleaseOf(w))
  /\ UNCHANGED <<phase, want, redisVars>>

----------------------------------------------------------------------------
(* CollectorWorker: the coroutines behind the commands, and the deadline.  *)

\* claimTarget after a positive answer.  Too late, or stopping: the lease is
\* given back before the client is told that it was refused.  The client may
\* have been stopped meanwhile: then onClaimCompleted releases the lease that
\* has just been entered.
Usable(c) ==
  Up(c.worker) /\ c.age < Validity /\ lease[c.worker] = None

\* The time a granted lease is trusted, from the moment it was asked for.
BugRenewsFromAnswer(c) == Validity
Remaining(c) == Validity - c.age

Claimed(c, rest) ==
  LET w == c.worker
      t == c.token
  IN IF ~Usable(c)
     THEN /\ calls' = rest \cup {Command("undo", w, t)}
          /\ UNCHANGED <<clientVars, lease, left>>
     ELSE IF attempt[w] # t
     THEN /\ calls' = rest \cup {Command("release", w, t)}
          /\ UNCHANGED <<clientVars, lease, left>>
     ELSE /\ lease' = [lease EXCEPT ![w] = t]
          /\ left' = [left EXCEPT ![w] = Remaining(c)]
          /\ stage' = [stage EXCEPT ![w] = "connect"]
          /\ calls' = rest
          /\ UNCHANGED <<want, attempt, retry>>

\* onClaimCompleted(false).
Refused(c, rest) ==
  /\ calls' = rest
  /\ IF attempt[c.worker] = c.token THEN Leave(c.worker)
     ELSE UNCHANGED clientVars
  /\ UNCHANGED <<lease, left>>

\* renewTargetLease: a renewal that failed, was refused or comes too late
\* takes the connection down.
Renewed(c, ok, rest) ==
  LET w == c.worker
  IN /\ calls' = rest
     /\ IF ~Up(w) \/ lease[w] # c.token
        THEN UNCHANGED <<clientVars, lease, left>>
        ELSE IF ok /\ c.age < Validity /\ left[w] > 0
        THEN /\ left' = [left EXCEPT ![w] = Remaining(c)]
             /\ UNCHANGED <<clientVars, lease>>
        ELSE Unleased(w) /\ Revoke(w, c.token)

\* The coroutine of c goes on.
Continue(c, ok, rest) ==
  /\ \/ c.op = "claim" /\ ok /\ Claimed(c, rest)
     \/ c.op = "claim" /\ ~ok /\ Refused(c, rest)
     \/ c.op = "undo" /\ Refused(c, rest)
     \/ c.op = "renew" /\ Renewed(c, ok, rest)
     \/ c.op = "release" /\ calls' = rest /\ UNCHANGED <<clientVars, lease, left>>
  /\ UNCHANGED <<phase, redisVars>>

Answer(c) ==
  /\ c.state \in {"yes", "no"}
  /\ Continue(c, c.state = "yes", calls \ {c})
  /\ UNCHANGED events

\* Timeout or broken connection: executed or not, the coroutine sees an error.
Fail(c) ==
  /\ Waiting(c) /\ Event
  /\ Continue(c, FALSE,
       (calls \ {c}) \cup (IF c.state = "sent" THEN {Gone(c)} ELSE {}))

\* The 5 s timer.  A renewal ends (timeout 3 s) before the next one begins.
Renew(w) ==
  /\ Up(w) /\ lease[w] # None
  /\ \A c \in calls : ~(c.op = "renew" /\ c.token = lease[w] /\ Waiting(c))
  /\ calls' = calls \cup {Command("renew", w, lease[w])}
  /\ UNCHANGED <<phase, clientVars, lease, left, redisVars, events>>

\* armTargetLeaseDeadline: the timer of the deadline.
Deadline(w) ==
  /\ Up(w) /\ lease[w] # None /\ left[w] <= 0
  /\ Unleased(w) /\ Revoke(w, lease[w])
  /\ UNCHANGED <<phase, calls, redisVars, events>>

----------------------------------------------------------------------------
(* Start, shutdown and crash of a worker's process, and time.              *)

Start(w) ==
  /\ phase[w] = "down"
  /\ phase' = [phase EXCEPT ![w] = "up"]
  /\ \/ want' = [want EXCEPT ![w] = TRUE] /\ BeginConnect(w, calls)
     \/ UNCHANGED <<clientVars, calls>>
  /\ UNCHANGED <<lease, left, redisVars, events>>

Forget(w) ==
  want' = [want EXCEPT ![w] = FALSE] /\ NoAttempt(w, "none", FALSE)

\* shutdown: the timers are cancelled and the sockets closed; a lease is kept
\* until the coroutines have ended.
Shutdown(w) ==
  /\ Up(w) /\ Event
  /\ phase' = [phase EXCEPT ![w] = "stopping"]
  /\ left' = [left EXCEPT ![w] = 0]
  /\ Forget(w)
  /\ UNCHANGED <<lease, calls, redisVars>>

Joined(w) ==
  /\ phase[w] = "stopping"
  /\ \A c \in calls : c.worker = w => ~Waiting(c)
  /\ phase' = [phase EXCEPT ![w] = "down"]
  /\ calls' = calls \cup
       (IF lease[w] = None THEN {} ELSE {Command("release", w, lease[w])})
  /\ lease' = [lease EXCEPT ![w] = None]
  /\ UNCHANGED <<clientVars, left, redisVars, events>>

Crash(w) ==
  /\ phase[w] # "down" /\ Event
  /\ phase' = [phase EXCEPT ![w] = "down"]
  /\ Forget(w) /\ Unleased(w)
  /\ calls' = {c \in calls : c.worker # w \/ c.state = "gone"}
       \cup {Gone(c) : c \in {d \in calls : d.worker = w /\ d.state = "sent"}}
  /\ UNCHANGED redisVars

\* A claim or a renewal gets older until it is worthless.
Older(c) ==
  IF c.op \in {"claim", "renew"} /\ Waiting(c) /\ c.age < Validity
  THEN [c EXCEPT !.age = @ + 1] ELSE c

Tick ==
  /\ \A w \in Worker : Up(w) /\ lease[w] # None => left[w] > -Slack
  /\ \A c \in calls : c.op \in {"claim", "renew"} /\ Waiting(c) => c.age < Timeout
  /\ left' = [w \in Worker |->
                IF Up(w) /\ lease[w] # None THEN left[w] - 1 ELSE left[w]]
  /\ ttl' = IF ttl > 0 THEN ttl - 1 ELSE 0
  /\ holder' = IF ttl > 1 THEN holder ELSE None
  /\ calls' = {Older(c) : c \in calls}
  /\ UNCHANGED <<phase, clientVars, lease, events>>

----------------------------------------------------------------------------

Client(w) ==
  Reconnect(w) \/ Connected(w) \/ ConnectFails(w) \/ Disconnected(w)
  \/ Appear(w) \/ Disappear(w) \/ Replace(w)

Owner(w) == Renew(w) \/ Deadline(w)

Process(w) == Start(w) \/ Shutdown(w) \/ Joined(w) \/ Crash(w)

Call(c) == Execute(c) \/ Vanish(c) \/ Answer(c) \/ Fail(c)

Next ==
  \/ Tick
  \/ \E w \in Worker : Client(w) \/ Owner(w) \/ Process(w)
  \/ \E c \in calls : Call(c)

Spec == Init /\ [][Next]_vars

----------------------------------------------------------------------------

TypeOK ==
  /\ phase \in [Worker -> {"up", "stopping", "down"}]
  /\ want \in [Worker -> BOOLEAN] /\ retry \in [Worker -> BOOLEAN]
  /\ attempt \in [Worker -> Token \cup {None}]
  /\ stage \in [Worker -> {"none", "claim", "connect", "open", "error"}]
  /\ lease \in [Worker -> Token \cup {None}]
  /\ left \in [Worker -> -Slack..Validity]
  /\ calls \subseteq Calls
  /\ holder \in Token \cup {None} /\ ttl \in 0..Lease
  /\ events \in Nat

Reaching(w) == stage[w] \in {"connect", "open"}

\* At no time do two workers have a socket to the device, whatever commands
\* fail, are executed late or by a worker that has crashed or given up.
OneConnection ==
  \A v, w \in Worker : Reaching(v) /\ Reaching(w) => v = w

\* A lease a worker relies on is in Redis, under its name, and will be there
\* until the deadline at which the worker gives it up has passed.
LeaseBacked ==
  \A w \in Worker :
    Up(w) /\ lease[w] # None
      => holder = lease[w] /\ ttl >= left[w] + (Lease - Validity)

\* The map of leases and the clients of the transport, two objects that only
\* meet in callbacks, agree: a socket is never without the lease whose loss
\* would close it, and a lease that is renewed is never without a socket, in
\* which case nobody could reach the device again.
LeaseFollowsSocket ==
  \A w \in Worker :
    Up(w) => /\ Reaching(w) => lease[w] = attempt[w]
             /\ lease[w] # None => Reaching(w) /\ lease[w] = attempt[w]

\* A client that wants its target never gets stuck: it has an attempt or its
\* timer, or has given up for an error that reconnecting would not mend, and
\* never two of them; an attempt that waits for its claim has a coroutine that
\* will tell it, however often the client was stopped and started again.
ClientProceeds ==
  \A w \in Worker :
    /\ Up(w) /\ want[w] =>
         (retry[w] <=> attempt[w] = None /\ stage[w] # "error")
    /\ stage[w] = "error" => attempt[w] = None
    /\ stage[w] = "claim" =>
         \E c \in calls : /\ c.op \in {"claim", "undo"} /\ Waiting(c)
                          /\ c.token = attempt[w] /\ c.worker = w

\* What a worker believes of its lease, what its client does and what Redis has
\* go together, whichever answers are late, lost or refused.
LeaseIsConsistent == TypeOK /\ LeaseBacked /\ LeaseFollowsSocket /\ ClientProceeds
=============================================================================
