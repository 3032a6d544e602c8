------------------------- MODULE SharedRecordProofs -------------------------
(***************************************************************************)
(* Proofs about records that several processes keep in one place: no two   *)
(* workers are connected to one target at once; what the pointer of the    *)
(* runtime configuration names is whole, and no load of it is torn by a    *)
(* projection or a cleanup; concurrent requests leave a catalogue whose    *)
(* devices have a channel of their protocol, on an endpoint that serves.   *)
(***************************************************************************)
EXTENDS TargetLease, Snapshots, Channels, FiniteSetTheorems, TLAPS

----------------------------------------------------------------------------
(* TargetLease, for every set of workers and ids, every lease and validity *)
(* with a margin for late deadlines, and any number of failures, reloads   *)
(* and crashes                                                             *)

USE LeaseConstants, TokenConstants

LEMMA NoneIsNoToken == None \notin Token /\ None \in Int
  BY DEF None

LEMMA GrantedType ==
  ASSUME TypeOK, NEW c \in calls
  PROVE  /\ c \in Calls /\ c.op \in Op /\ c.worker \in Worker
         /\ c.token \in Token /\ c.age \in 0..Validity
         /\ c.state \in {"sent", "yes", "no", "gone"}
         /\ Gone(c) \in Calls /\ Older(c) \in Calls
<1>1. c \in Calls
  BY DEF TypeOK
<1>2. /\ c.op \in Op /\ c.worker \in Worker /\ c.token \in Token
      /\ c.age \in 0..Validity /\ c.state \in {"sent", "yes", "no", "gone"}
  BY <1>1 DEF Calls
<1>3. Gone(c) \in Calls
  <2>1. [c EXCEPT !.state = "gone"] \in Calls
    BY <1>1 DEF Calls
  <2>2. 0 \in 0..Validity
    OBVIOUS
  <2>3. [[c EXCEPT !.state = "gone"] EXCEPT !.age = 0] \in Calls
    BY <2>1, <2>2 DEF Calls
  <2> QED BY <2>3 DEF Gone
<1>4. Older(c) \in Calls
  BY <1>1 DEF Calls, Older
<1> QED BY <1>1, <1>2, <1>3, <1>4

LEMMA CommandType ==
  ASSUME NEW op \in Op, NEW w \in Worker, NEW t \in Token
  PROVE  Command(op, w, t) \in Calls
  BY DEF Command, Calls, Op

----------------------------------------------------------------------------
(* Type correctness.                                                        *)

LEMMA TypeParts ==
  ASSUME TypeOK, NEW w \in Worker
  PROVE  /\ \A rest : rest \subseteq Calls
                        /\ (Connect(w, rest) \/ BeginConnect(w, rest)) =>
              /\ attempt' \in [Worker -> Token \cup {None}]
              /\ stage' \in [Worker -> {"none", "claim", "connect", "open", "error"}]
              /\ retry' \in [Worker -> BOOLEAN]
              /\ calls' \subseteq Calls
         /\ \A at \in {"none", "error"}, again \in BOOLEAN :
              NoAttempt(w, at, again) =>
                /\ attempt' \in [Worker -> Token \cup {None}]
                /\ stage' \in [Worker -> {"none", "claim", "connect", "open", "error"}]
                /\ retry' \in [Worker -> BOOLEAN]
         /\ Unleased(w) =>
              /\ lease' \in [Worker -> Token \cup {None}]
              /\ left' \in [Worker -> -Slack..Validity]
         /\ Release(w) =>
              /\ lease' \in [Worker -> Token \cup {None}]
              /\ left' \in [Worker -> -Slack..Validity]
         /\ ReleaseOf(w) \subseteq Calls
<1>1. ReleaseOf(w) \subseteq Calls
  BY CommandType DEF ReleaseOf, TypeOK, Op
<1>2. Unleased(w) => /\ lease' \in [Worker -> Token \cup {None}]
                     /\ left' \in [Worker -> -Slack..Validity]
  BY DEF Unleased, TypeOK
<1>3. Release(w) => /\ lease' \in [Worker -> Token \cup {None}]
                    /\ left' \in [Worker -> -Slack..Validity]
  BY <1>2 DEF Release, TypeOK
<1>4. ASSUME NEW rest, rest \subseteq Calls,
             Connect(w, rest) \/ BeginConnect(w, rest)
      PROVE  /\ attempt' \in [Worker -> Token \cup {None}]
             /\ stage' \in [Worker -> {"none", "claim", "connect", "open", "error"}]
             /\ retry' \in [Worker -> BOOLEAN]
             /\ calls' \subseteq Calls
  <2>1. CASE Connect(w, rest)
    BY <1>4, <2>1, CommandType DEF Connect, TypeOK, Op
  <2>2. CASE GiveUp(w) /\ calls' = rest
    BY <1>4, <2>2 DEF GiveUp, NoAttempt, TypeOK
  <2> QED BY <1>4, <2>1, <2>2 DEF BeginConnect
<1>5. ASSUME NEW at \in {"none", "error"}, NEW again \in BOOLEAN,
             NoAttempt(w, at, again)
      PROVE  /\ attempt' \in [Worker -> Token \cup {None}]
             /\ stage' \in [Worker -> {"none", "claim", "connect", "open", "error"}]
             /\ retry' \in [Worker -> BOOLEAN]
  BY <1>5 DEF NoAttempt, TypeOK
<1> QED BY <1>1, <1>2, <1>3, <1>4, <1>5

\* The three ways a coroutine goes on, and what they leave of the types.
LEMMA TypeContinue ==
  ASSUME TypeOK, NEW c \in calls, NEW ok \in BOOLEAN,
         NEW rest, rest \subseteq Calls, Continue(c, ok, rest)
  PROVE  /\ want' \in [Worker -> BOOLEAN] /\ retry' \in [Worker -> BOOLEAN]
         /\ attempt' \in [Worker -> Token \cup {None}]
         /\ stage' \in [Worker -> {"none", "claim", "connect", "open", "error"}]
         /\ lease' \in [Worker -> Token \cup {None}]
         /\ left' \in [Worker -> -Slack..Validity]
         /\ calls' \subseteq Calls
         /\ UNCHANGED <<phase, redisVars>>
<1> DEFINE w == c.worker
           t == c.token
<1>1. /\ w \in Worker /\ t \in Token /\ c.age \in 0..Validity
      /\ Command("undo", w, t) \in Calls /\ Command("release", w, t) \in Calls
  BY GrantedType, CommandType DEF Op
<1>2. Remaining(c) \in -Slack..Validity
  BY <1>1 DEF Remaining
<1> USE DEF TypeOK, clientVars
<1>3. CASE Claimed(c, rest)
  BY <1>1, <1>2, <1>3 DEF Claimed, Continue
<1>4. CASE Refused(c, rest)
  BY <1>1, <1>4, TypeParts DEF Refused, Leave, Continue
<1>5. CASE Renewed(c, ok, rest)
  BY <1>1, <1>2, <1>5, TypeParts DEF Renewed, Revoke, Leave, Continue
<1>6. CASE calls' = rest /\ UNCHANGED <<clientVars, lease, left>>
  BY <1>6 DEF Continue
<1> QED BY <1>3, <1>4, <1>5, <1>6 DEF Continue

LEMMA TypeStep == TypeOK /\ [Next]_vars => TypeOK'
<1> SUFFICES ASSUME TypeOK, [Next]_vars PROVE TypeOK'
  OBVIOUS
<1> USE DEF clientVars, redisVars, Event
<1>1. CASE Tick
  <2>1. calls' \subseteq Calls
    BY <1>1, GrantedType DEF Tick
  <2>2. left' \in [Worker -> -Slack..Validity] /\ ttl' \in 0..Lease
    BY <1>1 DEF Tick, TypeOK
  <2> QED BY <1>1, <2>1, <2>2 DEF Tick, TypeOK
<1>2. ASSUME NEW w \in Worker, Client(w)
      PROVE  TypeOK'
  <2> USE DEF TypeOK
  <2>1. CASE Reconnect(w)
    BY <2>1, TypeParts DEF Reconnect
  <2>2. CASE Connected(w)
    BY <2>2 DEF Connected
  <2>3. CASE Disconnected(w)
    BY <2>3, TypeParts DEF Disconnected, Leave
  <2>4. CASE Appear(w)
    BY <2>4, TypeParts DEF Appear
  <2>5. CASE Disappear(w)
    <3>1. NoAttempt(w, "none", FALSE)
      BY <2>5 DEF Disappear
    <3>2. /\ attempt' \in [Worker -> Token \cup {None}]
          /\ stage' \in [Worker -> {"none", "claim", "connect", "open", "error"}]
          /\ retry' \in [Worker -> BOOLEAN]
      BY <3>1, TypeParts
    <3>3. /\ lease' \in [Worker -> Token \cup {None}]
          /\ left' \in [Worker -> -Slack..Validity]
          /\ calls' \subseteq Calls
      BY <2>5, TypeParts DEF Disappear
    <3>4. want' \in [Worker -> BOOLEAN]
      BY <2>5 DEF Disappear
    <3>5. events' \in Nat /\ UNCHANGED <<phase, holder, ttl>>
      BY <2>5 DEF Disappear
    <3> QED BY <3>2, <3>3, <3>4, <3>5
  <2>6. CASE Replace(w)
    BY <2>6, TypeParts DEF Replace
  <2>7. CASE ConnectFails(w)
    BY <2>7, TypeParts DEF ConnectFails, Leave, GiveUp, NoAttempt
  <2> QED BY <1>2, <2>1, <2>2, <2>3, <2>4, <2>5, <2>6, <2>7 DEF Client
<1>3. ASSUME NEW w \in Worker, Owner(w) \/ Process(w)
      PROVE  TypeOK'
  <2> USE DEF TypeOK
  <2>1. CASE Renew(w)
    BY <2>1, CommandType DEF Renew, Op
  <2>2. CASE Deadline(w)
    BY <2>2, TypeParts DEF Deadline, Revoke, Leave
  <2>3. CASE Start(w)
    BY <2>3, TypeParts DEF Start
  <2>4. CASE Shutdown(w)
    BY <2>4, TypeParts DEF Shutdown, Forget, NoAttempt
  <2>5. CASE Joined(w)
    BY <2>5, CommandType DEF Joined, Op
  <2>6. CASE Crash(w)
    <3>1. calls' \subseteq Calls
      BY <2>6, GrantedType DEF Crash
    <3>2. NoAttempt(w, "none", FALSE)
      BY <2>6 DEF Crash, Forget
    <3>3. /\ attempt' \in [Worker -> Token \cup {None}]
          /\ stage' \in [Worker -> {"none", "claim", "connect", "open", "error"}]
          /\ retry' \in [Worker -> BOOLEAN]
      BY <3>2, TypeParts
    <3>4. /\ lease' \in [Worker -> Token \cup {None}]
          /\ left' \in [Worker -> -Slack..Validity]
      BY <2>6, TypeParts DEF Crash
    <3>5. want' \in [Worker -> BOOLEAN]
      BY <2>6 DEF Crash, Forget
    <3>6. phase' \in [Worker -> {"up", "stopping", "down"}]
      BY <2>6 DEF Crash
    <3>7. events' \in Nat /\ UNCHANGED <<holder, ttl>>
      BY <2>6 DEF Crash
    <3> QED BY <3>1, <3>3, <3>4, <3>5, <3>6, <3>7
  <2> QED BY <1>3, <2>1, <2>2, <2>3, <2>4, <2>5, <2>6 DEF Owner, Process
<1>4. ASSUME NEW c \in calls, Call(c)
      PROVE  TypeOK'
  <2>1. CASE Execute(c)
    <3>1. [c EXCEPT !.state = "yes"] \in Calls /\ [c EXCEPT !.state = "no"] \in Calls
      BY GrantedType DEF Calls
    <3>2. calls' \subseteq Calls
      BY <2>1, <3>1 DEF Execute, TypeOK
    <3>3. holder' \in Token \cup {None} /\ ttl' \in 0..Lease
      BY <2>1, GrantedType DEF Execute, TypeOK
    <3> QED BY <2>1, <3>2, <3>3 DEF Execute, TypeOK
  <2>2. CASE Vanish(c)
    BY <2>2 DEF Vanish, TypeOK
  <2>3. CASE Answer(c)
    <3>1. calls \ {c} \subseteq Calls
      BY DEF TypeOK
    <3> QED BY <2>3, <3>1, TypeContinue DEF Answer, TypeOK
  <2>4. CASE Fail(c)
    <3> DEFINE rest == (calls \ {c}) \cup (IF c.state = "sent" THEN {Gone(c)} ELSE {})
    <3>1. rest \subseteq Calls
      BY GrantedType DEF TypeOK
    <3>2. Continue(c, FALSE, rest) /\ events' = events + 1
      BY <2>4 DEF Fail
    <3> HIDE DEF rest
    <3>3. /\ want' \in [Worker -> BOOLEAN] /\ retry' \in [Worker -> BOOLEAN]
          /\ attempt' \in [Worker -> Token \cup {None}]
          /\ stage' \in [Worker -> {"none", "claim", "connect", "open", "error"}]
          /\ lease' \in [Worker -> Token \cup {None}]
          /\ left' \in [Worker -> -Slack..Validity]
          /\ calls' \subseteq Calls
          /\ UNCHANGED <<phase, redisVars>>
      BY <3>1, <3>2, TypeContinue
    <3> QED BY <3>2, <3>3 DEF TypeOK
  <2> QED BY <1>4, <2>1, <2>2, <2>3, <2>4 DEF Call
<1>5. CASE UNCHANGED vars
  BY <1>5 DEF vars, TypeOK
<1> QED BY <1>1, <1>2, <1>3, <1>4, <1>5 DEF Next

(* Every variable keeps its type: the clients and leases of the workers,    *)
(* the lease key in Redis and the commands on their way.                    *)
THEOREM TypeCorrect == Spec => []TypeOK
<1>1. Init => TypeOK
  BY DEF Init, TypeOK
<1> QED BY <1>1, TypeStep, PTL DEF Spec

----------------------------------------------------------------------------
(* Safety.  LeaseBacked and the agreement of leases and sockets depend on   *)
(* what the commands on their way may still do: a claim that is waited for  *)
(* is the only command with its id, a lease that is trusted has no release  *)
(* on its way, and a positive answer that can still be used describes what  *)
(* Redis holds until the lease it grants would end.                         *)

ClientInv ==
  \A w \in Worker :
    /\ stage[w] \in {"none", "error"} <=> attempt[w] = None
    /\ attempt[w] # None \/ retry[w] \/ stage[w] = "error" => Up(w) /\ want[w]
    /\ Up(w) /\ want[w] =>
         (retry[w] <=> attempt[w] = None /\ stage[w] # "error")
    /\ ~Up(w) => ~want[w]
    /\ phase[w] = "down" => lease[w] = None

ClaimsWait ==
  \A w \in Worker :
    stage[w] = "claim" =>
      \E c \in calls : /\ c.op \in {"claim", "undo"} /\ Waiting(c)
                       /\ c.token = attempt[w] /\ c.worker = w

ClaimsAlone ==
  \A c \in calls : c.op = "claim" /\ Waiting(c) =>
    /\ \A w \in Worker : lease[w] # c.token
    /\ \A d \in calls : d.token = c.token => d = c

NoStrayRelease ==
  \A w \in Worker : lease[w] # None =>
    \A c \in calls : c.token = lease[w] => c.op \in {"claim", "renew"}

LeasesDiffer ==
  \A v, w \in Worker : lease[v] = lease[w] /\ lease[v] # None => v = w

AnswersBacked ==
  \A c \in calls :
    /\ c.state = "yes" /\ c.age < Validity
    /\ \/ c.op = "claim"
       \/ c.op = "renew" /\ Up(c.worker) /\ lease[c.worker] = c.token
    => holder = c.token /\ ttl >= Lease - c.age

WorkerInv == ClientInv /\ LeaseFollowsSocket /\ ClaimsWait
CallInv == ClaimsAlone /\ NoStrayRelease /\ LeasesDiffer
RedisInv == LeaseBacked /\ AnswersBacked
IInv == TypeOK /\ WorkerInv /\ CallInv /\ RedisInv

(* What follows when a client releases its lease.                           *)
LEMMA ReleaseEffect ==
  ASSUME TypeOK, ClientInv, LeaseFollowsSocket,
         NEW w \in Worker, Up(w), Release(w)
  PROVE  /\ lease' = [lease EXCEPT ![w] = None]
         /\ \A v \in Worker \ {w} : left'[v] = left[v]
         /\ \A c \in ReleaseOf(w) :
              lease[w] # None /\ c = Command("release", w, lease[w])
<1>1. lease[w] # None => attempt[w] # None /\ lease[w] = attempt[w]
  BY DEF ClientInv, LeaseFollowsSocket, Reaching
<1>2. CASE lease[w] = None
  BY <1>2 DEF ReleaseOf, Release, TypeOK
<1>3. CASE lease[w] # None
  <2>1. ReleaseOf(w) = {Command("release", w, lease[w])}
    BY <1>1, <1>3 DEF ReleaseOf
  <2> QED BY <1>3, <2>1 DEF Release, Unleased, TypeOK
<1> QED BY <1>2, <1>3

(* A client begins an attempt: its worker has no lease then, and the only   *)
(* other command it may send is the release of the lease it had.            *)
LEMMA AttemptBegins ==
  ASSUME IInv, TypeOK', NEW w \in Worker,
         NEW rest, Connect(w, rest),
         \A c \in rest \ calls : lease[w] # None /\ c = Command("release", w, lease[w]),
         calls \subseteq rest,
         phase' = [phase EXCEPT ![w] = "up"], want' = [want EXCEPT ![w] = TRUE],
         lease' = [lease EXCEPT ![w] = None],
         \A v \in Worker \ {w} : left'[v] = left[v],
         UNCHANGED redisVars
  PROVE  IInv'
<1> PICK t \in Token :
      /\ Fresh(t)
      /\ attempt' = [attempt EXCEPT ![w] = t]
      /\ stage' = [stage EXCEPT ![w] = "claim"]
      /\ retry' = [retry EXCEPT ![w] = FALSE]
      /\ calls' = rest \cup {Command("claim", w, t)}
  BY DEF Connect
<1> DEFINE new == Command("claim", w, t)
<1>1. /\ new.op = "claim" /\ new.worker = w /\ new.token = t
      /\ new.state = "sent" /\ Waiting(new)
  BY DEF Command, Waiting
<1>2. \A c \in calls' : c # new /\ c \notin calls =>
        /\ lease[w] # None /\ c.op = "release" /\ c.token = lease[w]
        /\ c.state = "sent"
  BY DEF Command
<1>3. t # None /\ (\A v \in Worker : lease[v] # t) /\ (\A c \in calls : c.token # t)
  BY NoneIsNoToken DEF Fresh
<1>4. \A c \in calls' : c.token = t => c = new
  BY <1>2, <1>3
<1> HIDE DEF new
<1> USE DEF IInv, TypeOK
<1>5. \A v \in Worker : lease'[v] = IF v = w THEN None ELSE lease[v]
  OBVIOUS
<1>6. ClientInv'
  BY <1>3, <1>5 DEF WorkerInv, ClientInv, Up
<1>7. LeaseFollowsSocket'
  BY <1>3, <1>5 DEF WorkerInv, LeaseFollowsSocket, Up, Reaching
<1>8. ClaimsWait'
  <2> SUFFICES ASSUME NEW v \in Worker, stage'[v] = "claim"
               PROVE  \E c \in calls' : /\ c.op \in {"claim", "undo"} /\ Waiting(c)
                                        /\ c.token = attempt'[v] /\ c.worker = v
    BY DEF ClaimsWait, Waiting
  <2>1. CASE v = w
    BY <2>1, <1>1 DEF new
  <2>2. CASE v # w
    BY <2>2 DEF WorkerInv, ClaimsWait
  <2> QED BY <2>1, <2>2
<1>9. ClaimsAlone'
  <2> SUFFICES ASSUME NEW c \in calls', c.op = "claim", Waiting(c)
               PROVE  /\ \A v \in Worker : lease'[v] # c.token
                      /\ \A d \in calls' : d.token = c.token => d = c
    BY DEF ClaimsAlone, Waiting
  <2>1. CASE c = new
    BY <2>1, <1>1, <1>3, <1>4, <1>5
  <2>2. CASE c # new
    <3>1. c \in calls /\ c.token # t
      BY <2>2, <1>2, <1>3
    <3>2. /\ \A v \in Worker : lease[v] # c.token
          /\ \A d \in calls : d.token = c.token => d = c
      BY <3>1 DEF CallInv, ClaimsAlone
    <3>3. c.token # None
      BY <3>1, GrantedType, NoneIsNoToken
    <3> QED BY <3>1, <3>2, <3>3, <1>1, <1>2, <1>5
  <2> QED BY <2>1, <2>2
<1>10. NoStrayRelease'
  BY <1>1, <1>2, <1>3, <1>5 DEF CallInv, NoStrayRelease, LeasesDiffer
<1>11. LeasesDiffer'
  BY <1>5 DEF CallInv, LeasesDiffer
<1>12. LeaseBacked'
  BY <1>5 DEF RedisInv, LeaseBacked, redisVars, Up
<1>13. AnswersBacked'
  BY <1>1, <1>2, <1>3, <1>5, GrantedType, NoneIsNoToken
    DEF RedisInv, AnswersBacked, redisVars, Up
<1> QED BY <1>6, <1>7, <1>8, <1>9, <1>10, <1>11, <1>12, <1>13
      DEF WorkerInv, CallInv, RedisInv

(* Commands may disappear or lose the coroutine that waits for them.        *)
Descends(rest) ==
  \A d \in rest : \/ d \in calls
                  \/ /\ d.state = "gone"
                     /\ \E c \in calls \ rest : d.op = c.op /\ d.token = c.token

LEMMA DescendsKeeps ==
  ASSUME CallInv, NEW rest, Descends(rest)
  PROVE  /\ \A d \in rest : \E c \in calls : d.op = c.op /\ d.token = c.token
         /\ \A d \in rest : Waiting(d) => d \in calls
         /\ \A d \in rest : d.state = "yes" => d \in calls
         /\ \A e \in rest : e.op = "claim" /\ Waiting(e) =>
              /\ \A v \in Worker : lease[v] # e.token
              /\ \A d \in rest : d.token = e.token => d = e
  BY DEF CallInv, ClaimsAlone, Descends, Waiting

LEMMA GoneFields ==
  ASSUME TypeOK, NEW c \in calls
  PROVE  Gone(c).state = "gone" /\ Gone(c).op = c.op /\ Gone(c).token = c.token
  BY GrantedType DEF Gone, Calls

(* What a coroutine leaves when its command is answered or has failed.      *)
LEMMA RestDescends ==
  ASSUME TypeOK, NEW c \in calls, Waiting(c), NEW rest,
         \/ rest = calls \ {c}
         \/ rest = (calls \ {c}) \cup {Gone(c)}
  PROVE  Descends(rest) /\ c \notin rest /\ calls \ {c} \subseteq rest
<1>1. Gone(c).state = "gone" /\ Gone(c).op = c.op /\ Gone(c).token = c.token
  BY GoneFields
<1>2. c # Gone(c)
  BY <1>1 DEF Waiting
<1> QED BY <1>1, <1>2 DEF Descends

(* An attempt ends, or none begins: the client of w has no socket, and w no *)
(* lease.                                                                   *)
LEMMA AttemptEnds ==
  ASSUME IInv, TypeOK', NEW w \in Worker,
         NEW rest, Descends(rest),
         \A c \in calls : Waiting(c) /\ c.worker # w => c \in rest,
         rest \subseteq calls',
         \A c \in calls' \ rest : lease[w] # None /\ c = Command("release", w, lease[w]),
         attempt' = [attempt EXCEPT ![w] = None],
         \/ /\ want' = [want EXCEPT ![w] = TRUE]
            /\ stage' = [stage EXCEPT ![w] = "none"]
            /\ retry' = [retry EXCEPT ![w] = TRUE]
         \/ /\ want' = [want EXCEPT ![w] = TRUE]
            /\ stage' = [stage EXCEPT ![w] = "error"]
            /\ retry' = [retry EXCEPT ![w] = FALSE]
         \/ /\ want' = [want EXCEPT ![w] = FALSE]
            /\ stage' = [stage EXCEPT ![w] = "none"]
            /\ retry' = [retry EXCEPT ![w] = FALSE],
         phase' = [phase EXCEPT ![w] = "up"],
         lease' = [lease EXCEPT ![w] = None],
         \A v \in Worker \ {w} : left'[v] = left[v],
         UNCHANGED redisVars
  PROVE  IInv'
<1> USE DEF IInv, TypeOK
<1>1. \A c \in calls' : c \notin rest =>
        /\ lease[w] # None /\ c.op = "release" /\ c.token = lease[w]
        /\ c.state = "sent"
  BY DEF Command
<1>2. \A v \in Worker : lease'[v] = IF v = w THEN None ELSE lease[v]
  OBVIOUS
<1>3. ClientInv'
  BY <1>2 DEF WorkerInv, ClientInv, Up
<1>4. LeaseFollowsSocket'
  BY <1>2 DEF WorkerInv, LeaseFollowsSocket, Up, Reaching
<1>5. ClaimsWait'
  BY DEF WorkerInv, ClaimsWait, Waiting
<1>6. ClaimsAlone'
  <2> SUFFICES ASSUME NEW c \in calls', c.op = "claim", Waiting(c)
               PROVE  /\ \A v \in Worker : lease'[v] # c.token
                      /\ \A d \in calls' : d.token = c.token => d = c
    BY DEF ClaimsAlone, Waiting
  <2>1. c \in rest /\ c \in calls
    BY <1>1, DescendsKeeps
  <2>2. /\ \A v \in Worker : lease[v] # c.token
        /\ \A d \in rest : d.token = c.token => d = c
    BY <2>1, DescendsKeeps
  <2>3. c.token # None
    BY <2>1, GrantedType, NoneIsNoToken
  <2> QED BY <2>2, <2>3, <1>1, <1>2
<1>7. NoStrayRelease'
  BY <1>1, <1>2, DescendsKeeps DEF CallInv, NoStrayRelease, LeasesDiffer
<1>8. LeasesDiffer'
  BY <1>2 DEF CallInv, LeasesDiffer
<1>9. LeaseBacked'
  BY <1>2 DEF RedisInv, LeaseBacked, redisVars, Up
<1>10. AnswersBacked'
  <2> SUFFICES ASSUME NEW c \in calls', c.state = "yes", c.age < Validity,
                      \/ c.op = "claim"
                      \/ c.op = "renew" /\ Up(c.worker)' /\ lease'[c.worker] = c.token
               PROVE  holder' = c.token /\ ttl' >= Lease - c.age
    BY DEF AnswersBacked
  <2>1. c \in calls
    BY <1>1, DescendsKeeps
  <2>2. c.worker \in Worker /\ c.token # None
    BY <2>1, GrantedType, NoneIsNoToken
  <2> QED BY <2>1, <2>2, <1>2 DEF RedisInv, AnswersBacked, redisVars, Up
<1> QED BY <1>3, <1>4, <1>5, <1>6, <1>7, <1>8, <1>9, <1>10
      DEF WorkerInv, CallInv, RedisInv

(* A command ends without effect on its client; a claim may leave a command *)
(* that gives the lease back.                                               *)
LEMMA CommandEnds ==
  ASSUME IInv, TypeOK', NEW c \in calls, Waiting(c),
         NEW rest, Descends(rest), c \notin rest, calls \ {c} \subseteq rest,
         rest \subseteq calls',
         \A d \in calls' \ rest :
           c.op = "claim" /\ \E op \in {"undo", "release"} : d = Command(op, c.worker, c.token),
         c.op \in {"claim", "undo"} /\ attempt[c.worker] = c.token
           => Command("undo", c.worker, c.token) \in calls',
         UNCHANGED <<phase, clientVars, lease, left, redisVars>>
  PROVE  IInv'
<1> USE DEF IInv, TypeOK, clientVars
<1>1. \A d \in calls' : d \notin rest =>
        /\ c.op = "claim" /\ d.op \in {"undo", "release"} /\ d.token = c.token
        /\ d.state = "sent"
  BY DEF Command
<1>2. ClientInv' /\ LeaseFollowsSocket'
  BY DEF WorkerInv, ClientInv, LeaseFollowsSocket, Up, Reaching
<1>3. ClaimsWait'
  <2> SUFFICES ASSUME NEW v \in Worker, stage[v] = "claim"
               PROVE  \E d \in calls' : /\ d.op \in {"claim", "undo"} /\ Waiting(d)
                                        /\ d.token = attempt[v] /\ d.worker = v
    BY DEF ClaimsWait, Waiting
  <2>1. PICK d \in calls : /\ d.op \in {"claim", "undo"} /\ Waiting(d)
                           /\ d.token = attempt[v] /\ d.worker = v
    BY DEF WorkerInv, ClaimsWait
  <2>2. CASE d = c
    BY <2>1, <2>2 DEF Command, Waiting
  <2> QED BY <2>1, <2>2
<1>4. ClaimsAlone'
  <2> SUFFICES ASSUME NEW e \in calls', e.op = "claim", Waiting(e)
               PROVE  /\ \A v \in Worker : lease[v] # e.token
                      /\ \A d \in calls' : d.token = e.token => d = e
    BY DEF ClaimsAlone, Waiting
  <2>1. e \in rest /\ e \in calls /\ e # c
    BY <1>1, DescendsKeeps
  <2>2. /\ \A v \in Worker : lease[v] # e.token
        /\ \A d \in rest : d.token = e.token => d = e
    BY <2>1, DescendsKeeps
  <2>3. e.token # c.token
    BY <2>1 DEF CallInv, ClaimsAlone
  <2> QED BY <2>2, <2>3, <1>1
<1>5. NoStrayRelease'
  <2>1. c.op = "claim" => \A v \in Worker : lease[v] # c.token
    BY DEF CallInv, ClaimsAlone
  <2> QED BY <2>1, <1>1, DescendsKeeps DEF CallInv, NoStrayRelease
<1>6. LeasesDiffer' /\ LeaseBacked'
  BY DEF CallInv, LeasesDiffer, RedisInv, LeaseBacked, redisVars, Up
<1>7. AnswersBacked'
  BY <1>1, DescendsKeeps DEF RedisInv, AnswersBacked, redisVars, Up
<1> QED BY <1>2, <1>3, <1>4, <1>5, <1>6, <1>7 DEF WorkerInv, CallInv, RedisInv

(* The coroutine of a command goes on: its claim is answered, its lease is  *)
(* renewed or lost, or nothing depends on it any more.                      *)
LEMMA SafeContinue ==
  ASSUME IInv, TypeOK', NEW c \in calls, Waiting(c), NEW ok \in BOOLEAN,
         NEW rest, ok => c.state = "yes" /\ rest = calls \ {c},
         Descends(rest), c \notin rest, calls \ {c} \subseteq rest,
         Continue(c, ok, rest)
  PROVE  IInv'
<1> DEFINE w == c.worker
           t == c.token
<1> USE DEF IInv
<1>1. w \in Worker /\ t \in Token /\ t # None /\ c.age \in 0..Validity
  BY GrantedType, NoneIsNoToken
<1>2. UNCHANGED <<phase, redisVars>>
  BY DEF Continue
<1>3. CASE c.op = "claim" /\ ok /\ Claimed(c, rest)
  <2>1. (\A v \in Worker : lease[v] # t) /\ (\A d \in calls : d.token = t => d = c)
    BY <1>3 DEF CallInv, ClaimsAlone
  <2>2. CASE ~Usable(c)
    <3>1. calls' = rest \cup {Command("undo", w, t)} /\ UNCHANGED <<clientVars, lease, left>>
      BY <1>3, <2>2 DEF Claimed
    <3> QED BY <1>2, <1>3, <3>1, CommandEnds
  <2>3. CASE Usable(c) /\ attempt[w] # t
    <3>1. calls' = rest \cup {Command("release", w, t)} /\ UNCHANGED <<clientVars, lease, left>>
      BY <1>3, <2>3 DEF Claimed
    <3> QED BY <1>2, <1>3, <2>3, <3>1, CommandEnds
  <2>4. CASE Usable(c) /\ attempt[w] = t
    <3>1. /\ lease' = [lease EXCEPT ![w] = t]
          /\ left' = [left EXCEPT ![w] = Validity - c.age]
          /\ stage' = [stage EXCEPT ![w] = "connect"]
          /\ calls' = rest /\ UNCHANGED <<want, attempt, retry>>
      BY <1>3, <2>4 DEF Claimed, Remaining
    <3>2. Up(w) /\ c.age < Validity /\ lease[w] = None
      BY <2>4 DEF Usable
    <3>3. \A v \in Worker : lease'[v] = IF v = w THEN t ELSE lease[v]
      BY <3>1 DEF TypeOK
    <3>4. \A d \in rest : d.token # t
      BY <1>3, <2>1
    <3>5. holder = t /\ ttl >= Lease - c.age
      BY <1>3, <3>2 DEF RedisInv, AnswersBacked
    <3> USE DEF TypeOK
    <3>6. ClientInv'
      BY <1>1, <1>2, <2>4, <3>1, <3>2, <3>3 DEF WorkerInv, ClientInv, Up
    <3>7. LeaseFollowsSocket'
      BY <1>1, <1>2, <2>4, <3>1, <3>2, <3>3
        DEF WorkerInv, LeaseFollowsSocket, Up, Reaching
    <3>8. ClaimsWait'
      BY <1>1, <3>1 DEF WorkerInv, ClaimsWait, Waiting
    <3>9. ClaimsAlone'
      <4> SUFFICES ASSUME NEW e \in rest, e.op = "claim", Waiting(e)
                   PROVE  /\ \A v \in Worker : lease'[v] # e.token
                          /\ \A d \in rest : d.token = e.token => d = e
        BY <3>1 DEF ClaimsAlone, Waiting
      <4> QED BY <3>3, <3>4, DescendsKeeps
    <3>10. NoStrayRelease'
      BY <3>1, <3>3, <3>4, DescendsKeeps DEF CallInv, NoStrayRelease
    <3>11. LeasesDiffer'
      BY <2>1, <3>3 DEF CallInv, LeasesDiffer
    <3>12. LeaseBacked'
      BY <1>1, <1>2, <3>1, <3>3, <3>5 DEF RedisInv, LeaseBacked, redisVars, Up
    <3>13. AnswersBacked'
      BY <1>2, <3>1, <3>3, <3>4, DescendsKeeps, GrantedType
        DEF RedisInv, AnswersBacked, redisVars, Up
    <3> QED BY <3>6, <3>7, <3>8, <3>9, <3>10, <3>11, <3>12, <3>13
            DEF WorkerInv, CallInv, RedisInv
  <2> QED BY <2>2, <2>3, <2>4
<1>4. CASE c.op \in {"claim", "undo"} /\ Refused(c, rest)
  <2>1. lease[w] # t
    BY <1>1, <1>4 DEF CallInv, ClaimsAlone, NoStrayRelease
  <2>2. CASE attempt[w] # t
    <3>1. calls' = rest /\ UNCHANGED <<clientVars, lease, left>>
      BY <1>4, <2>2 DEF Refused
    <3> QED BY <1>2, <2>2, <3>1, CommandEnds
  <2>3. CASE attempt[w] = t
    <3>1. Up(w) /\ want[w] /\ lease[w] = None
      BY <1>1, <2>1, <2>3 DEF WorkerInv, ClientInv, LeaseFollowsSocket
    <3>2. lease' = [lease EXCEPT ![w] = None]
      BY <1>1, <1>4, <3>1 DEF Refused, TypeOK
    <3>3. /\ calls' = rest /\ UNCHANGED <<want, left>>
          /\ attempt' = [attempt EXCEPT ![w] = None]
          /\ stage' = [stage EXCEPT ![w] = "none"]
          /\ retry' = [retry EXCEPT ![w] = TRUE]
      BY <1>4, <2>3 DEF Refused, Leave, NoAttempt
    <3>4. /\ phase' = [phase EXCEPT ![w] = "up"]
          /\ want' = [want EXCEPT ![w] = TRUE]
      BY <1>2, <3>1, <3>3 DEF TypeOK, Up
    <3> QED BY <1>1, <1>2, <3>2, <3>3, <3>4, AttemptEnds
  <2> QED BY <2>2, <2>3
<1>5. CASE c.op = "renew" /\ Renewed(c, ok, rest)
  <2>1. CASE UNCHANGED <<clientVars, lease, left>>
    BY <1>2, <1>5, <2>1, CommandEnds DEF Renewed
  <2>2. CASE /\ Up(w) /\ lease[w] = t
             /\ ok /\ c.age < Validity
             /\ left' = [left EXCEPT ![w] = Validity - c.age]
             /\ UNCHANGED <<clientVars, lease>>
    <3>1. calls' = rest
      BY <1>5 DEF Renewed
    <3>2. holder = t /\ ttl >= Lease - c.age
      BY <1>5, <2>2 DEF RedisInv, AnswersBacked
    <3> USE DEF TypeOK, clientVars
    <3>3. ClientInv' /\ LeaseFollowsSocket' /\ LeasesDiffer'
      BY <1>2, <2>2 DEF WorkerInv, CallInv, ClientInv, LeaseFollowsSocket,
                        LeasesDiffer, Up, Reaching
    <3>4. ClaimsWait'
      BY <1>5, <2>2, <3>1 DEF WorkerInv, ClaimsWait, Waiting
    <3>5. ClaimsAlone'
      <4> SUFFICES ASSUME NEW e \in rest, e.op = "claim", Waiting(e)
                   PROVE  /\ \A v \in Worker : lease[v] # e.token
                          /\ \A d \in rest : d.token = e.token => d = e
        BY <2>2, <3>1 DEF ClaimsAlone, Waiting
      <4> QED BY DescendsKeeps
    <3>6. NoStrayRelease'
      BY <2>2, <3>1, DescendsKeeps DEF CallInv, NoStrayRelease
    <3>7. LeaseBacked'
      BY <1>1, <1>2, <2>2, <3>2 DEF RedisInv, LeaseBacked, redisVars, Up
    <3>8. AnswersBacked'
      BY <1>2, <2>2, <3>1, DescendsKeeps DEF RedisInv, AnswersBacked, redisVars,
         Up
    <3> QED BY <3>3, <3>4, <3>5, <3>6, <3>7, <3>8 DEF WorkerInv, CallInv,
               RedisInv
  <2>3. CASE Up(w) /\ lease[w] = t /\ Unleased(w) /\ Revoke(w, t)
    <3>1. attempt[w] = t /\ want[w]
      BY <1>1, <2>3 DEF WorkerInv, ClientInv, LeaseFollowsSocket
    <3>2. /\ calls' = rest /\ UNCHANGED want
          /\ attempt' = [attempt EXCEPT ![w] = None]
          /\ stage' = [stage EXCEPT ![w] = "none"]
          /\ retry' = [retry EXCEPT ![w] = TRUE]
          /\ lease' = [lease EXCEPT ![w] = None]
          /\ left' = [left EXCEPT ![w] = 0]
      BY <1>5, <2>3, <3>1 DEF Renewed, Unleased, Revoke, Leave, NoAttempt
    <3>3. \A v \in Worker \ {w} : left'[v] = left[v]
      BY <3>2 DEF TypeOK
    <3>4. /\ phase' = [phase EXCEPT ![w] = "up"]
          /\ want' = [want EXCEPT ![w] = TRUE]
      BY <1>2, <2>3, <3>1, <3>2 DEF TypeOK, Up
    <3> QED BY <1>1, <1>2, <3>2, <3>3, <3>4, AttemptEnds
  <2> QED BY <1>5, <2>1, <2>2, <2>3 DEF Renewed, Remaining
<1>6. CASE c.op = "release" /\ calls' = rest /\ UNCHANGED <<clientVars, lease, left>>
  BY <1>2, <1>6, CommandEnds
<1> QED BY <1>3, <1>4, <1>5, <1>6 DEF Continue

(* Redis executes a command, at once or long after it was given up: it can  *)
(* only take away a lease that no worker trusts.                            *)
LEMMA SafeExecute ==
  ASSUME IInv, TypeOK', NEW c \in calls, Execute(c)
  PROVE  IInv'
<1> DEFINE done == [c EXCEPT !.state = IF Granted(c) THEN "yes" ELSE "no"]
<1> USE DEF IInv, clientVars
<1>1. /\ c \in Calls /\ c.token \in Token /\ c.token # None /\ c.age \in 0..Validity
      /\ c.op \in Op /\ c.worker \in Worker
  BY GrantedType, NoneIsNoToken
<1>2. /\ done.op = c.op /\ done.token = c.token /\ done.age = c.age
      /\ done.worker = c.worker /\ done.state \in {"yes", "no"}
      /\ done.state = "yes" => Granted(c)
  BY <1>1 DEF Calls
<1> HIDE DEF done
<1>3. /\ calls \ {c} \subseteq calls'
      /\ \A d \in calls' : d \in calls \ {c} \/ (d = done /\ c.state = "sent")
      /\ c.state = "sent" /\ c.op # "release" => done \in calls'
      /\ UNCHANGED <<phase, want, attempt, stage, retry, lease, left>>
  BY DEF Execute, done
<1>4. /\ ~Granted(c) => UNCHANGED redisVars
      /\ Granted(c) /\ c.op \in {"claim", "renew"} => holder' = c.token /\ ttl' = Lease
      /\ Granted(c) => holder = c.token \/ holder = None
      /\ Granted(c) /\ c.op \notin {"claim", "renew"} => holder = c.token
  BY DEF Execute, Granted
<1>5. ClientInv' /\ LeaseFollowsSocket' /\ LeasesDiffer'
  BY <1>3 DEF WorkerInv, CallInv, ClientInv, LeaseFollowsSocket, LeasesDiffer,
              Up, Reaching
<1>6. ClaimsWait'
  <2> SUFFICES ASSUME NEW v \in Worker, stage[v] = "claim"
               PROVE  \E d \in calls' : /\ d.op \in {"claim", "undo"} /\ Waiting(d)
                                        /\ d.token = attempt[v] /\ d.worker = v
    BY <1>3 DEF ClaimsWait, Waiting
  <2>1. PICK d \in calls : /\ d.op \in {"claim", "undo"} /\ Waiting(d)
                           /\ d.token = attempt[v] /\ d.worker = v
    BY DEF WorkerInv, ClaimsWait
  <2>2. CASE d = c
    BY <1>2, <1>3, <2>1, <2>2 DEF Waiting, Execute
  <2> QED BY <1>3, <2>1, <2>2
<1>7. ClaimsAlone'
  <2> SUFFICES ASSUME NEW e \in calls', e.op = "claim", Waiting(e)
               PROVE  /\ \A v \in Worker : lease[v] # e.token
                      /\ \A d \in calls' : d.token = e.token => d = e
    BY <1>3 DEF ClaimsAlone, Waiting
  <2>1. CASE e = done /\ c.state = "sent"
    <3>1. /\ \A v \in Worker : lease[v] # c.token
          /\ \A d \in calls : d.token = c.token => d = c
      BY <1>2, <2>1 DEF CallInv, ClaimsAlone, Waiting
    <3> QED BY <1>2, <1>3, <2>1, <3>1
  <2>2. CASE e \in calls \ {c}
    <3>1. /\ \A v \in Worker : lease[v] # e.token
          /\ \A d \in calls : d.token = e.token => d = e
      BY <2>2 DEF CallInv, ClaimsAlone
    <3> QED BY <1>2, <1>3, <2>2, <3>1
  <2> QED BY <1>3, <2>1, <2>2
<1>8. NoStrayRelease'
  BY <1>2, <1>3 DEF CallInv, NoStrayRelease
<1>9. LeaseBacked'
  <2> SUFFICES ASSUME NEW w \in Worker, Up(w), lease[w] # None
               PROVE  holder' = lease[w] /\ ttl' >= left[w] + (Lease - Validity)
    BY <1>3 DEF LeaseBacked, Up
  <2>1. holder = lease[w] /\ ttl >= left[w] + (Lease - Validity)
    BY DEF RedisInv, LeaseBacked
  <2>2. left[w] \in -Slack..Validity
    BY DEF TypeOK
  <2>3. c.token = lease[w] => c.op \in {"claim", "renew"}
    BY DEF CallInv, NoStrayRelease
  <2>4. CASE Granted(c)
    BY <1>4, <2>1, <2>2, <2>3, <2>4
  <2>5. CASE ~Granted(c)
    BY <1>4, <2>1, <2>5 DEF redisVars
  <2> QED BY <2>4, <2>5
<1>10. AnswersBacked'
  <2> SUFFICES ASSUME NEW d \in calls', d.state = "yes", d.age < Validity,
                      \/ d.op = "claim"
                      \/ d.op = "renew" /\ Up(d.worker) /\ lease[d.worker] = d.token
               PROVE  holder' = d.token /\ ttl' >= Lease - d.age
    BY <1>3 DEF AnswersBacked, Up
  <2>1. CASE d = done /\ c.state = "sent"
    BY <1>1, <1>2, <1>4, <2>1
  <2>2. CASE d \in calls \ {c}
    <3>1. /\ holder = d.token /\ ttl >= Lease - d.age
          /\ d.age \in 0..Validity /\ d.token # None /\ d.worker \in Worker
      BY <2>2, GrantedType, NoneIsNoToken DEF RedisInv, AnswersBacked
    <3>2. c.token = d.token => c.op \in {"claim", "renew"}
      BY <2>2, <3>1 DEF CallInv, ClaimsAlone, NoStrayRelease, Waiting
    <3>3. CASE Granted(c)
      BY <1>4, <3>1, <3>2, <3>3
    <3>4. CASE ~Granted(c)
      BY <1>4, <3>1, <3>4 DEF redisVars
    <3> QED BY <3>3, <3>4
  <2> QED BY <1>3, <2>1, <2>2
<1> QED BY <1>5, <1>6, <1>7, <1>8, <1>9, <1>10 DEF WorkerInv, CallInv, RedisInv

(* Time passes: the key in Redis outlives every lease that is trusted.      *)
LEMMA SafeTick ==
  ASSUME IInv, TypeOK', Tick
  PROVE  IInv'
<1> USE DEF IInv, clientVars
<1>1. \A c \in calls :
        /\ Older(c).op = c.op /\ Older(c).token = c.token
        /\ Older(c).worker = c.worker /\ Older(c).state = c.state
        /\ c.state = "yes" /\ c.op \in {"claim", "renew"} /\ Older(c).age < Validity
             => c.age < Validity /\ Older(c).age = c.age + 1
  BY GrantedType DEF Older, Calls, Waiting
<1>2. /\ calls' = {Older(c) : c \in calls}
      /\ UNCHANGED <<phase, want, attempt, stage, retry, lease>>
      /\ ttl >= 2 => holder' = holder /\ ttl' = ttl - 1
  BY DEF Tick, TypeOK
<1>3. ClientInv' /\ LeaseFollowsSocket' /\ LeasesDiffer'
  BY <1>2 DEF WorkerInv, CallInv, ClientInv, LeaseFollowsSocket, LeasesDiffer,
              Up, Reaching
<1>4. ClaimsWait'
  BY <1>1, <1>2 DEF WorkerInv, ClaimsWait, Waiting
<1>5. ClaimsAlone'
  BY <1>1, <1>2 DEF CallInv, ClaimsAlone, Waiting
<1>6. NoStrayRelease'
  BY <1>1, <1>2 DEF CallInv, NoStrayRelease
<1>7. LeaseBacked'
  <2> SUFFICES ASSUME NEW w \in Worker, Up(w), lease[w] # None
               PROVE  holder' = lease[w] /\ ttl' >= left'[w] + (Lease - Validity)
    BY <1>2 DEF LeaseBacked, Up
  <2>1. holder = lease[w] /\ ttl >= left[w] + (Lease - Validity) /\ left[w] > -Slack
    BY DEF RedisInv, LeaseBacked, Tick
  <2>2. left'[w] = left[w] - 1 /\ left[w] \in -Slack..Validity /\ ttl \in Nat
    BY DEF Tick, TypeOK
  <2> QED BY <1>2, <2>1, <2>2
<1>8. AnswersBacked'
  <2> SUFFICES ASSUME NEW c \in calls,
                      Older(c).state = "yes", Older(c).age < Validity,
                      \/ c.op = "claim"
                      \/ c.op = "renew" /\ Up(c.worker) /\ lease[c.worker] = c.token
               PROVE  holder' = c.token /\ ttl' >= Lease - Older(c).age
    BY <1>1, <1>2 DEF AnswersBacked, Up
  <2>1. c.state = "yes" /\ c.age < Validity /\ Older(c).age = c.age + 1
    BY <1>1
  <2>2. holder = c.token /\ ttl >= Lease - c.age
    BY <2>1 DEF RedisInv, AnswersBacked
  <2>3. ttl \in Nat /\ c.age \in Nat
    BY GrantedType DEF TypeOK
  <2> QED BY <1>2, <2>1, <2>2, <2>3
<1> QED BY <1>3, <1>4, <1>5, <1>6, <1>7, <1>8 DEF WorkerInv, CallInv, RedisInv

(* A process ends, orderly or not: its worker trusts no lease any more.     *)
LEMMA WorkerDown ==
  ASSUME IInv, TypeOK', NEW w \in Worker,
         NEW rest, Descends(rest),
         \A c \in calls : c.worker # w => c \in rest,
         rest \subseteq calls',
         \A c \in calls' \ rest : lease[w] # None /\ c = Command("release", w, lease[w]),
         phase' = [phase EXCEPT ![w] = "down"],
         want' = [want EXCEPT ![w] = FALSE],
         attempt' = [attempt EXCEPT ![w] = None],
         stage' = [stage EXCEPT ![w] = "none"],
         retry' = [retry EXCEPT ![w] = FALSE],
         lease' = [lease EXCEPT ![w] = None],
         \A v \in Worker \ {w} : left'[v] = left[v],
         UNCHANGED redisVars
  PROVE  IInv'
<1> USE DEF IInv, TypeOK
<1>1. \A c \in calls' : c \notin rest =>
        /\ lease[w] # None /\ c.op = "release" /\ c.token = lease[w]
        /\ c.state = "sent"
  BY DEF Command
<1>2. \A v \in Worker : lease'[v] = IF v = w THEN None ELSE lease[v]
  OBVIOUS
<1>3. ClientInv'
  BY <1>2 DEF WorkerInv, ClientInv, Up
<1>4. LeaseFollowsSocket'
  BY <1>2 DEF WorkerInv, LeaseFollowsSocket, Up, Reaching
<1>5. ClaimsWait'
  BY DEF WorkerInv, ClaimsWait, Waiting
<1>6. ClaimsAlone'
  <2> SUFFICES ASSUME NEW c \in calls', c.op = "claim", Waiting(c)
               PROVE  /\ \A v \in Worker : lease'[v] # c.token
                      /\ \A d \in calls' : d.token = c.token => d = c
    BY DEF ClaimsAlone, Waiting
  <2>1. c \in rest /\ c \in calls
    BY <1>1, DescendsKeeps
  <2>2. /\ \A v \in Worker : lease[v] # c.token
        /\ \A d \in rest : d.token = c.token => d = c
    BY <2>1, DescendsKeeps
  <2>3. c.token # None
    BY <2>1, GrantedType, NoneIsNoToken
  <2> QED BY <2>2, <2>3, <1>1, <1>2
<1>7. NoStrayRelease'
  BY <1>1, <1>2, DescendsKeeps DEF CallInv, NoStrayRelease, LeasesDiffer
<1>8. LeasesDiffer'
  BY <1>2 DEF CallInv, LeasesDiffer
<1>9. LeaseBacked'
  BY <1>2 DEF RedisInv, LeaseBacked, redisVars, Up
<1>10. AnswersBacked'
  <2> SUFFICES ASSUME NEW c \in calls', c.state = "yes", c.age < Validity,
                      \/ c.op = "claim"
                      \/ c.op = "renew" /\ Up(c.worker)' /\ lease'[c.worker] = c.token
               PROVE  holder' = c.token /\ ttl' >= Lease - c.age
    BY DEF AnswersBacked
  <2>1. c \in calls
    BY <1>1, DescendsKeeps
  <2>2. c.worker \in Worker /\ c.token # None
    BY <2>1, GrantedType, NoneIsNoToken
  <2> QED BY <2>1, <2>2, <1>2 DEF RedisInv, AnswersBacked, redisVars, Up
<1> QED BY <1>3, <1>4, <1>5, <1>6, <1>7, <1>8, <1>9, <1>10
      DEF WorkerInv, CallInv, RedisInv

LEMMA AllDescend ==
  ASSUME IInv
  PROVE  Descends(calls)
  BY DEF Descends

(* A client begins, with an attempt or, without an address, without one.    *)
LEMMA ClientBegins ==
  ASSUME IInv, TypeOK', NEW w \in Worker,
         NEW rest, BeginConnect(w, rest),
         \A c \in rest \ calls : lease[w] # None /\ c = Command("release", w, lease[w]),
         calls \subseteq rest,
         phase' = [phase EXCEPT ![w] = "up"], want' = [want EXCEPT ![w] = TRUE],
         lease' = [lease EXCEPT ![w] = None],
         \A v \in Worker \ {w} : left'[v] = left[v],
         UNCHANGED redisVars
  PROVE  IInv'
<1>1. CASE Connect(w, rest)
  BY <1>1, AttemptBegins
<1>2. CASE GiveUp(w) /\ calls' = rest
  BY <1>2, AllDescend, AttemptEnds DEF GiveUp, NoAttempt
<1> QED BY <1>1, <1>2 DEF BeginConnect

LEMMA SafeClient ==
  ASSUME IInv, TypeOK', NEW w \in Worker, Client(w)
  PROVE  IInv'
<1> USE DEF IInv
<1>1. CASE Reconnect(w)
  <2>1. Up(w) /\ want[w] /\ attempt[w] = None /\ lease[w] = None
    BY <1>1 DEF Reconnect, WorkerInv, ClientInv, LeaseFollowsSocket, Reaching
  <2>2. /\ phase' = [phase EXCEPT ![w] = "up"]
        /\ want' = [want EXCEPT ![w] = TRUE]
        /\ lease' = [lease EXCEPT ![w] = None]
    BY <1>1, <2>1 DEF Reconnect, Up, TypeOK
  <2> QED BY <1>1, <2>2, AttemptBegins DEF Reconnect
<1>2. CASE Connected(w)
  <2> USE <1>2 DEF Connected, TypeOK
  <2>1. ClientInv'
    BY DEF WorkerInv, ClientInv, Up
  <2>2. LeaseFollowsSocket' /\ ClaimsWait'
    BY DEF WorkerInv, LeaseFollowsSocket, ClaimsWait, Reaching, Up, Waiting
  <2>3. CallInv' /\ RedisInv'
    BY DEF CallInv, ClaimsAlone, NoStrayRelease, LeasesDiffer, RedisInv,
       LeaseBacked,
           AnswersBacked, redisVars, Up, Waiting
  <2> QED BY <2>1, <2>2, <2>3 DEF WorkerInv
<1>3. CASE Disconnected(w)
  <2>1. Up(w) /\ want[w]
    BY <1>3 DEF Disconnected, WorkerInv, ClientInv
  <2>2. /\ lease' = [lease EXCEPT ![w] = None]
        /\ \A v \in Worker \ {w} : left'[v] = left[v]
        /\ \A c \in ReleaseOf(w) :
             lease[w] # None /\ c = Command("release", w, lease[w])
    BY <1>3, <2>1, ReleaseEffect DEF Disconnected, WorkerInv
  <2>3. /\ phase' = [phase EXCEPT ![w] = "up"]
        /\ want' = [want EXCEPT ![w] = TRUE]
    BY <1>3, <2>1 DEF Disconnected, Leave, Up, TypeOK
  <2> QED BY <1>3, <2>2, <2>3, AllDescend, AttemptEnds
          DEF Disconnected, Leave, NoAttempt
<1>4. CASE Appear(w)
  <2>1. Up(w) /\ attempt[w] = None /\ lease[w] = None
    BY <1>4 DEF Appear, WorkerInv, ClientInv, LeaseFollowsSocket, Reaching
  <2>2. /\ phase' = [phase EXCEPT ![w] = "up"]
        /\ want' = [want EXCEPT ![w] = TRUE]
        /\ lease' = [lease EXCEPT ![w] = None]
    BY <1>4, <2>1 DEF Appear, Up, TypeOK
  <2> QED BY <1>4, <2>2, ClientBegins DEF Appear
<1>5. CASE Disappear(w)
  <2>1. /\ lease' = [lease EXCEPT ![w] = None]
        /\ \A v \in Worker \ {w} : left'[v] = left[v]
        /\ \A c \in ReleaseOf(w) :
             lease[w] # None /\ c = Command("release", w, lease[w])
    BY <1>5, ReleaseEffect DEF Disappear, WorkerInv
  <2>2. phase' = [phase EXCEPT ![w] = "up"]
    BY <1>5 DEF Disappear, Up, TypeOK
  <2> QED BY <1>5, <2>1, <2>2, AllDescend, AttemptEnds DEF Disappear, NoAttempt
<1>6. CASE Replace(w)
  <2>1. /\ lease' = [lease EXCEPT ![w] = None]
        /\ \A v \in Worker \ {w} : left'[v] = left[v]
        /\ \A c \in ReleaseOf(w) :
             lease[w] # None /\ c = Command("release", w, lease[w])
    BY <1>6, ReleaseEffect DEF Replace, WorkerInv
  <2>2. /\ phase' = [phase EXCEPT ![w] = "up"]
        /\ want' = [want EXCEPT ![w] = TRUE]
    BY <1>6 DEF Replace, Up, TypeOK
  <2> DEFINE rest == calls \cup ReleaseOf(w)
  <2>3. \A c \in rest \ calls :
          lease[w] # None /\ c = Command("release", w, lease[w])
    BY <2>1
  <2>4. BeginConnect(w, rest) /\ UNCHANGED redisVars
    BY <1>6 DEF Replace
  <2> QED BY <2>1, <2>2, <2>3, <2>4, ClientBegins
<1>7. CASE ConnectFails(w)
  <2>1. Up(w) /\ want[w]
    BY <1>7 DEF ConnectFails, WorkerInv, ClientInv
  <2>2. /\ lease' = [lease EXCEPT ![w] = None]
        /\ \A v \in Worker \ {w} : left'[v] = left[v]
        /\ \A c \in ReleaseOf(w) :
             lease[w] # None /\ c = Command("release", w, lease[w])
    BY <1>7, <2>1, ReleaseEffect DEF ConnectFails, WorkerInv
  <2>3. /\ phase' = [phase EXCEPT ![w] = "up"]
        /\ want' = [want EXCEPT ![w] = TRUE]
    BY <1>7, <2>1 DEF ConnectFails, Leave, Up, TypeOK
  <2>4. CASE Leave(w)
    BY <1>7, <2>2, <2>3, <2>4, AllDescend, AttemptEnds
       DEF ConnectFails, Leave, NoAttempt
  <2>5. CASE GiveUp(w)
    BY <1>7, <2>2, <2>3, <2>5, AllDescend, AttemptEnds
       DEF ConnectFails, GiveUp, NoAttempt
  <2> QED BY <1>7, <2>4, <2>5 DEF ConnectFails
<1> QED BY <1>1, <1>2, <1>3, <1>4, <1>5, <1>6, <1>7 DEF Client

LEMMA SafeOwner ==
  ASSUME IInv, TypeOK', NEW w \in Worker, Owner(w)
  PROVE  IInv'
<1> USE DEF IInv
<1>1. CASE Renew(w)
  <2> DEFINE new == Command("renew", w, lease[w])
  <2>1. /\ new.op = "renew" /\ new.token = lease[w] /\ new.state = "sent"
        /\ calls' = calls \cup {new} /\ lease[w] # None
        /\ UNCHANGED <<phase, clientVars, lease, left, redisVars>>
    BY <1>1 DEF Renew, Command
  <2> HIDE DEF new
  <2> USE DEF clientVars
  <2>2. ClientInv' /\ LeaseFollowsSocket' /\ LeasesDiffer'
    BY <2>1 DEF WorkerInv, CallInv, ClientInv, LeaseFollowsSocket, LeasesDiffer,
                Up, Reaching
  <2>3. ClaimsWait'
    BY <2>1 DEF WorkerInv, ClaimsWait, Waiting
  <2>4. ClaimsAlone'
    BY <2>1 DEF CallInv, ClaimsAlone, Waiting
  <2>5. NoStrayRelease'
    BY <2>1 DEF CallInv, NoStrayRelease
  <2>6. LeaseBacked' /\ AnswersBacked'
    BY <2>1 DEF RedisInv, LeaseBacked, AnswersBacked, redisVars, Up
  <2> QED BY <2>2, <2>3, <2>4, <2>5, <2>6 DEF WorkerInv, CallInv, RedisInv
<1>2. CASE Deadline(w)
  <2>1. Up(w) /\ want[w] /\ attempt[w] = lease[w]
    BY <1>2 DEF Deadline, WorkerInv, ClientInv, LeaseFollowsSocket
  <2>2. /\ UNCHANGED <<want, calls, phase, redisVars>>
        /\ attempt' = [attempt EXCEPT ![w] = None]
        /\ stage' = [stage EXCEPT ![w] = "none"]
        /\ retry' = [retry EXCEPT ![w] = TRUE]
        /\ lease' = [lease EXCEPT ![w] = None]
        /\ \A v \in Worker \ {w} : left'[v] = left[v]
    BY <1>2, <2>1 DEF Deadline, Unleased, Revoke, Leave, NoAttempt, TypeOK
  <2>3. /\ phase' = [phase EXCEPT ![w] = "up"]
        /\ want' = [want EXCEPT ![w] = TRUE]
    BY <2>1, <2>2 DEF Up, TypeOK
  <2> QED BY <2>2, <2>3, AllDescend, AttemptEnds
<1> QED BY <1>1, <1>2 DEF Owner

(* The processes of the workers.                                            *)
LEMMA SafeProcess ==
  ASSUME IInv, TypeOK', NEW w \in Worker, Process(w)
  PROVE  IInv'
<1> USE DEF IInv
<1>1. CASE Start(w)
  <2>1. /\ phase[w] = "down" /\ ~Up(w) /\ lease[w] = None /\ ~want[w]
        /\ attempt[w] = None /\ stage[w] = "none" /\ ~retry[w]
    BY <1>1 DEF Start, Up, WorkerInv, ClientInv
  <2>2. lease' = [lease EXCEPT ![w] = None] /\ phase' = [phase EXCEPT ![w] = "up"]
    BY <1>1, <2>1 DEF Start, TypeOK
  <2>3. CASE want' = [want EXCEPT ![w] = TRUE] /\ BeginConnect(w, calls)
    BY <1>1, <2>2, <2>3, ClientBegins DEF Start
  <2>4. CASE UNCHANGED <<clientVars, calls>>
    <3> USE <1>1, <2>1, <2>2, <2>4 DEF Start, TypeOK, clientVars
    <3>1. ClientInv'
      BY DEF WorkerInv, ClientInv, Up
    <3>2. LeaseFollowsSocket' /\ ClaimsWait'
      BY DEF WorkerInv, LeaseFollowsSocket, ClaimsWait, Reaching, Up, Waiting
    <3>3. CallInv'
      BY DEF CallInv, ClaimsAlone, NoStrayRelease, LeasesDiffer, Waiting
    <3>4. LeaseBacked'
      BY DEF RedisInv, LeaseBacked, redisVars, Up
    <3>5. AnswersBacked'
      BY GrantedType, NoneIsNoToken DEF RedisInv, AnswersBacked, redisVars, Up
    <3> QED BY <3>1, <3>2, <3>3, <3>4, <3>5 DEF WorkerInv, RedisInv
  <2> QED BY <1>1, <2>3, <2>4 DEF Start
<1>2. CASE Shutdown(w)
  <2> USE <1>2 DEF Shutdown, Forget, NoAttempt, TypeOK
  <2>1. ClientInv'
    BY DEF WorkerInv, ClientInv, Up
  <2>2. LeaseFollowsSocket' /\ ClaimsWait'
    BY DEF WorkerInv, LeaseFollowsSocket, ClaimsWait, Reaching, Up, Waiting
  <2>3. CallInv'
    BY DEF CallInv, ClaimsAlone, NoStrayRelease, LeasesDiffer, Waiting
  <2>4. LeaseBacked' /\ AnswersBacked'
    BY GrantedType DEF RedisInv, LeaseBacked, AnswersBacked, redisVars, Up
  <2> QED BY <2>1, <2>2, <2>3, <2>4 DEF WorkerInv, RedisInv
<1>3. CASE Joined(w)
  <2>1. /\ ~Up(w) /\ ~want[w] /\ attempt[w] = None /\ stage[w] = "none" /\ ~retry[w]
    BY <1>3 DEF Joined, Up, WorkerInv, ClientInv
  <2>2. /\ want' = [want EXCEPT ![w] = FALSE]
        /\ attempt' = [attempt EXCEPT ![w] = None]
        /\ stage' = [stage EXCEPT ![w] = "none"]
        /\ retry' = [retry EXCEPT ![w] = FALSE]
    BY <1>3, <2>1 DEF Joined, clientVars, TypeOK
  <2> QED BY <1>3, <2>2, AllDescend, WorkerDown DEF Joined
<1>4. CASE Crash(w)
  <2> DEFINE cut == {d \in calls : d.worker = w /\ d.state = "sent"}
  <2>1. calls' = {c \in calls : c.worker # w \/ c.state = "gone"} \cup {Gone(c) : c \in cut}
    BY <1>4 DEF Crash
  <2>2. \A c \in cut : /\ Gone(c).state = "gone" /\ Gone(c).op = c.op
                       /\ Gone(c).token = c.token /\ c \notin calls'
    BY <2>1, GoneFields
  <2>3. Descends(calls')
    BY <2>1, <2>2 DEF Descends
  <2>4. \A c \in calls : c.worker # w => c \in calls'
    BY <2>1
  <2>5. /\ phase' = [phase EXCEPT ![w] = "down"] /\ Forget(w) /\ Unleased(w)
        /\ UNCHANGED redisVars
    BY <1>4 DEF Crash
  <2>6. \A v \in Worker \ {w} : left'[v] = left[v]
    BY <2>5 DEF Unleased, TypeOK
  <2> QED BY <2>3, <2>4, <2>5, <2>6, WorkerDown DEF Forget, NoAttempt, Unleased
<1> QED BY <1>1, <1>2, <1>3, <1>4 DEF Process

LEMMA SafeCall ==
  ASSUME IInv, TypeOK', NEW c \in calls, Call(c)
  PROVE  IInv'
<1> USE DEF IInv
<1>1. CASE Execute(c)
  BY <1>1, SafeExecute
<1>2. CASE Vanish(c)
  <2> USE <1>2 DEF Vanish, clientVars, redisVars
  <2>1. ClientInv' /\ LeaseFollowsSocket' /\ ClaimsWait'
    BY DEF WorkerInv, ClientInv, LeaseFollowsSocket, ClaimsWait, Reaching, Up,
       Waiting
  <2>2. CallInv' /\ RedisInv'
    BY DEF CallInv, ClaimsAlone, NoStrayRelease, LeasesDiffer, RedisInv,
       LeaseBacked,
           AnswersBacked, Up, Waiting
  <2> QED BY <2>1, <2>2 DEF WorkerInv
<1>3. CASE Answer(c)
  <2>1. Waiting(c) /\ Continue(c, c.state = "yes", calls \ {c})
    BY <1>3 DEF Answer, Waiting
  <2>2. Descends(calls \ {c})
    BY <2>1, RestDescends
  <2> QED BY <2>1, <2>2, SafeContinue
<1>4. CASE Fail(c)
  <2> DEFINE rest == (calls \ {c}) \cup (IF c.state = "sent" THEN {Gone(c)} ELSE {})
  <2>1. Waiting(c) /\ Continue(c, FALSE, rest)
    BY <1>4 DEF Fail
  <2>2. rest = calls \ {c} \/ rest = (calls \ {c}) \cup {Gone(c)}
    OBVIOUS
  <2> HIDE DEF rest
  <2>3. Descends(rest) /\ c \notin rest /\ calls \ {c} \subseteq rest
    BY <2>1, <2>2, RestDescends
  <2> QED BY <2>1, <2>3, SafeContinue
<1> QED BY <1>1, <1>2, <1>3, <1>4 DEF Call

LEMMA SafeStep == IInv /\ [Next]_vars => IInv'
<1> SUFFICES ASSUME IInv, [Next]_vars PROVE IInv'
  OBVIOUS
<1>1. TypeOK'
  BY TypeStep DEF IInv
<1>2. CASE UNCHANGED vars
  BY <1>2 DEF IInv, vars, clientVars, redisVars, TypeOK, WorkerInv, ClientInv,
              LeaseFollowsSocket, ClaimsWait, CallInv, ClaimsAlone, NoStrayRelease,
              LeasesDiffer, RedisInv, LeaseBacked, AnswersBacked, Reaching, Up, Waiting
<1> QED BY <1>1, <1>2, SafeTick, SafeClient, SafeOwner, SafeProcess, SafeCall
           DEF Next

LEMMA SafeStart == Init => IInv
  BY DEF Init, IInv, TypeOK, WorkerInv, ClientInv, LeaseFollowsSocket,
     ClaimsWait,
         CallInv, ClaimsAlone, NoStrayRelease, LeasesDiffer, RedisInv, LeaseBacked,
         AnswersBacked, Reaching, Up, Waiting

(* No two workers ever have a connection to the device, for any number of   *)
(* workers, failures, reloads and crashes and any lateness of their loops   *)
(* that the margin between the lease and its validity covers: a socket has  *)
(* its worker's lease, that lease is the value of the key in Redis, and the *)
(* key has one value.                                                       *)
THEOREM AtMostOneConnection == Spec => []OneConnection
<1>1. IInv => OneConnection
  <2> SUFFICES ASSUME IInv, NEW v \in Worker, NEW w \in Worker, Reaching(v), Reaching(w)
               PROVE  v = w
    BY DEF OneConnection
  <2>1. \A u \in {v, w} : Up(u) /\ lease[u] # None
    BY DEF IInv, WorkerInv, ClientInv, LeaseFollowsSocket, Reaching
  <2>2. holder = lease[v] /\ holder = lease[w]
    BY <2>1 DEF IInv, RedisInv, LeaseBacked
  <2> QED BY <2>1, <2>2 DEF IInv, CallInv, LeasesDiffer
<1> QED BY <1>1, SafeStart, SafeStep, PTL DEF Spec

(* A lease a worker trusts is in Redis, and will be until the worker gives  *)
(* it up: the local deadline always comes before the expiry of the key.     *)
THEOREM LeasesAreBacked == Spec => []LeaseBacked
<1>1. IInv => LeaseBacked
  BY DEF IInv, RedisInv
<1> QED BY <1>1, SafeStart, SafeStep, PTL DEF Spec

(* The leases of the worker and the sockets of its clients agree.           *)
THEOREM SocketsHaveLeases == Spec => []LeaseFollowsSocket
<1>1. IInv => LeaseFollowsSocket
  BY DEF IInv, WorkerInv
<1> QED BY <1>1, SafeStart, SafeStep, PTL DEF Spec

(* A client that wants its target has an attempt or its timer, or has given *)
(* up for an error that another attempt would not mend, and an attempt that *)
(* waits for a claim has a coroutine that will answer it.                   *)
THEOREM ClientsProceed == Spec => []ClientProceeds
<1>1. IInv => ClientProceeds
  BY DEF IInv, WorkerInv, ClientInv, ClaimsWait, ClientProceeds
<1> QED BY <1>1, SafeStart, SafeStep, PTL DEF Spec

(* What a worker believes of its lease, its client and Redis go together.   *)
THEOREM LeasesAreConsistent == Spec => []LeaseIsConsistent
BY TypeCorrect, LeasesAreBacked, SocketsHaveLeases, ClientsProceed, PTL
   DEF LeaseIsConsistent

----------------------------------------------------------------------------
(* Snapshots, for any workers, collectors, keys and versions, and every    *)
(* grace period longer than a projection and a load together               *)

USE SnapshotsConstants

----------------------------------------------------------------------------
(* The invariant                                                           *)

Holding == {"compare", "register", "write", "switch"}

\* Who projects has the lock and is not late, and the version it writes has the
\* time of its creation for a score.
ProjectorInv ==
  /\ \A w \in ServiceWorker : pc[w] \in Holding => lock = w
  /\ \A w \in ServiceWorker : began[w] <= clock
  /\ \A w \in ServiceWorker : Projecting(w) =>
       /\ clock <= began[w] + MaxProjection
       /\ version[w] \in 1 .. versions /\ version[w] # active
  /\ \A w \in ServiceWorker : pc[w] = "register" => version[w] \notin DOMAIN score
  /\ \A w \in ServiceWorker : pc[w] \in {"write", "switch"} =>
       version[w] \in DOMAIN score /\ score[version[w]] = began[w]

\* What does not exist yet has no keys; the keys of a version are written and
\* remembered one after the other.
WriteInv ==
  /\ \A v \in Version : v > versions => stored[v] = {} /\ remembered[v] = {}
  /\ \A w \in ServiceWorker : pc[w] = "register" =>
       written[w] = 0 /\ stored[version[w]] = {} /\ remembered[version[w]] = {}
  /\ \A w \in ServiceWorker : pc[w] = "write" =>
       /\ \A k \in Keys : k \in stored[version[w]] <=> 2 * k <= written[w] + 1
       /\ \A k \in Keys : k \in remembered[version[w]] <=> 2 * k <= written[w]
  /\ \A w \in ServiceWorker : pc[w] = "switch" => stored[version[w]] = Keys

\* What is active is whole, and is given a new score before it is replaced.
ActiveInv ==
  /\ ActiveComplete
  /\ \A w \in ServiceWorker : active # Nothing /\ pc[w] = "switch" =>
       active \in DOMAIN score /\ score[active] = began[w]
  /\ \A w \in ServiceWorker :
       active \in DOMAIN score /\ pc[w] = "expire" /\ version[w] # active =>
         score[active] + Grace > began[w]

\* What is being loaded is active, or was when its successor was begun.
LoadInv ==
  \A c \in Loader : loading[c] # Nothing =>
    /\ loading[c] <= versions /\ stored[loading[c]] = Keys
    /\ since[c] <= clock /\ clock <= since[c] + MaxRead
    /\ loading[c] # active /\ loading[c] \in DOMAIN score =>
         score[loading[c]] + MaxProjection >= since[c]
    /\ \A w \in ServiceWorker : Projecting(w) => version[w] # loading[c]

\* What is erased is needed by nobody, and its set of keys is erased after them.
DoomInv ==
  /\ \A w \in ServiceWorker : pc[w] \in {"unlink", "remove"} => version[w] \in doomed[w]
  /\ \A w \in ServiceWorker : \A v \in doomed[w] :
       /\ v \in 1 .. versions /\ v # active
       /\ \A u \in ServiceWorker : Projecting(u) => version[u] # v
       /\ \A c \in Loader : loading[c] # v
  /\ \A w \in ServiceWorker : pc[w] = "unlink" =>
       stored[version[w]] \cap remembered[version[w]] \subseteq victims[w]
  /\ \A w \in ServiceWorker : pc[w] = "remove" =>
       stored[version[w]] \cap remembered[version[w]] = {}

SnapshotInv ==
  /\ SnapshotTypeOK /\ NoTornLoad /\ LeaksAreFaults
  /\ ProjectorInv /\ WriteInv /\ ActiveInv /\ LoadInv /\ DoomInv

----------------------------------------------------------------------------
(* Types                                                                   *)

LEMMA TypesAtTheStart ==
  InitSnapshots => SnapshotTypeOK
<1>1. InitSnapshots => VersionTypes
  BY DEF InitSnapshots, VersionTypes, Version, Keys, Nothing
<1>2. InitSnapshots => WorkTypes
  BY DEF InitSnapshots, WorkTypes, Version, Keys, Nothing
<1>3. InitSnapshots => ReadTypes
  BY DEF InitSnapshots, ReadTypes, Version, Keys, Nothing
<1> QED BY <1>1, <1>2, <1>3 DEF SnapshotTypeOK

\* What a collector has read and what Redis has keep their types while they stay.
LEMMA StillTyped ==
  /\ ReadTypes /\ UNCHANGED readVars => ReadTypes'
  /\ WorkTypes /\ UNCHANGED workVars => WorkTypes'
  /\ VersionTypes /\ UNCHANGED <<clock, versionVars, faults>> => VersionTypes'
<1>1. ReadTypes /\ UNCHANGED readVars => ReadTypes'
  BY Zenon DEF ReadTypes, readVars, Keys
<1>2. WorkTypes /\ UNCHANGED workVars => WorkTypes'
  BY DEF WorkTypes, workVars, Version, Keys
<1>3. VersionTypes /\ UNCHANGED <<clock, versionVars, faults>> => VersionTypes'
  BY DEF VersionTypes, versionVars, Version, Keys
<1> QED BY <1>1, <1>2, <1>3

\* The end of a turn.
LEMMA EndKeepsTypes ==
  ASSUME WorkTypes, NEW w \in ServiceWorker, EndTurn(w)
  PROVE  WorkTypes'
BY DEF WorkTypes, EndTurn, Version, Keys, Nothing

\* Steps that change what a worker does, and not what is stored.
LEMMA TurnsKeepTypes ==
  ASSUME VersionTypes, WorkTypes, NEW w \in ServiceWorker,
         Begin(w) \/ CleanNow(w) \/ Clean(w) \/ Expire(w) \/ Switch(w)
         \/ (\E v \in doomed[w] : Erase(w, v))
  PROVE  WorkTypes'
<1> USE DEF Turns, Version, Keys, Nothing
<1>1. CASE Begin(w)
  BY <1>1 DEF WorkTypes, Begin
<1>2. CASE CleanNow(w)
  BY <1>2 DEF VersionTypes, WorkTypes, CleanNow
<1>3. CASE Clean(w)
  <2>1. active \in 0 .. MaxVersions
    BY DEF VersionTypes
  <2> QED
    BY <1>3, <2>1 DEF WorkTypes, Clean
<1>4. CASE Expire(w)
  <2>1. Expired(began[w], version[w]) \subseteq Version
    BY DEF VersionTypes, Expired
  <2> QED
    BY <1>4, <2>1 DEF WorkTypes, Expire
<1>5. CASE Switch(w)
  BY <1>5 DEF WorkTypes, Switch
<1>6. CASE \E v \in doomed[w] : Erase(w, v)
  <2>1. PICK v \in doomed[w] : Erase(w, v)
    BY <1>6
  <2>2. v \in Version /\ v \in 0 .. MaxVersions
    BY DEF WorkTypes
  <2>3. remembered[v] \subseteq Keys
    BY <2>2 DEF VersionTypes
  <2> QED
    BY <2>1, <2>2, <2>3 DEF WorkTypes, Erase
<1> QED BY <1>1, <1>2, <1>3, <1>4, <1>5, <1>6


LEMMA WritingKeepsTypes ==
  ASSUME VersionTypes, WorkTypes, ProjectorInv, NEW w \in ServiceWorker,
         Create(w) \/ Register(w) \/ WriteKeys(w) \/ Retire(w)
  PROVE  VersionTypes' /\ WorkTypes'
<1> USE DEF Turns, Version, Keys, Nothing
<1>1. CASE Create(w)
  <2>1. VersionTypes'
    BY <1>1 DEF VersionTypes, Create
  <2>2. versions + 1 \in 0 .. MaxVersions /\ clock \in 0 .. MaxClock
    BY <1>1 DEF VersionTypes, Create
  <2>3. WorkTypes'
    BY <1>1, <2>2 DEF WorkTypes, Create
  <2> QED BY <2>1, <2>3
<1>2. CASE Register(w)
  <2>1. version[w] \in 1 .. versions /\ began[w] \in 0 .. clock
    BY <1>2 DEF Register, ProjectorInv, Projecting, WorkTypes, VersionTypes
  <2>2. VersionTypes'
    BY <1>2, <2>1 DEF VersionTypes, Register, Put
  <2>3. WorkTypes'
    BY <1>2 DEF WorkTypes, Register
  <2> QED BY <2>2, <2>3
<1>3. CASE WriteKeys(w)
  <2>1. version[w] \in 1 .. versions /\ written[w] \in Nat /\ written[w] < 2 * Key
    BY <1>3 DEF WriteKeys, ProjectorInv, Projecting, WorkTypes, Written
  <2>2. (written[w] + 2) \div 2 \in Nat /\ (written[w] + 1) \div 2 \in Nat
    BY <2>1
  <2>3. (written[w] % 2 = 0) => (written[w] + 2) \div 2 \in Keys
    BY <2>1
  <2>4. (written[w] % 2 # 0) => (written[w] + 1) \div 2 \in Keys
    BY <2>1
  <2>5. /\ stored' \in [Version -> SUBSET Keys]
        /\ remembered' \in [Version -> SUBSET Keys]
    <3>1. CASE written[w] % 2 = 0
      BY <1>3, <3>1, <2>3 DEF VersionTypes, WriteKeys, Commands, WriteKey
    <3>2. CASE written[w] % 2 # 0
      BY <1>3, <3>2, <2>4 DEF VersionTypes, WriteKeys, Commands, RememberKey
    <3> QED BY <3>1, <3>2
  <2>6. VersionTypes'
    BY <1>3, <2>5 DEF VersionTypes, WriteKeys
  <2>7. WorkTypes'
    BY <1>3, <2>1 DEF WorkTypes, WriteKeys
  <2> QED BY <2>6, <2>7
<1>4. CASE Retire(w)
  <2>1. began[w] \in 0 .. clock
    BY <1>4 DEF Retire, ProjectorInv, WorkTypes, VersionTypes
  <2>2. VersionTypes'
    BY <1>4, <2>1, SMTT(40) DEF VersionTypes, Retire, Rescored, Put
  <2>3. WorkTypes'
    BY <1>4 DEF WorkTypes, Retire
  <2> QED BY <2>2, <2>3
<1> QED BY <1>1, <1>2, <1>3, <1>4

LEMMA ErasingKeepsTypes ==
  ASSUME VersionTypes, WorkTypes, ProjectorInv, NEW w \in ServiceWorker,
         Switch(w) \/ Unlink(w) \/ Remove(w)
  PROVE  VersionTypes' /\ WorkTypes'
<1> USE DEF Turns, Version, Keys, Nothing
<1>1. CASE Switch(w)
  <2>1. version[w] \in 1 .. versions
    BY <1>1 DEF Switch, ProjectorInv, Projecting, WorkTypes
  <2>2. VersionTypes'
    BY <1>1, <2>1 DEF VersionTypes, Switch
  <2> QED BY <1>1, <2>2, TurnsKeepTypes
<1>2. CASE Unlink(w)
  <2>1. stored' \in [Version -> SUBSET Keys]
    BY <1>2, SMTT(40) DEF VersionTypes, Unlink
  <2>2. remembered' \in [Version -> SUBSET Keys]
    BY <1>2, SMTT(40) DEF VersionTypes, Unlink, UnlinkSet
  <2>3. VersionTypes'
    BY <1>2, <2>1, <2>2 DEF VersionTypes, Unlink
  <2>4. WorkTypes'
    BY <1>2 DEF WorkTypes, Unlink
  <2> QED BY <2>3, <2>4
<1>3. CASE Remove(w)
  <2>1. VersionTypes'
    BY <1>3 DEF VersionTypes, Remove
  <2>2. WorkTypes'
    BY <1>3 DEF WorkTypes, Remove
  <2> QED BY <2>1, <2>2
<1> QED BY <1>1, <1>2, <1>3

LEMMA ReadingKeepsTypes ==
  ASSUME VersionTypes, ReadTypes, NEW c \in Loader, Capture(c) \/ Load(c)
  PROVE  ReadTypes'
<1> USE DEF Version, Keys, Nothing
<1>1. active \in 0 .. MaxVersions /\ clock \in 0 .. MaxClock
  BY DEF VersionTypes
<1>2. CASE Capture(c)
  <2>1. torn' \in [Loader -> BOOLEAN]
    BY <1>2, Zenon DEF Capture, ReadTypes
  <2> QED BY <1>1, <1>2, <2>1 DEF ReadTypes, Capture
<1>3. CASE Load(c)
  <2>1. torn' \in [Loader -> BOOLEAN]
    BY <1>3, Zenon DEF Load, ReadTypes
  <2>2. loading' \in [Loader -> 0 .. MaxVersions]
    BY <1>3 DEF Load, ReadTypes
  <2>3. since' \in [Loader -> 0 .. MaxClock]
    BY <1>3 DEF Load, ReadTypes
  <2>4. missing' \in [Loader -> SUBSET (1 .. Key)]
    BY <1>3 DEF Load, ReadTypes
  <2> QED BY <2>1, <2>2, <2>3, <2>4, Zenon DEF ReadTypes
<1> QED BY <1>2, <1>3

\* Every step keeps the types.
LEMMA TypesHold ==
  ASSUME SnapshotTypeOK, ProjectorInv, [NextSnapshots]_snapshotVars
  PROVE  SnapshotTypeOK'
<1> USE DEF SnapshotTypeOK
<1>1. CASE UNCHANGED snapshotVars
  BY <1>1, StillTyped DEF snapshotVars
<1>2. CASE Elapse
  <2>1. VersionTypes'
    BY <1>2 DEF VersionTypes, Elapse, versionVars, Version, Keys
  <2> QED BY <1>2, <2>1, StillTyped DEF Elapse
<1>3. ASSUME NEW w \in ServiceWorker,
             Begin(w) \/ CleanNow(w) \/ Clean(w) \/ Expire(w) \/ (\E v \in doomed[w] : Erase(w, v))
      PROVE  SnapshotTypeOK'
  <2>1. WorkTypes'
    BY <1>3, TurnsKeepTypes
  <2>2. UNCHANGED <<clock, versionVars, faults>> /\ UNCHANGED readVars
    BY <1>3 DEF Begin, CleanNow, Clean, Expire, Erase
  <2> QED BY <2>1, <2>2, StillTyped
<1>4. ASSUME NEW w \in ServiceWorker, Same(w) \/ CleanNothing(w) \/ Done(w) \/ CommandFails(w)
      PROVE  SnapshotTypeOK'
  <2>1. WorkTypes'
    BY <1>4, EndKeepsTypes DEF Same, CleanNothing, Done, CommandFails
  <2>2. UNCHANGED <<clock, versionVars>> /\ UNCHANGED readVars /\ faults' \in 0 .. MaxFaults
    BY <1>4 DEF Same, CleanNothing, Done, CommandFails, Fault, VersionTypes
  <2>3. VersionTypes'
    BY <2>2 DEF VersionTypes, versionVars, Version, Keys
  <2> QED BY <2>1, <2>2, <2>3, StillTyped
<1>5. ASSUME NEW w \in ServiceWorker, Create(w) \/ Register(w) \/ WriteKeys(w) \/ Retire(w)
      PROVE  SnapshotTypeOK'
  <2>1. UNCHANGED readVars
    BY <1>5 DEF Create, Register, WriteKeys, Retire
  <2> QED BY <1>5, <2>1, WritingKeepsTypes, StillTyped
<1>6. ASSUME NEW w \in ServiceWorker, Switch(w) \/ Unlink(w) \/ Remove(w)
      PROVE  SnapshotTypeOK'
  <2>1. UNCHANGED readVars
    BY <1>6 DEF Switch, Unlink, Remove
  <2> QED BY <1>6, <2>1, ErasingKeepsTypes, StillTyped
<1>7. ASSUME NEW c \in Loader, Capture(c) \/ Load(c)
      PROVE  SnapshotTypeOK'
  <2>1. UNCHANGED <<clock, versionVars, faults>> /\ UNCHANGED workVars
    BY <1>7 DEF Capture, Load
  <2> QED BY <1>7, <2>1, ReadingKeepsTypes, StillTyped
<1> QED BY <1>1, <1>2, <1>3, <1>4, <1>5, <1>6, <1>7 DEF NextSnapshots

----------------------------------------------------------------------------
(* Keys that no cleanup finds                                              *)

\* What is lost is one of finitely many keys, and one worker at most is between
\* a key and the note that it exists.
LEMMA FinitelyMany ==
  ASSUME WorkTypes, ProjectorInv
  PROVE  IsFiniteSet(Lost) /\ IsFiniteSet(InFlight) /\ InFlight \subseteq {lock}
<1>1. IsFiniteSet(Version) /\ IsFiniteSet(Keys)
  BY FS_Interval DEF Version, Keys
<1>2. IsFiniteSet(Version \X Keys)
  BY <1>1, FS_Product
<1>3. Lost \subseteq Version \X Keys
  BY DEF Lost
<1>4. IsFiniteSet(Lost)
  BY <1>2, <1>3, FS_Subset
<1>5. InFlight \subseteq {lock}
  BY DEF InFlight, ProjectorInv, Holding
<1>6. IsFiniteSet({lock})
  BY FS_Singleton
<1>7. IsFiniteSet(InFlight)
  BY <1>5, <1>6, FS_Subset
<1> QED BY <1>4, <1>5, <1>7

\* Nothing more is lost, and no worker begins or ends to be in between.
LEMMA NothingMoreIsLost ==
  ASSUME SnapshotInv, Lost' \subseteq Lost, InFlight' = InFlight, faults' = faults
  PROVE  LeaksAreFaults'
<1>1. IsFiniteSet(Lost) /\ IsFiniteSet(InFlight)
  BY FinitelyMany DEF SnapshotInv, SnapshotTypeOK
<1>2. Cardinality(Lost') <= Cardinality(Lost) /\ IsFiniteSet(Lost')
  BY <1>1, FS_Subset
<1>3. Cardinality(Lost') \in Nat /\ Cardinality(Lost) \in Nat /\ Cardinality(InFlight) \in Nat
  BY <1>1, <1>2, FS_CardinalityType
<1>4. faults \in Nat
  BY DEF SnapshotInv, SnapshotTypeOK, VersionTypes
<1> QED BY <1>2, <1>3, <1>4 DEF SnapshotInv, LeaksAreFaults

\* A key is written before it is noted, which puts the worker in between ...
LEMMA OneMoreInFlight ==
  ASSUME SnapshotInv, NEW p, Lost' \subseteq Lost \cup {p}, faults' = faults,
         NEW w \in ServiceWorker, w \notin InFlight, InFlight' = InFlight \cup {w}
  PROVE  LeaksAreFaults'
<1>1. IsFiniteSet(Lost) /\ IsFiniteSet(InFlight)
  BY FinitelyMany DEF SnapshotInv, SnapshotTypeOK
<1>2. /\ IsFiniteSet(Lost \cup {p})
      /\ Cardinality(Lost \cup {p}) = IF p \in Lost THEN Cardinality(Lost) ELSE Cardinality(Lost) + 1
  BY <1>1, FS_AddElement
<1>3. Cardinality(Lost') <= Cardinality(Lost \cup {p}) /\ IsFiniteSet(Lost')
  BY <1>2, FS_Subset
<1>4. Cardinality(InFlight') = Cardinality(InFlight) + 1
  BY <1>1, FS_AddElement
<1>5. Cardinality(Lost') \in Nat /\ Cardinality(Lost) \in Nat /\ Cardinality(InFlight) \in Nat
  BY <1>1, <1>3, FS_CardinalityType
<1>6. faults \in Nat
  BY DEF SnapshotInv, SnapshotTypeOK, VersionTypes
<1> QED BY <1>2, <1>3, <1>4, <1>5, <1>6 DEF SnapshotInv, LeaksAreFaults

\* ... until it is noted, or the worker fails.
LEMMA OneLessInFlight ==
  ASSUME SnapshotInv, NEW p, NEW w \in InFlight, InFlight' = InFlight \ {w},
         \/ p \in Lost /\ Lost' \subseteq Lost \ {p} /\ faults' = faults
         \/ Lost' \subseteq Lost /\ faults' = faults + 1
  PROVE  LeaksAreFaults'
<1>1. IsFiniteSet(Lost) /\ IsFiniteSet(InFlight)
  BY FinitelyMany DEF SnapshotInv, SnapshotTypeOK
<1>2. Cardinality(InFlight') = Cardinality(InFlight) - 1
  BY <1>1, FS_RemoveElement
<1>3. faults \in Nat /\ Cardinality(Lost) <= faults + Cardinality(InFlight)
  BY DEF SnapshotInv, SnapshotTypeOK, VersionTypes, LeaksAreFaults
<1>4. Cardinality(Lost) \in Nat /\ Cardinality(InFlight) \in Nat
  BY <1>1, FS_CardinalityType
<1>5. CASE p \in Lost /\ Lost' \subseteq Lost \ {p} /\ faults' = faults
  <2>1. IsFiniteSet(Lost \ {p}) /\ Cardinality(Lost \ {p}) = Cardinality(Lost) - 1
    BY <1>1, <1>5, FS_RemoveElement
  <2>2. Cardinality(Lost') <= Cardinality(Lost \ {p}) /\ IsFiniteSet(Lost')
    BY <1>5, <2>1, FS_Subset
  <2>3. Cardinality(Lost') \in Nat
    BY <2>2, FS_CardinalityType
  <2> QED BY <1>2, <1>3, <1>4, <1>5, <2>1, <2>2, <2>3 DEF LeaksAreFaults
<1>6. CASE Lost' \subseteq Lost /\ faults' = faults + 1
  <2>1. Cardinality(Lost') <= Cardinality(Lost) /\ IsFiniteSet(Lost')
    BY <1>1, <1>6, FS_Subset
  <2>2. Cardinality(Lost') \in Nat
    BY <2>1, FS_CardinalityType
  <2> QED BY <1>2, <1>3, <1>4, <1>6, <2>1, <2>2 DEF LeaksAreFaults
<1> QED BY <1>5, <1>6

\* Steps that write and erase nothing.
LEMMA LeaksWhileStoredStays ==
  ASSUME SnapshotInv, UNCHANGED <<stored, remembered, score>>, NEW w \in ServiceWorker,
         \/ Begin(w) \/ CleanNow(w) \/ Clean(w) \/ Expire(w) \/ Switch(w) \/ Create(w)
         \/ Same(w) \/ CleanNothing(w) \/ Done(w) \/ (\E v \in doomed[w] : Erase(w, v))
         \/ CommandFails(w)
  PROVE  LeaksAreFaults'
<1>1. Lost' \subseteq Lost
  BY DEF Lost, Forgotten
<1>2. WorkTypes
  BY DEF SnapshotInv, SnapshotTypeOK
<1>3. CASE Begin(w) \/ CleanNow(w) \/ Clean(w) \/ Expire(w) \/ Switch(w) \/ (\E v \in doomed[w] : Erase(w, v))
  <2>1. InFlight' = InFlight
    BY <1>2, <1>3 DEF InFlight, WorkTypes, Begin, CleanNow, Clean, Expire,
       Switch, Erase, Turns
  <2>2. faults' = faults
    BY <1>3 DEF Begin, CleanNow, Clean, Expire, Switch, Erase
  <2> QED BY <1>1, <2>1, <2>2, NothingMoreIsLost
<1>4. CASE Create(w)
  <2>1. InFlight' = InFlight
    BY <1>2, <1>4 DEF InFlight, WorkTypes, Create, Turns
  <2>2. faults' = faults
    BY <1>4 DEF Create
  <2> QED BY <1>1, <2>1, <2>2, NothingMoreIsLost
<1>5. CASE Same(w) \/ CleanNothing(w) \/ Done(w)
  <2>1. InFlight' = InFlight
    BY <1>2, <1>5 DEF InFlight, WorkTypes, Same, CleanNothing, Done, EndTurn
  <2>2. faults' = faults
    BY <1>5 DEF Same, CleanNothing, Done
  <2> QED BY <1>1, <2>1, <2>2, NothingMoreIsLost
<1>6. CASE CommandFails(w)
  <2>1. InFlight' = InFlight \ {w}
    BY <1>2, <1>6 DEF InFlight, WorkTypes, CommandFails, EndTurn
  <2>2. faults' = faults + 1
    BY <1>6 DEF CommandFails, Fault
  <2>3. CASE w \in InFlight
    BY <1>1, <2>1, <2>2, <2>3, OneLessInFlight
  <2>4. CASE w \notin InFlight
    <3>1. InFlight' = InFlight
      BY <2>1, <2>4
    <3>2. IsFiniteSet(Lost) /\ IsFiniteSet(InFlight)
      BY FinitelyMany DEF SnapshotInv, SnapshotTypeOK
    <3>3. Cardinality(Lost') <= Cardinality(Lost) /\ IsFiniteSet(Lost')
      BY <1>1, <3>2, FS_Subset
    <3>4. /\ Cardinality(Lost') \in Nat /\ Cardinality(Lost) \in Nat
          /\ Cardinality(InFlight) \in Nat
      BY <3>2, <3>3, FS_CardinalityType
    <3>5. faults \in Nat
      BY DEF SnapshotInv, SnapshotTypeOK, VersionTypes
    <3> QED BY <2>2, <3>1, <3>3, <3>4, <3>5 DEF SnapshotInv, LeaksAreFaults
  <2> QED BY <2>3, <2>4
<1> QED BY <1>3, <1>4, <1>5, <1>6

\* The pipeline of a projection.
LEMMA LeaksWhileWriting ==
  ASSUME SnapshotInv, NEW w \in ServiceWorker, WriteKeys(w)
  PROVE  LeaksAreFaults'
<1> DEFINE v == version[w]
           n == written[w]
<1>1. WorkTypes /\ VersionTypes /\ pc[w] = "write" /\ faults' = faults
  BY DEF WriteKeys, SnapshotInv, SnapshotTypeOK
<1>2. v \in 1 .. versions /\ v \in Version /\ n \in Nat /\ n < 2 * Key
  <2>1. v \in 1 .. versions /\ v \in Version
    BY <1>1 DEF SnapshotInv, ProjectorInv, Projecting, VersionTypes, Version
  <2>2. n \in 0 .. 2 * Key /\ n # 2 * Key
    BY <1>1 DEF WriteKeys, WorkTypes, Written
  <2> QED BY <2>1, <2>2
<1>3. written' = [written EXCEPT ![w] = n + 1] /\ pc' = pc /\ score' = score
  BY DEF WriteKeys
<1>4. CASE n % 2 = 0
  <2>1. stored' = [stored EXCEPT ![v] = @ \cup {(n + 2) \div 2}] /\ remembered' = remembered
    BY <1>4 DEF WriteKeys, Commands, WriteKey
  <2>2. Lost' \subseteq Lost \cup {<<v, (n + 2) \div 2>>}
    BY <1>1, <1>2, <1>3, <2>1 DEF Lost, Forgotten, VersionTypes
  <2>3. (n + 1) % 2 = 1
    BY <1>2, <1>4
  <2>4. w \notin InFlight /\ InFlight' = InFlight \cup {w}
    BY <1>1, <1>2, <1>3, <1>4, <2>3 DEF InFlight, WorkTypes
  <2> QED BY <1>1, <2>2, <2>4, OneMoreInFlight
<1>5. CASE n % 2 # 0
  <2> DEFINE k == (n + 1) \div 2
  <2>1. remembered' = [remembered EXCEPT ![v] = @ \cup {k}] /\ stored' = stored
    BY <1>5 DEF WriteKeys, Commands, RememberKey
  <2>2. 2 * k = n + 1 /\ k \in Keys
    BY <1>2, <1>5 DEF Keys
  <2>3. k \in stored[v] /\ k \notin remembered[v]
    BY <1>1, <1>2, <2>2 DEF SnapshotInv, WriteInv
  <2> HIDE DEF k, v, n
  <2>4. <<v, k>> \in Lost
    BY <1>2, <2>2, <2>3 DEF Lost, Forgotten
  <2>5. v \in DOMAIN score
    BY <1>1 DEF SnapshotInv, ProjectorInv, v
  <2>6. Lost' \subseteq Lost \ {<<v, k>>}
    <3> SUFFICES ASSUME NEW p \in Lost' PROVE p \in Lost /\ p # <<v, k>>
      OBVIOUS
    <3>1. p \in Version \X Keys /\ Forgotten(p[1], p[2])'
      BY DEF Lost
    <3>2. p[2] \in stored[p[1]] /\ (p[1] \notin DOMAIN score \/ p[2] \notin remembered'[p[1]])
      BY <1>3, <2>1, <3>1 DEF Forgotten
    <3>3. remembered[p[1]] \subseteq remembered'[p[1]] /\ k \in remembered'[v]
      BY <1>1, <1>2, <2>1, <3>1 DEF VersionTypes
    <3>4. p \in Lost
      BY <3>1, <3>2, <3>3 DEF Lost, Forgotten
    <3>5. p # <<v, k>>
      BY <2>5, <3>2, <3>3
    <3> QED BY <3>4, <3>5
  <2>7. (n + 1) % 2 = 0 /\ n % 2 = 1
    BY <1>2, <1>5 
  <2>8. w \in InFlight /\ InFlight' = InFlight \ {w}
    BY <1>1, <1>2, <1>3, <2>7 DEF InFlight, WorkTypes, n
  <2> QED BY <1>1, <2>4, <2>6, <2>8, OneLessInFlight
<1> QED BY <1>4, <1>5

\* Erasing a version leaves its set of keys until no key is left.
LEMMA LeaksWhileErasing ==
  ASSUME SnapshotInv, NEW w \in ServiceWorker,
         Register(w) \/ Retire(w) \/ Unlink(w) \/ Remove(w)
  PROVE  LeaksAreFaults'
<1>1. WorkTypes /\ VersionTypes
  BY DEF SnapshotInv, SnapshotTypeOK
<1>2. InFlight' = InFlight
  <2>1. CASE Register(w)
    <3>1. written[w] = 0
      BY <2>1 DEF Register, Turns, SnapshotInv, WriteInv
    <3> QED BY <1>1, <2>1, <3>1 DEF InFlight, WorkTypes, Register, Turns
  <2>2. CASE Retire(w)
    <3>1. written[w] = 2 * Key /\ written[w] % 2 # 1
      BY <2>2 DEF Retire, Written
    <3> QED BY <1>1, <2>2, <3>1 DEF InFlight, WorkTypes, Retire, Turns
  <2>3. CASE Unlink(w) \/ Remove(w)
    BY <1>1, <2>3 DEF InFlight, WorkTypes, Unlink, Remove, Turns
  <2> QED BY <2>1, <2>2, <2>3
<1>3. faults' = faults
  BY DEF Register, Retire, Unlink, Remove
<1>4. Lost' \subseteq Lost
  <2>1. CASE Register(w) \/ Retire(w)
    <3>1. DOMAIN score \subseteq DOMAIN score' /\ UNCHANGED <<stored, remembered>>
      BY <2>1 DEF Register, Retire, Rescored, Put
    <3> QED BY <3>1 DEF Lost, Forgotten
  <2>2. CASE Unlink(w)
    <3>1. version[w] \in Version
      BY <1>1, <2>2 DEF Unlink, SnapshotInv, DoomInv, WorkTypes
    <3>2. \A v \in Version : stored'[v] \subseteq stored[v]
      BY <1>1, <2>2, <3>1 DEF Unlink, VersionTypes
    <3>3. CASE victims[w] = {}
      <4>1. stored[version[w]] \cap remembered[version[w]] = {}
        BY <2>2, <3>3 DEF SnapshotInv, DoomInv, Unlink, Turns
      <4>2. /\ remembered' = [remembered EXCEPT ![version[w]] = {}] /\ score' = score
            /\ stored' = stored
        BY <2>2, <3>3 DEF Unlink, UnlinkSet
      <4> QED BY <1>1, <3>1, <4>1, <4>2 DEF Lost, Forgotten, VersionTypes
    <3>4. CASE victims[w] # {}
      <4>1. remembered' = remembered /\ score' = score
        BY <2>2, <3>4 DEF Unlink, UnlinkSet
      <4> QED BY <3>2, <4>1 DEF Lost, Forgotten
    <3> QED BY <3>3, <3>4
  <2>3. CASE Remove(w)
    <3>1. stored[version[w]] \cap remembered[version[w]] = {}
      BY <2>3 DEF SnapshotInv, DoomInv, Remove, Turns
    <3>2. DOMAIN score' = DOMAIN score \ {version[w]} /\ UNCHANGED <<stored, remembered>>
      BY <2>3 DEF Remove
    <3> QED BY <3>1, <3>2 DEF Lost, Forgotten
  <2> QED BY <2>1, <2>2, <2>3
<1> QED BY <1>2, <1>3, <1>4, NothingMoreIsLost

\* Every step keeps the number of the keys that are lost in bounds.
LEMMA LeaksHold ==
  ASSUME SnapshotInv, [NextSnapshots]_snapshotVars
  PROVE  LeaksAreFaults'
<1>1. ASSUME UNCHANGED <<versionVars, workVars, faults>>
      PROVE  LeaksAreFaults'
  BY <1>1 DEF LeaksAreFaults, Lost, Forgotten, InFlight, versionVars, workVars,
     SnapshotInv
<1>2. CASE UNCHANGED snapshotVars
  BY <1>1, <1>2 DEF snapshotVars
<1>3. CASE Elapse \/ (\E c \in Loader : Capture(c) \/ Load(c))
  BY <1>1, <1>3 DEF Elapse, Capture, Load
<1>4. ASSUME NEW w \in ServiceWorker,
             \/ Begin(w) \/ CleanNow(w) \/ Clean(w) \/ Expire(w) \/ Switch(w) \/ Create(w)
             \/ Same(w) \/ CleanNothing(w) \/ Done(w) \/ (\E v \in doomed[w] : Erase(w, v))
             \/ CommandFails(w)
      PROVE  LeaksAreFaults'
  <2>1. UNCHANGED <<stored, remembered, score>>
    BY <1>4 DEF Begin, CleanNow, Clean, Expire, Switch, Create, Same,
       CleanNothing, Done, Erase,
                CommandFails, versionVars
  <2> QED BY <1>4, <2>1, LeaksWhileStoredStays
<1>5. ASSUME NEW w \in ServiceWorker, Register(w) \/ Retire(w) \/ Unlink(w) \/ Remove(w)
      PROVE  LeaksAreFaults'
  BY <1>5, LeaksWhileErasing
<1>6. ASSUME NEW w \in ServiceWorker, WriteKeys(w) PROVE LeaksAreFaults'
  BY <1>6, LeaksWhileWriting
<1> QED BY <1>2, <1>3, <1>4, <1>5, <1>6 DEF NextSnapshots

----------------------------------------------------------------------------
(* Turns that begin or end, and write and erase nothing                    *)

OthersStay(w) ==
  \A u \in ServiceWorker \ {w} :
    /\ pc'[u] = pc[u] /\ began'[u] = began[u] /\ version'[u] = version[u]
    /\ written'[u] = written[u] /\ doomed'[u] = doomed[u] /\ victims'[u] = victims[u]

Calm(w) ==
  /\ UNCHANGED <<clock, versionVars, readVars>>
  /\ OthersStay(w)
  /\ pc'[w] \in {"idle", "compare", "clean"} \/ (pc'[w] = "expire" /\ version'[w] = active)
  /\ began'[w] <= clock /\ doomed'[w] = {}
  /\ \A u \in ServiceWorker : pc'[u] \in Holding => lock' = u

LEMMA CalmSteps ==
  ASSUME SnapshotInv, NEW w \in ServiceWorker,
         \/ Begin(w) \/ CleanNow(w) \/ Clean(w)
         \/ Same(w) \/ CleanNothing(w) \/ Done(w) \/ CommandFails(w)
  PROVE  Calm(w)
<1>1. WorkTypes /\ VersionTypes /\ ProjectorInv
  BY DEF SnapshotInv, SnapshotTypeOK
<1>2. CASE Begin(w)
  <2>1. OthersStay(w) /\ pc'[w] = "compare" /\ began'[w] <= clock /\ doomed'[w] = {}
    BY <1>1, <1>2 DEF Begin, OthersStay, Turns, WorkTypes, ProjectorInv
  <2>2. \A u \in ServiceWorker : pc'[u] \in Holding => lock' = u
    BY <1>1, <1>2 DEF Begin, Turns, WorkTypes, ProjectorInv, Nothing
  <2> QED BY <1>2, <2>1, <2>2 DEF Calm, Begin
<1>3. CASE CleanNow(w)
  <2>1. OthersStay(w) /\ pc'[w] = "clean" /\ began'[w] <= clock /\ doomed'[w] = {}
    BY <1>1, <1>3 DEF CleanNow, OthersStay, Turns, WorkTypes, VersionTypes
  <2>2. \A u \in ServiceWorker : pc'[u] \in Holding => lock' = u
    BY <1>1, <1>3 DEF CleanNow, Turns, WorkTypes, ProjectorInv, Holding
  <2> QED BY <1>3, <2>1, <2>2 DEF Calm, CleanNow
<1>4. CASE Clean(w)
  <2>1. /\ OthersStay(w) /\ pc'[w] = "expire" /\ version'[w] = active
        /\ began'[w] <= clock /\ doomed'[w] = {}
    BY <1>1, <1>4 DEF Clean, OthersStay, Turns, WorkTypes, ProjectorInv
  <2>2. \A u \in ServiceWorker : pc'[u] \in Holding => lock' = u
    BY <1>1, <1>4 DEF Clean, Turns, WorkTypes, ProjectorInv, Holding
  <2> QED BY <1>4, <2>1, <2>2 DEF Calm, Clean
<1>5. CASE Same(w) \/ CleanNothing(w) \/ Done(w) \/ CommandFails(w)
  <2>1. EndTurn(w) /\ UNCHANGED <<clock, versionVars, readVars>>
    BY <1>5 DEF Same, CleanNothing, Done, CommandFails
  <2>2. /\ OthersStay(w) /\ pc'[w] = "idle" /\ began'[w] <= clock /\ doomed'[w] = {}
    BY <1>1, <2>1 DEF EndTurn, OthersStay, WorkTypes, VersionTypes
  <2>3. \A u \in ServiceWorker : pc'[u] \in Holding => lock' = u
    BY <1>1, <2>1 DEF EndTurn, WorkTypes, ProjectorInv, Holding
  <2> QED BY <2>1, <2>2, <2>3 DEF Calm
<1> QED BY <1>2, <1>3, <1>4, <1>5

LEMMA CalmKeepsAll ==
  ASSUME SnapshotInv, NEW w \in ServiceWorker, Calm(w)
  PROVE  /\ NoTornLoad' /\ ProjectorInv' /\ WriteInv' /\ ActiveInv' /\ LoadInv' /\ DoomInv'
<1>1. /\ clock' = clock /\ versions' = versions /\ active' = active /\ stored' = stored
      /\ remembered' = remembered /\ score' = score
      /\ loading' = loading /\ since' = since /\ missing' = missing /\ torn' = torn
  BY DEF Calm, versionVars, readVars
<1>2. pc'[w] \in {"idle", "compare", "clean", "expire"} /\ doomed'[w] = {} /\ began'[w] <= clock
      /\ (pc'[w] = "expire" => version'[w] = active)
  BY DEF Calm
<1>3. OthersStay(w) /\ \A u \in ServiceWorker : pc'[u] \in Holding => lock' = u
  BY DEF Calm
<1>4. \A u \in ServiceWorker : Projecting(u)' => u # w /\ Projecting(u)
  BY <1>2, <1>3 DEF Projecting, OthersStay
<1>5. NoTornLoad'
  BY <1>1, Zenon DEF SnapshotInv, NoTornLoad
<1>6. ProjectorInv'
  BY <1>1, <1>2, <1>3, <1>4 DEF SnapshotInv, ProjectorInv, OthersStay
<1>7. WriteInv'
  BY <1>1, <1>2, <1>3 DEF SnapshotInv, WriteInv, OthersStay
<1>8. ActiveInv'
  BY <1>1, <1>2, <1>3 DEF SnapshotInv, ActiveInv, ActiveComplete, OthersStay
<1>9. LoadInv'
  BY <1>1, <1>3, <1>4 DEF SnapshotInv, LoadInv, OthersStay
<1>10. DoomInv'
  BY <1>1, <1>2, <1>3, <1>4 DEF SnapshotInv, DoomInv, OthersStay
<1> QED BY <1>5, <1>6, <1>7, <1>8, <1>9, <1>10

----------------------------------------------------------------------------
(* A projection                                                            *)

\* The types as single facts.
LEMMA Facts ==
  ASSUME SnapshotInv
  PROVE  /\ clock \in Nat /\ versions \in Nat /\ active \in 0 .. versions /\ versions <= MaxVersions
         /\ DOMAIN score \subseteq 1 .. versions /\ (\A v \in DOMAIN score : score[v] \in Nat)
         /\ began \in [ServiceWorker -> Nat] /\ since \in [Loader -> Nat]
         /\ loading \in [Loader -> Nat] /\ missing \in [Loader -> SUBSET Keys]
         /\ pc \in [ServiceWorker -> {"idle", "compare", "register", "write", "switch",
                                      "clean", "expire", "erase", "unlink", "remove"}]
         /\ version \in [ServiceWorker -> Nat] /\ written \in [ServiceWorker -> Nat]
         /\ doomed \in [ServiceWorker -> SUBSET Version] /\ victims \in [ServiceWorker -> SUBSET Keys]
         /\ stored \in [Version -> SUBSET Keys] /\ remembered \in [Version -> SUBSET Keys]
         /\ {Grace, MaxProjection, MaxRead} \subseteq Nat /\ Grace > MaxProjection + MaxRead
         /\ \A w \in ServiceWorker : doomed[w] # {} => pc[w] \in {"erase", "unlink", "remove"}
BY GraceIsLong DEF SnapshotInv, SnapshotTypeOK, VersionTypes, WorkTypes,
   ReadTypes

\* There is one projection at a time.
LEMMA OneProjector ==
  ASSUME SnapshotInv, NEW w \in ServiceWorker, pc[w] \in Holding,
         NEW u \in ServiceWorker, pc[u] \in Holding
  PROVE  u = w
BY DEF SnapshotInv, ProjectorInv

LEMMA CreateKeepsAll ==
  ASSUME SnapshotInv, NEW w \in ServiceWorker, Create(w)
  PROVE  /\ NoTornLoad' /\ ProjectorInv' /\ WriteInv' /\ ActiveInv' /\ LoadInv' /\ DoomInv'
<1> USE Facts
<1>1. \A u \in ServiceWorker : pc[u] \in Holding => u = w
  BY OneProjector DEF Create, Turns, Holding
<1>2. /\ pc' = [pc EXCEPT ![w] = "register"] /\ versions' = versions + 1 /\ versions < MaxVersions
      /\ version' = [version EXCEPT ![w] = versions + 1]
      /\ began' = [began EXCEPT ![w] = clock] /\ written' = [written EXCEPT ![w] = 0]
      /\ UNCHANGED <<clock, active, stored, remembered, score, lock, doomed, victims, faults>>
      /\ loading' = loading /\ since' = since /\ torn' = torn
  BY DEF Create, Turns, readVars
<1>3. \A u \in ServiceWorker : Projecting(u)' => u = w
  BY <1>1, <1>2 DEF Projecting, Holding
<1>4. NoTornLoad'
  BY <1>2, Zenon DEF SnapshotInv, NoTornLoad
<1>5. ProjectorInv'
  BY <1>1, <1>2, <1>3 DEF SnapshotInv, ProjectorInv, Holding, Create, Turns
<1>6. WriteInv'
  <2>1. versions + 1 \in Version /\ versions + 1 > versions
    BY <1>2 DEF Version
  <2>2. stored[versions + 1] = {} /\ remembered[versions + 1] = {}
    BY <2>1 DEF SnapshotInv, WriteInv
  <2>3. \A v \in Version : v > versions' => v > versions
    BY <1>2 DEF Version
  <2>4. pc'[w] = "register" /\ version'[w] = versions + 1 /\ written'[w] = 0
    BY <1>2
  <2>5. \A u \in ServiceWorker : pc'[u] \in {"register", "write", "switch"} => u = w
    BY <1>1, <1>2 DEF Holding
  <2> QED BY <1>2, <2>2, <2>3, <2>4, <2>5 DEF SnapshotInv, WriteInv
<1>7. ActiveInv'
  BY <1>2 DEF SnapshotInv, ActiveInv, ActiveComplete
<1>8. LoadInv'
  BY <1>2, <1>3 DEF SnapshotInv, LoadInv
<1>9. DoomInv'
  BY <1>2, <1>3 DEF SnapshotInv, DoomInv
<1> QED BY <1>4, <1>5, <1>6, <1>7, <1>8, <1>9

LEMMA RegisterKeepsAll ==
  ASSUME SnapshotInv, NEW w \in ServiceWorker, Register(w)
  PROVE  /\ NoTornLoad' /\ ProjectorInv' /\ WriteInv' /\ ActiveInv' /\ LoadInv' /\ DoomInv'
<1> USE Facts
<1>1. \A u \in ServiceWorker : pc[u] \in Holding => u = w
  BY OneProjector DEF Register, Turns, Holding
<1>2. /\ pc[w] = "register" /\ pc' = [pc EXCEPT ![w] = "write"]
      /\ DOMAIN score' = DOMAIN score \cup {version[w]}
      /\ score'[version[w]] = began[w]
      /\ \A v \in DOMAIN score : v # version[w] => score'[v] = score[v]
      /\ UNCHANGED <<clock, versions, active, stored, remembered, lock, began, version, written,
                     doomed, victims>>
      /\ loading' = loading /\ since' = since /\ torn' = torn
  BY DEF Register, Turns, readVars, Put
<1>3. \A u \in ServiceWorker : Projecting(u)' => u = w /\ Projecting(u)
  BY <1>1, <1>2 DEF Projecting, Holding
<1>4. NoTornLoad'
  BY <1>2, Zenon DEF SnapshotInv, NoTornLoad
<1>5. ProjectorInv'
  BY <1>1, <1>2, <1>3 DEF SnapshotInv, ProjectorInv, Holding
<1>6. WriteInv'
  <2>1. written[w] = 0 /\ stored[version[w]] = {} /\ remembered[version[w]] = {}
    BY <1>2 DEF SnapshotInv, WriteInv
  <2>2. \A k \in Keys : ~(2 * k <= 0 + 1) /\ ~(2 * k <= 0)
    BY DEF Keys
  <2>3. \A u \in ServiceWorker : pc'[u] \in {"register", "write", "switch"} => u = w /\ pc'[u] = "write"
    BY <1>1, <1>2 DEF Holding
  <2> QED BY <1>2, <2>1, <2>2, <2>3 DEF SnapshotInv, WriteInv
<1>7. version[w] # active
  BY <1>2 DEF SnapshotInv, ProjectorInv, Projecting
<1>8. ActiveInv'
  BY <1>1, <1>2, <1>7 DEF SnapshotInv, ActiveInv, ActiveComplete, Holding
<1>9. LoadInv'
  <2>1. \A c \in Loader : loading[c] # Nothing => version[w] # loading[c]
    BY <1>2 DEF SnapshotInv, LoadInv, Projecting
  <2> QED BY <1>2, <1>3, <2>1 DEF SnapshotInv, LoadInv
<1>10. DoomInv'
  BY <1>2, <1>3 DEF SnapshotInv, DoomInv
<1> QED BY <1>4, <1>5, <1>6, <1>8, <1>9, <1>10

LEMMA WriteKeepsAll ==
  ASSUME SnapshotInv, NEW w \in ServiceWorker, WriteKeys(w)
  PROVE  /\ NoTornLoad' /\ ProjectorInv' /\ WriteInv' /\ ActiveInv' /\ LoadInv' /\ DoomInv'
<1> USE Facts
<1>1. \A u \in ServiceWorker : pc[u] \in Holding => u = w
  BY OneProjector DEF WriteKeys, Holding
<1>2. /\ pc[w] = "write" /\ version[w] \in 1 .. versions /\ version[w] \in Version
      /\ version[w] # active
  BY DEF WriteKeys, SnapshotInv, ProjectorInv, Projecting, Version
<1>3. /\ written' = [written EXCEPT ![w] = written[w] + 1]
      /\ UNCHANGED <<clock, versions, active, score, lock, pc, began, version, doomed, victims>>
      /\ loading' = loading /\ since' = since /\ torn' = torn
  BY DEF WriteKeys, readVars
<1>4. \A v \in Version : v # version[w] => stored'[v] = stored[v] /\ remembered'[v] = remembered[v]
  BY <1>2 DEF WriteKeys, Commands, WriteKey, RememberKey
<1>5. \A u \in ServiceWorker : Projecting(u)' <=> Projecting(u)
  BY <1>3 DEF Projecting
<1>6. NoTornLoad'
  BY <1>3, Zenon DEF SnapshotInv, NoTornLoad
<1>7. ProjectorInv'
  BY <1>1, <1>2, <1>3, <1>5 DEF SnapshotInv, ProjectorInv, Holding
<1>8. WriteInv'
  <2>1. \A v \in Version : v > versions => stored'[v] = {} /\ remembered'[v] = {}
    BY <1>2, <1>4 DEF SnapshotInv, WriteInv
  <2>2. /\ \A k \in Keys : k \in stored[version[w]] <=> 2 * k <= written[w] + 1
        /\ \A k \in Keys : k \in remembered[version[w]] <=> 2 * k <= written[w]
    BY <1>2 DEF SnapshotInv, WriteInv
  <2>3. /\ \A k \in Keys : k \in stored'[version[w]] <=> 2 * k <= written[w] + 2
        /\ \A k \in Keys : k \in remembered'[version[w]] <=> 2 * k <= written[w] + 1
    <3>1. CASE written[w] % 2 = 0
      <4>1. /\ stored' = [stored EXCEPT ![version[w]] = @ \cup {(written[w] + 2) \div 2}]
            /\ remembered' = remembered
        BY <3>1 DEF WriteKeys, Commands, WriteKey
      <4>2. \A k \in Keys :
              /\ 2 * k <= written[w] + 2 <=> 2 * k <= written[w] + 1 \/ k = (written[w] + 2) \div 2
              /\ 2 * k <= written[w] + 1 <=> 2 * k <= written[w]
        BY <3>1 DEF Keys
      <4> QED BY <1>2, <2>2, <4>1, <4>2
    <3>2. CASE written[w] % 2 # 0
      <4>1. /\ remembered' = [remembered EXCEPT ![version[w]] = @ \cup {(written[w] + 1) \div 2}]
            /\ stored' = stored
        BY <3>2 DEF WriteKeys, Commands, RememberKey
      <4>2. PICK m \in Nat : written[w] = 2 * m + 1
        BY <3>2
      <4>3. (written[w] + 1) \div 2 = m + 1
        BY <4>2
      <4>4. /\ stored'[version[w]] = stored[version[w]]
            /\ remembered'[version[w]] = remembered[version[w]] \cup {m + 1}
        BY <1>2, <4>1, <4>3
      <4>5. ASSUME NEW k \in Keys
            PROVE  /\ k \in stored'[version[w]] <=> 2 * k <= written[w] + 2
                   /\ k \in remembered'[version[w]] <=> 2 * k <= written[w] + 1
        <5>1. /\ k \in stored[version[w]] <=> 2 * k <= written[w] + 1
              /\ k \in remembered[version[w]] <=> 2 * k <= written[w]
          BY <2>2
        <5>2. /\ 2 * k <= written[w] + 1 <=> 2 * k <= written[w] \/ k = m + 1
              /\ 2 * k <= written[w] + 2 <=> 2 * k <= written[w] + 1
          <6>1. k \in Nat
            BY DEF Keys
          <6> QED BY ONLY <4>2, <6>1, m \in Nat
        <5>3. /\ k \in stored'[version[w]] <=> k \in stored[version[w]]
              /\ k \in remembered'[version[w]] <=> k \in remembered[version[w]] \/ k = m + 1
          BY <4>4
        <5> QED BY ONLY <5>1, <5>2, <5>3
      <4> QED BY <4>5
    <3> QED BY <3>1, <3>2
  <2>4. written'[w] = written[w] + 1 /\ version'[w] = version[w]
    BY <1>3
  <2> QED BY <1>1, <1>2, <1>3, <2>1, <2>3, <2>4 DEF WriteInv, Holding
<1>9. ActiveInv'
  <2>1. active # Nothing => stored'[active] = stored[active]
    BY <1>2, <1>4 DEF Version, Nothing
  <2> QED BY <1>3, <2>1 DEF SnapshotInv, ActiveInv, ActiveComplete
<1>10. LoadInv'
  <2>1. \A c \in Loader : loading[c] # Nothing => stored'[loading[c]] = stored[loading[c]]
    <3>1. \A c \in Loader : loading[c] # Nothing =>
             loading[c] \in 1 .. versions /\ loading[c] # version[w]
      BY <1>2 DEF SnapshotInv, LoadInv, Nothing, Projecting
    <3>2. \A v \in 1 .. versions : v \in Version
      BY DEF Version
    <3> QED BY <1>4, <3>1, <3>2
  <2> QED BY <1>3, <1>5, <2>1 DEF SnapshotInv, LoadInv
<1>11. DoomInv'
  <2>1. \A u \in ServiceWorker : pc[u] \in {"unlink", "remove"} =>
           version[u] \in Version /\ version[u] # version[w]
    BY <1>2 DEF SnapshotInv, DoomInv, Projecting
  <2>2. \A u \in ServiceWorker : pc[u] \in {"unlink", "remove"} =>
           stored'[version[u]] = stored[version[u]] /\ remembered'[version[u]] = remembered[version[u]]
    BY <1>4, <2>1
  <2> QED BY <1>3, <1>5, <2>2 DEF SnapshotInv, DoomInv
<1> QED BY <1>6, <1>7, <1>8, <1>9, <1>10, <1>11

LEMMA RetireKeepsAll ==
  ASSUME SnapshotInv, NEW w \in ServiceWorker, Retire(w)
  PROVE  /\ NoTornLoad' /\ ProjectorInv' /\ WriteInv' /\ ActiveInv' /\ LoadInv' /\ DoomInv'
<1> USE Facts
<1>1. \A u \in ServiceWorker : pc[u] \in Holding => u = w
  BY OneProjector DEF Retire, Turns, Holding
<1>2. /\ pc[w] = "write" /\ written[w] = 2 * Key /\ pc' = [pc EXCEPT ![w] = "switch"]
      /\ UNCHANGED <<clock, versions, active, stored, remembered, lock, began, version, written,
                     doomed, victims>>
      /\ loading' = loading /\ since' = since /\ torn' = torn
  BY DEF Retire, Turns, readVars, Written
<1>3. /\ active = Nothing => score' = score
      /\ active # Nothing => DOMAIN score' = DOMAIN score \cup {active} /\ score'[active] = began[w]
      /\ \A v \in DOMAIN score : v # active => score'[v] = score[v]
  BY DEF Retire, Rescored, Put
<1>4. \A u \in ServiceWorker : Projecting(u)' => u = w /\ Projecting(u)
  BY <1>1, <1>2 DEF Projecting, Holding
<1>5. version[w] # active /\ version[w] \in DOMAIN score /\ score[version[w]] = began[w]
      /\ clock <= began[w] + MaxProjection
  BY <1>2 DEF SnapshotInv, ProjectorInv, Projecting
<1>6. NoTornLoad'
  BY <1>2, Zenon DEF SnapshotInv, NoTornLoad
<1>7. ProjectorInv'
  <2>1. version[w] \in DOMAIN score' /\ score'[version[w]] = began[w]
    BY <1>3, <1>5
  <2>2. \A u \in ServiceWorker : pc'[u] \in {"register", "write", "switch"} => u = w /\ pc'[u] = "switch"
    BY <1>1, <1>2 DEF Holding
  <2> QED BY <1>1, <1>2, <1>4, <2>1, <2>2 DEF SnapshotInv, ProjectorInv, Holding
<1>8. WriteInv'
  <2>1. stored[version[w]] = Keys
    <3>1. version[w] \in Version
      BY <1>5 DEF Version
    <3>2. \A k \in Keys : 2 * k <= 2 * Key + 1
      BY DEF Keys
    <3>3. \A k \in Keys : k \in stored[version[w]]
      BY <1>2, <3>2 DEF SnapshotInv, WriteInv
    <3>4. stored[version[w]] \subseteq Keys
      BY <3>1
    <3> QED BY <3>3, <3>4
  <2>2. \A u \in ServiceWorker : pc'[u] \in {"register", "write", "switch"} => u = w /\ pc'[u] = "switch"
    BY <1>1, <1>2 DEF Holding
  <2> QED BY <1>2, <2>1, <2>2 DEF SnapshotInv, WriteInv
<1>9. ActiveInv'
  <2>1. \A u \in ServiceWorker : active # Nothing /\ pc'[u] = "switch" =>
          active \in DOMAIN score' /\ score'[active] = began[u]
    BY <1>1, <1>2, <1>3 DEF Holding
  <2>2. \A u \in ServiceWorker : active # Nothing => score'[active] + Grace > began[u]
    BY <1>3, <1>5 DEF SnapshotInv, ProjectorInv
  <2>3. active \in DOMAIN score' => active # Nothing
    BY <1>3 DEF Nothing
  <2> QED BY <1>2, <2>1, <2>2, <2>3 DEF SnapshotInv, ActiveInv, ActiveComplete
<1>10. LoadInv'
  BY <1>2, <1>3, <1>4 DEF SnapshotInv, LoadInv
<1>11. DoomInv'
  BY <1>2, <1>4 DEF SnapshotInv, DoomInv
<1> QED BY <1>6, <1>7, <1>8, <1>9, <1>10, <1>11

LEMMA SwitchKeepsAll ==
  ASSUME SnapshotInv, NEW w \in ServiceWorker, Switch(w)
  PROVE  /\ NoTornLoad' /\ ProjectorInv' /\ WriteInv' /\ ActiveInv' /\ LoadInv' /\ DoomInv'
<1> USE Facts
<1>1. \A u \in ServiceWorker : pc[u] \in Holding => u = w
  BY OneProjector DEF Switch, Turns, Holding
<1>2. /\ pc[w] = "switch" /\ pc' = [pc EXCEPT ![w] = "expire"] /\ active' = version[w]
      /\ UNCHANGED <<clock, versions, stored, remembered, score, lock, began, version, written,
                     doomed, victims>>
      /\ loading' = loading /\ since' = since /\ torn' = torn
  BY DEF Switch, Turns, readVars
<1>3. \A u \in ServiceWorker : ~Projecting(u)'
  BY <1>1, <1>2 DEF Projecting, Holding
<1>4. version[w] # active /\ version[w] \in 1 .. versions
      /\ version[w] \in DOMAIN score /\ score[version[w]] = began[w]
      /\ clock <= began[w] + MaxProjection
  BY <1>2 DEF SnapshotInv, ProjectorInv, Projecting
<1>5. \A u \in ServiceWorker : pc'[u] \notin {"register", "write", "switch"}
  BY <1>1, <1>2 DEF Holding
<1>6. NoTornLoad'
  BY <1>2, Zenon DEF SnapshotInv, NoTornLoad
<1>7. ProjectorInv'
  BY <1>1, <1>2, <1>3, <1>5 DEF SnapshotInv, ProjectorInv, Holding
<1>8. WriteInv'
  BY <1>2, <1>5 DEF SnapshotInv, WriteInv
<1>9. ActiveInv'
  <2>1. stored[version[w]] = Keys
    BY <1>2 DEF SnapshotInv, WriteInv
  <2>2. \A u \in ServiceWorker : score[version[w]] + Grace > began[u]
    BY <1>4 DEF SnapshotInv, ProjectorInv
  <2> QED BY <1>2, <1>5, <2>1, <2>2 DEF ActiveInv, ActiveComplete
<1>10. LoadInv'
  <2>1. \A c \in Loader : loading[c] # Nothing => loading[c] # version[w]
    BY <1>2 DEF SnapshotInv, LoadInv, Projecting
  <2>2. active # Nothing => active \in DOMAIN score /\ score[active] = began[w]
    BY <1>2 DEF SnapshotInv, ActiveInv
  <2>3. \A c \in Loader : loading[c] # Nothing => since[c] <= clock
    BY DEF SnapshotInv, LoadInv
  <2>4. \A c \in Loader : loading[c] # Nothing /\ loading[c] \in DOMAIN score =>
           score[loading[c]] + MaxProjection >= since[c]
    BY <1>4, <2>2, <2>3 DEF SnapshotInv, LoadInv
  <2> QED BY <1>2, <1>3, <2>4 DEF SnapshotInv, LoadInv
<1>11. DoomInv'
  <2>1. \A u \in ServiceWorker : \A v \in doomed[u] : v # version[w]
    BY <1>2 DEF SnapshotInv, DoomInv, Projecting
  <2>2. \A u \in ServiceWorker : pc'[u] \in {"unlink", "remove"} => pc'[u] = pc[u]
    BY <1>2
  <2> QED BY <1>2, <1>3, <2>1, <2>2 DEF SnapshotInv, DoomInv
<1> QED BY <1>6, <1>7, <1>8, <1>9, <1>10, <1>11

----------------------------------------------------------------------------
(* Erasing                                                                 *)

\* What has expired is needed by nobody: it was replaced Grace ago, and who is
\* still writing or loading began after that.
LEMMA ExpiredIsUnused ==
  ASSUME SnapshotInv, NEW w \in ServiceWorker, pc[w] = "expire",
         NEW v \in Expired(began[w], version[w])
  PROVE  /\ v \in 1 .. versions /\ v # active
         /\ \A u \in ServiceWorker : Projecting(u) => version[u] # v
         /\ \A c \in Loader : loading[c] # v
<1> USE Facts
<1>1. v \in DOMAIN score /\ v # version[w] /\ score[v] + Grace <= began[w] /\ v \in 1 .. versions
  BY DEF Expired
<1>2. v # active
  BY <1>1 DEF SnapshotInv, ActiveInv
<1>3. began[w] <= clock
  BY DEF SnapshotInv, ProjectorInv
<1>4. ASSUME NEW u \in ServiceWorker, Projecting(u), version[u] = v PROVE FALSE
  <2>1. pc[u] \in {"write", "switch"}
    BY <1>1, <1>4 DEF SnapshotInv, ProjectorInv, Projecting
  <2>2. score[v] = began[u] /\ clock <= began[u] + MaxProjection
    BY <1>4, <2>1 DEF SnapshotInv, ProjectorInv
  <2> QED BY <1>1, <1>3, <2>2
<1>5. ASSUME NEW c \in Loader, loading[c] = v PROVE FALSE
  <2>1. score[v] + MaxProjection >= since[c] /\ clock <= since[c] + MaxRead
    BY <1>1, <1>2, <1>5 DEF SnapshotInv, LoadInv, Nothing
  <2> QED BY <1>1, <1>3, <2>1
<1> QED BY <1>1, <1>2, <1>4, <1>5

LEMMA ExpireKeepsAll ==
  ASSUME SnapshotInv, NEW w \in ServiceWorker, Expire(w)
  PROVE  /\ NoTornLoad' /\ ProjectorInv' /\ WriteInv' /\ ActiveInv' /\ LoadInv' /\ DoomInv'
<1> USE Facts
<1>1. /\ pc[w] = "expire" /\ pc' = [pc EXCEPT ![w] = "erase"]
      /\ doomed' = [doomed EXCEPT ![w] = Expired(began[w], version[w])]
      /\ UNCHANGED <<clock, versions, active, stored, remembered, score, lock, began, version,
                     written, victims>>
      /\ loading' = loading /\ since' = since /\ torn' = torn
  BY DEF Expire, Turns, readVars, versionVars
<1>2. \A u \in ServiceWorker : Projecting(u)' <=> Projecting(u)
  BY <1>1 DEF Projecting
<1>3. NoTornLoad'
  BY <1>1, Zenon DEF SnapshotInv, NoTornLoad
<1>4. ProjectorInv'
  BY <1>1, <1>2 DEF SnapshotInv, ProjectorInv, Holding
<1>5. WriteInv'
  BY <1>1 DEF SnapshotInv, WriteInv
<1>6. ActiveInv'
  BY <1>1 DEF SnapshotInv, ActiveInv, ActiveComplete
<1>7. LoadInv'
  BY <1>1, <1>2 DEF SnapshotInv, LoadInv
<1>8. DoomInv'
  <2>1. \A u \in ServiceWorker : \A v \in doomed'[u] :
          \/ v \in doomed[u]
          \/ /\ v \in 1 .. versions /\ v # active
             /\ \A x \in ServiceWorker : Projecting(x) => version[x] # v
             /\ \A c \in Loader : loading[c] # v
    BY <1>1, ExpiredIsUnused
  <2>2. \A u \in ServiceWorker : pc'[u] \in {"unlink", "remove"} =>
           pc'[u] = pc[u] /\ doomed'[u] = doomed[u]
    BY <1>1
  <2> QED BY <1>1, <1>2, <2>1, <2>2 DEF SnapshotInv, DoomInv
<1> QED BY <1>3, <1>4, <1>5, <1>6, <1>7, <1>8

LEMMA EraseKeepsAll ==
  ASSUME SnapshotInv, NEW w \in ServiceWorker, NEW v \in doomed[w], Erase(w, v)
  PROVE  /\ NoTornLoad' /\ ProjectorInv' /\ WriteInv' /\ ActiveInv' /\ LoadInv' /\ DoomInv'
<1> USE Facts
<1>1. /\ pc[w] = "erase" /\ pc' = [pc EXCEPT ![w] = "unlink"]
      /\ version' = [version EXCEPT ![w] = v] /\ victims' = [victims EXCEPT ![w] = remembered[v]]
      /\ UNCHANGED <<clock, versions, active, stored, remembered, score, lock, began,
                     written, doomed>>
      /\ loading' = loading /\ since' = since /\ torn' = torn
  BY DEF Erase, Turns, readVars, versionVars
<1>2. \A u \in ServiceWorker : Projecting(u)' => u # w /\ Projecting(u)
  BY <1>1 DEF Projecting
<1>3. NoTornLoad'
  BY <1>1, Zenon DEF SnapshotInv, NoTornLoad
<1>4. ProjectorInv'
  BY <1>1, <1>2 DEF SnapshotInv, ProjectorInv, Holding
<1>5. WriteInv'
  BY <1>1 DEF SnapshotInv, WriteInv
<1>6. ActiveInv'
  BY <1>1 DEF SnapshotInv, ActiveInv, ActiveComplete
<1>7. LoadInv'
  BY <1>1, <1>2 DEF SnapshotInv, LoadInv
<1>8. DoomInv'
  BY <1>1, <1>2 DEF SnapshotInv, DoomInv
<1> QED BY <1>3, <1>4, <1>5, <1>6, <1>7, <1>8

LEMMA UnlinkKeepsAll ==
  ASSUME SnapshotInv, NEW w \in ServiceWorker, Unlink(w)
  PROVE  /\ NoTornLoad' /\ ProjectorInv' /\ WriteInv' /\ ActiveInv' /\ LoadInv' /\ DoomInv'
<1> USE Facts
<1>1. /\ pc[w] = "unlink" /\ version[w] \in doomed[w] /\ version[w] \in Version
      /\ version[w] # active
      /\ \A u \in ServiceWorker : Projecting(u) => version[u] # version[w]
      /\ \A c \in Loader : loading[c] # version[w]
      /\ stored[version[w]] \cap remembered[version[w]] \subseteq victims[w]
  BY DEF Unlink, Turns, SnapshotInv, DoomInv
<1>2. /\ pc' = pc \/ (victims[w] = {} /\ pc' = [pc EXCEPT ![w] = "remove"])
      /\ UNCHANGED <<clock, versions, active, score, lock, began, version, written, doomed>>
      /\ loading' = loading /\ since' = since /\ torn' = torn
  BY DEF Unlink, Turns, readVars
<1>3. /\ \A v \in Version : stored'[v] \subseteq stored[v] /\ remembered'[v] \subseteq remembered[v]
      /\ \A v \in Version : v # version[w] => stored'[v] = stored[v] /\ remembered'[v] = remembered[v]
  <2>1. \A v \in Version : stored'[v] \subseteq stored[v] /\ (v # version[w] => stored'[v] = stored[v])
    BY <1>1 DEF Unlink
  <2>2. \A v \in Version : remembered'[v] \subseteq remembered[v]
                           /\ (v # version[w] => remembered'[v] = remembered[v])
    BY <1>1 DEF Unlink, UnlinkSet
  <2> QED BY <2>1, <2>2
<1>4. \A u \in ServiceWorker : Projecting(u)' <=> Projecting(u)
  BY <1>1, <1>2 DEF Projecting
<1>5. NoTornLoad'
  BY <1>2, Zenon DEF SnapshotInv, NoTornLoad
<1>6. ProjectorInv'
  BY <1>1, <1>2, <1>4 DEF SnapshotInv, ProjectorInv, Holding
<1>7. WriteInv'
  <2>1. \A u \in ServiceWorker : pc'[u] \in {"register", "write", "switch"} =>
           /\ pc'[u] = pc[u] /\ version[u] \in Version
           /\ stored'[version[u]] = stored[version[u]] /\ remembered'[version[u]] = remembered[version[u]]
    <3>1. ASSUME NEW u \in ServiceWorker, pc'[u] \in {"register", "write", "switch"}
          PROVE  /\ pc'[u] = pc[u] /\ version[u] \in Version /\ version[u] # version[w]
      <4>1. pc'[u] = pc[u] /\ Projecting(u)
        BY <1>1, <1>2, <3>1 DEF Projecting
      <4> QED BY <1>1, <4>1, SMTT(40) DEF SnapshotInv, ProjectorInv, Version
    <3> QED BY <1>3, <3>1
  <2>2. \A v \in Version : v > versions => stored'[v] = {} /\ remembered'[v] = {}
    BY <1>3 DEF SnapshotInv, WriteInv
  <2> QED BY <1>2, <2>1, <2>2 DEF SnapshotInv, WriteInv
<1>8. ActiveInv'
  <2>1. active # Nothing => stored'[active] = stored[active]
    BY <1>1, <1>3 DEF Version, Nothing
  <2>2. \A u \in ServiceWorker : pc'[u] \in {"switch", "expire"} => pc'[u] = pc[u]
    BY <1>2
  <2> QED BY <1>2, <2>1, <2>2 DEF SnapshotInv, ActiveInv, ActiveComplete
<1>9. LoadInv'
  <2>1. \A c \in Loader : loading[c] # Nothing => stored'[loading[c]] = stored[loading[c]]
    <3>1. \A c \in Loader : loading[c] # Nothing => loading[c] \in Version
      <4>1. \A c \in Loader : loading[c] \in Nat /\ (loading[c] # Nothing => loading[c] <= versions)
        BY DEF SnapshotInv, LoadInv
      <4> QED BY <4>1 DEF Version, Nothing
    <3> QED BY <1>1, <1>3, <3>1
  <2> QED BY <1>2, <1>4, <2>1 DEF SnapshotInv, LoadInv
<1>10. DoomInv'
  <2>1. \A u \in ServiceWorker : pc'[u] \in {"unlink", "remove"} =>
          version[u] \in doomed[u] /\ version[u] \in Version
    BY <1>1, <1>2 DEF SnapshotInv, DoomInv
  <2>2. \A u \in ServiceWorker : pc'[u] = "unlink" =>
          stored'[version[u]] \cap remembered'[version[u]] \subseteq victims'[u]
    <3>1. ASSUME NEW u \in ServiceWorker, u # w, pc'[u] = "unlink"
          PROVE  stored'[version[u]] \cap remembered'[version[u]] \subseteq victims'[u]
      <4>1. pc[u] = "unlink" /\ victims'[u] = victims[u]
        BY <3>1 DEF Unlink, Turns
      <4>2. stored[version[u]] \cap remembered[version[u]] \subseteq victims[u]
        BY <4>1 DEF SnapshotInv, DoomInv
      <4> QED BY <1>3, <2>1, <3>1, <4>1, <4>2
    <3>2. ASSUME pc'[w] = "unlink"
          PROVE  stored'[version[w]] \cap remembered'[version[w]] \subseteq victims'[w]
      <4>1. PICK k \in victims[w] : /\ stored' = [stored EXCEPT ![version[w]] = @ \ {k}]
                                    /\ victims' = [victims EXCEPT ![w] = @ \ {k}]
        BY <3>2 DEF Unlink, Turns
      <4> QED BY <1>1, <1>3, <4>1
    <3> QED BY <3>1, <3>2
  <2>3. \A u \in ServiceWorker : pc'[u] = "remove" =>
          stored'[version[u]] \cap remembered'[version[u]] = {}
    <3>1. \A u \in ServiceWorker : pc'[u] = "remove" =>
            stored[version[u]] \cap remembered[version[u]] = {}
      BY <1>1, <1>2 DEF SnapshotInv, DoomInv
    <3> QED BY <1>3, <2>1, <3>1
  <2> QED BY <1>2, <1>4, <2>1, <2>2, <2>3 DEF SnapshotInv, DoomInv
<1> QED BY <1>5, <1>6, <1>7, <1>8, <1>9, <1>10

LEMMA RemoveKeepsAll ==
  ASSUME SnapshotInv, NEW w \in ServiceWorker, Remove(w)
  PROVE  /\ NoTornLoad' /\ ProjectorInv' /\ WriteInv' /\ ActiveInv' /\ LoadInv' /\ DoomInv'
<1> USE Facts
<1>1. /\ pc[w] = "remove" /\ version[w] \in doomed[w] /\ version[w] # active
      /\ \A u \in ServiceWorker : Projecting(u) => version[u] # version[w]
      /\ \A c \in Loader : loading[c] # version[w]
  BY DEF Remove, Turns, SnapshotInv, DoomInv
<1>2. /\ pc' = [pc EXCEPT ![w] = "erase"]
      /\ DOMAIN score' = DOMAIN score \ {version[w]}
      /\ \A v \in DOMAIN score : v # version[w] => score'[v] = score[v]
      /\ doomed' = [doomed EXCEPT ![w] = @ \ {version[w]}]
      /\ UNCHANGED <<clock, versions, active, stored, remembered, lock, began, version, written, victims>>
      /\ loading' = loading /\ since' = since /\ torn' = torn
  BY DEF Remove, Turns, readVars
<1>3. \A u \in ServiceWorker : Projecting(u)' <=> Projecting(u)
  BY <1>1, <1>2 DEF Projecting
<1>4. NoTornLoad'
  BY <1>2, Zenon DEF SnapshotInv, NoTornLoad
<1>5. ProjectorInv'
  <2>1. \A u \in ServiceWorker : pc'[u] \in Holding \cup {"register", "write", "switch"} => pc'[u] = pc[u]
    BY <1>1, <1>2 DEF Holding
  <2> QED BY <1>1, <1>2, <1>3, <2>1 DEF SnapshotInv, ProjectorInv, Projecting
<1>6. WriteInv'
  BY <1>1, <1>2 DEF SnapshotInv, WriteInv
<1>7. ActiveInv'
  BY <1>1, <1>2 DEF SnapshotInv, ActiveInv, ActiveComplete
<1>8. LoadInv'
  BY <1>1, <1>2, <1>3 DEF SnapshotInv, LoadInv
<1>9. DoomInv'
  BY <1>1, <1>2, <1>3 DEF SnapshotInv, DoomInv
<1> QED BY <1>4, <1>5, <1>6, <1>7, <1>8, <1>9

----------------------------------------------------------------------------
(* Loading, and time                                                       *)

LEMMA CaptureKeepsAll ==
  ASSUME SnapshotInv, NEW c \in Loader, Capture(c)
  PROVE  /\ NoTornLoad' /\ ProjectorInv' /\ WriteInv' /\ ActiveInv' /\ LoadInv' /\ DoomInv'
<1> USE Facts
<1>1. /\ active # Nothing /\ loading' = [loading EXCEPT ![c] = active]
      /\ since' = [since EXCEPT ![c] = clock] /\ torn' = torn
      /\ UNCHANGED <<clock, versions, active, stored, remembered, score>>
      /\ UNCHANGED <<lock, pc, began, version, written, doomed, victims>>
  BY DEF Capture, versionVars, workVars
<1>2. \A u \in ServiceWorker : Projecting(u)' <=> Projecting(u)
  BY <1>1 DEF Projecting
<1>3. \A u \in ServiceWorker : Projecting(u) => version[u] # active
  BY DEF SnapshotInv, ProjectorInv
<1>4. NoTornLoad'
  BY <1>1, Zenon DEF SnapshotInv, NoTornLoad
<1>5. ProjectorInv'
  BY <1>1, <1>2 DEF SnapshotInv, ProjectorInv, Holding
<1>6. WriteInv'
  BY <1>1 DEF SnapshotInv, WriteInv
<1>7. ActiveInv'
  BY <1>1 DEF SnapshotInv, ActiveInv, ActiveComplete
<1>8. LoadInv'
  <2>1. stored[active] = Keys
    BY <1>1 DEF SnapshotInv, ActiveInv, ActiveComplete
  <2> QED BY <1>1, <1>2, <1>3, <2>1 DEF SnapshotInv, LoadInv
<1>9. DoomInv'
  BY <1>1, <1>2 DEF SnapshotInv, DoomInv
<1> QED BY <1>4, <1>5, <1>6, <1>7, <1>8, <1>9

LEMMA LoadKeepsAll ==
  ASSUME SnapshotInv, NEW c \in Loader, Load(c)
  PROVE  /\ NoTornLoad' /\ ProjectorInv' /\ WriteInv' /\ ActiveInv' /\ LoadInv' /\ DoomInv'
<1> USE Facts
<1>1. /\ loading[c] # Nothing
      /\ \/ loading' = loading /\ since' = since
         \/ loading' = [loading EXCEPT ![c] = Nothing] /\ since' = [since EXCEPT ![c] = 0]
      /\ UNCHANGED <<clock, versions, active, stored, remembered, score>>
      /\ UNCHANGED <<lock, pc, began, version, written, doomed, victims>>
  BY DEF Load, versionVars, workVars
<1>2. \A u \in ServiceWorker : Projecting(u)' <=> Projecting(u)
  BY <1>1 DEF Projecting
<1>3. NoTornLoad'
  <2>1. stored[loading[c]] = Keys
    BY <1>1 DEF SnapshotInv, LoadInv
  <2>2. CASE \E k \in missing[c] : torn' = [torn EXCEPT ![c] = @ \/ k \notin stored[loading[c]]]
    <3>1. PICK k \in missing[c] : torn' = [torn EXCEPT ![c] = @ \/ k \notin stored[loading[c]]]
      BY <2>2
    <3>2. k \in stored[loading[c]]
      BY <2>1
    <3>3. \A d \in Loader : ~torn[d]
      BY DEF SnapshotInv, NoTornLoad
    <3>4. torn \in [Loader -> BOOLEAN]
      BY DEF SnapshotInv, SnapshotTypeOK, ReadTypes
    <3> QED BY ONLY <3>1, <3>2, <3>3, <3>4, Zenon DEF NoTornLoad
  <2>3. CASE torn' = torn
    BY <2>3, Zenon DEF SnapshotInv, NoTornLoad
  <2> QED BY <2>2, <2>3, Zenon DEF Load
<1>4. ProjectorInv'
  BY <1>1, <1>2 DEF SnapshotInv, ProjectorInv, Holding
<1>5. WriteInv'
  BY <1>1 DEF SnapshotInv, WriteInv
<1>6. ActiveInv'
  BY <1>1 DEF SnapshotInv, ActiveInv, ActiveComplete
<1>7. LoadInv'
  BY <1>1, <1>2 DEF SnapshotInv, LoadInv
<1>8. DoomInv'
  BY <1>1, <1>2 DEF SnapshotInv, DoomInv, Nothing
<1> QED BY <1>3, <1>4, <1>5, <1>6, <1>7, <1>8

LEMMA ElapseKeepsAll ==
  ASSUME SnapshotInv, Elapse
  PROVE  /\ NoTornLoad' /\ ProjectorInv' /\ WriteInv' /\ ActiveInv' /\ LoadInv' /\ DoomInv'
<1> USE Facts
<1>1. /\ clock' = clock + 1
      /\ \A w \in ServiceWorker : Projecting(w) => clock < began[w] + MaxProjection
      /\ \A c \in Loader : loading[c] # Nothing => clock < since[c] + MaxRead
      /\ UNCHANGED <<versions, active, stored, remembered, score>>
      /\ UNCHANGED <<lock, pc, began, version, written, doomed, victims>>
      /\ UNCHANGED <<loading, since, torn>>
  BY DEF Elapse, versionVars, workVars, readVars
<1>2. \A u \in ServiceWorker : Projecting(u)' <=> Projecting(u)
  BY <1>1 DEF Projecting
<1>3. NoTornLoad'
  BY <1>1, Zenon DEF SnapshotInv, NoTornLoad
<1>4. ProjectorInv'
  BY <1>1, <1>2 DEF SnapshotInv, ProjectorInv, Holding
<1>5. WriteInv'
  BY <1>1 DEF SnapshotInv, WriteInv
<1>6. ActiveInv'
  BY <1>1 DEF SnapshotInv, ActiveInv, ActiveComplete
<1>7. LoadInv'
  BY <1>1, <1>2 DEF SnapshotInv, LoadInv
<1>8. DoomInv'
  BY <1>1, <1>2 DEF SnapshotInv, DoomInv
<1> QED BY <1>3, <1>4, <1>5, <1>6, <1>7, <1>8

----------------------------------------------------------------------------
(* The invariant holds                                                     *)

LEMMA VersionsStart ==
  InitSnapshots => SnapshotInv
<1> SUFFICES ASSUME InitSnapshots PROVE SnapshotInv
  OBVIOUS
<1>1. SnapshotTypeOK
  BY TypesAtTheStart
<1>2. NoTornLoad
  BY Zenon DEF InitSnapshots, NoTornLoad
<1>3. LeaksAreFaults
  <2>1. Lost = {}
    BY DEF InitSnapshots, Lost, Forgotten
  <2>2. InFlight = {}
    BY DEF InitSnapshots, InFlight
  <2>3. Cardinality(Lost) = 0 /\ Cardinality(InFlight) = 0 /\ faults = 0
    BY <2>1, <2>2, FS_EmptySet DEF InitSnapshots
  <2> QED BY <2>3 DEF LeaksAreFaults
<1>4. ProjectorInv
  BY DEF InitSnapshots, ProjectorInv, Holding, Projecting
<1>5. WriteInv
  BY DEF InitSnapshots, WriteInv
<1>6. ActiveInv
  BY DEF InitSnapshots, ActiveInv, ActiveComplete
<1>7. LoadInv
  BY DEF InitSnapshots, LoadInv
<1>8. DoomInv
  BY DEF InitSnapshots, DoomInv
<1> QED BY <1>1, <1>2, <1>3, <1>4, <1>5, <1>6, <1>7, <1>8 DEF SnapshotInv

LEMMA VersionsStay ==
  SnapshotInv /\ [NextSnapshots]_snapshotVars => SnapshotInv'
<1> SUFFICES ASSUME SnapshotInv, [NextSnapshots]_snapshotVars PROVE SnapshotInv'
  OBVIOUS
<1> DEFINE Rest == /\ NoTornLoad' /\ ProjectorInv' /\ WriteInv' /\ ActiveInv' /\ LoadInv' /\ DoomInv'
<1>1. SnapshotTypeOK'
  BY TypesHold DEF SnapshotInv
<1>2. LeaksAreFaults'
  BY LeaksHold
<1>3. Rest
  <2>1. CASE UNCHANGED snapshotVars
    <3>1. /\ UNCHANGED <<clock, versions, active, stored, remembered, score>>
          /\ UNCHANGED <<lock, pc, began, version, written, doomed, victims>>
          /\ UNCHANGED <<loading, since, torn>>
      BY <2>1 DEF snapshotVars, versionVars, workVars, readVars
    <3>2. \A u \in ServiceWorker : Projecting(u)' <=> Projecting(u)
      BY <3>1 DEF Projecting
    <3>3. NoTornLoad'
      BY <3>1, Zenon DEF SnapshotInv, NoTornLoad
    <3>4. ProjectorInv'
      BY <3>1, <3>2 DEF SnapshotInv, ProjectorInv
    <3>5. WriteInv' /\ ActiveInv'
      BY <3>1 DEF SnapshotInv, WriteInv, ActiveInv, ActiveComplete
    <3>6. LoadInv' /\ DoomInv'
      BY <3>1, <3>2 DEF SnapshotInv, LoadInv, DoomInv
    <3> QED BY <3>3, <3>4, <3>5, <3>6
  <2>2. CASE Elapse
    BY <2>2, ElapseKeepsAll
  <2>3. ASSUME NEW w \in ServiceWorker,
               \/ Begin(w) \/ CleanNow(w) \/ Clean(w)
               \/ Same(w) \/ CleanNothing(w) \/ Done(w) \/ CommandFails(w)
        PROVE  Rest
    BY <2>3, CalmSteps, CalmKeepsAll
  <2>4. ASSUME NEW w \in ServiceWorker, Create(w) PROVE Rest
    BY <2>4, CreateKeepsAll
  <2>5. ASSUME NEW w \in ServiceWorker, Register(w) PROVE Rest
    BY <2>5, RegisterKeepsAll
  <2>6. ASSUME NEW w \in ServiceWorker, WriteKeys(w) PROVE Rest
    BY <2>6, WriteKeepsAll
  <2>7. ASSUME NEW w \in ServiceWorker, Retire(w) PROVE Rest
    BY <2>7, RetireKeepsAll
  <2>8. ASSUME NEW w \in ServiceWorker, Switch(w) PROVE Rest
    BY <2>8, SwitchKeepsAll
  <2>9. ASSUME NEW w \in ServiceWorker, Expire(w) PROVE Rest
    BY <2>9, ExpireKeepsAll
  <2>10. ASSUME NEW w \in ServiceWorker, NEW v \in doomed[w], Erase(w, v) PROVE Rest
    BY <2>10, EraseKeepsAll
  <2>11. ASSUME NEW w \in ServiceWorker, Unlink(w) PROVE Rest
    BY <2>11, UnlinkKeepsAll
  <2>12. ASSUME NEW w \in ServiceWorker, Remove(w) PROVE Rest
    BY <2>12, RemoveKeepsAll
  <2>13. ASSUME NEW c \in Loader, Capture(c) PROVE Rest
    BY <2>13, CaptureKeepsAll
  <2>14. ASSUME NEW c \in Loader, Load(c) PROVE Rest
    BY <2>14, LoadKeepsAll
  <2> HIDE DEF Rest
  <2> QED
    BY <2>1, <2>2, <2>3, <2>4, <2>5, <2>6, <2>7, <2>8, <2>9, <2>10, <2>11,
       <2>12, <2>13, <2>14
    DEF NextSnapshots
<1> QED BY <1>1, <1>2, <1>3 DEF SnapshotInv

\* The pointer names a version that is whole, no collector applies one of which a
\* part is missing, and a key that no cleanup will find has been left by a
\* failure in the middle of a pipeline: for any numbers of workers, collectors,
\* keys and versions, and for every grace period that is longer than a
\* projection and a load take together.
THEOREM VersionsAreSafe == SpecSnapshots => []SnapshotSafety
<1>1. InitSnapshots => SnapshotInv
  BY VersionsStart
<1>2. SnapshotInv /\ [NextSnapshots]_snapshotVars => SnapshotInv'
  BY VersionsStay
<1>3. SnapshotInv => SnapshotSafety
  BY DEF SnapshotInv, SnapshotSafety, ActiveInv
<1> QED BY <1>1, <1>2, <1>3, PTL DEF SpecSnapshots

----------------------------------------------------------------------------
(* Channels, for every set of devices, channels, endpoints, models and     *)
(* requests                                                                *)

DeviceOps == {"create", "update", "remove"}
LinkOps == {"link", "toggle", "drop"}
DeviceStages == {"nodes", "endpoint", "configure", "validate", "write",
                 "retire", "disable"}
Stages == DeviceStages \cup {"idle", "row", "commit"}

OnDevice(t) == txn[t].op \in DeviceOps
Rows(t) == DOMAIN txn[t].rows
Wrote(t) == txn[t].row # NoRow

\* The endpoints whose nodes a request locks.
Ends(t) ==
  Endpoint \cap ({txn[t].prior} \cup
    (IF ConfiguresEndpoint(t) THEN {txn[t].link} ELSE {}))

\* A device that has asked for the endpoint l.
Served(d, l) == Live(d) /\ device[d].link = l /\ device[d].settings # Unset
NoneElse(t, l) == \A d \in Device : d # txn[t].dev => ~Served(d, l)

DeviceInv ==
  \A d \in Device :
    /\ device[d].state = "absent" => device[d] = NoRow
    /\ device[d].state # "absent" => device[d].link \in Link
    /\ device[d].settings # Unset => device[d].link \in Endpoint

\* No two transactions have locks that exclude each other.
LocksExclude ==
  \A t, u \in Txn : t # u =>
    \A x \in held[t], y \in held[u] : ~Conflict(x, y)

\* What a request is about.
RequestInv(t) ==
  /\ txn[t].op = "idle" => txn[t] = Idle /\ held[t] = {}
  /\ OnDevice(t) => txn[t].dev \in Device
  /\ txn[t].op = "create" => txn[t].link \in Link
  /\ txn[t].op \in {"update", "remove"} => txn[t].prior \in Link
  /\ ~OnDevice(t) =>
       txn[t].row = NoRow /\ txn[t].dev = Unset /\ txn[t].protocol = Unset
  /\ txn[t].op \in LinkOps => txn[t].link \in Collector
  /\ ConfiguresEndpoint(t) =>
       /\ txn[t].link \in Endpoint /\ txn[t].settings \in Settings
       /\ txn[t].op \in {"create", "update"}

\* How far it is.
StageInv(t) ==
  /\ txn[t].stage = "idle" => txn[t].op = "idle"
  /\ txn[t].stage \in DeviceStages => OnDevice(t)
  /\ OnDevice(t) => txn[t].stage \in DeviceStages \cup {"commit"}
  /\ txn[t].stage = "row" => txn[t].op \in {"toggle", "drop"}
  /\ txn[t].stage \in {"endpoint", "configure"} => ConfiguresEndpoint(t)
  /\ txn[t].stage \in {"retire", "disable"} =>
       txn[t].op \in {"update", "remove"} /\ txn[t].prior \in Endpoint
  /\ OnDevice(t) => (Wrote(t) <=> txn[t].stage \in {"retire", "disable", "commit"})

\* The rows of channels it has written, each under its lock.
RowsInv(t) ==
  /\ OnDevice(t) => Rows(t) \subseteq Ends(t)
  /\ txn[t].op \in LinkOps => Rows(t) \subseteq {txn[t].link}
  /\ txn[t].op \in {"idle", "model"} => Rows(t) = {}
  /\ txn[t].stage \in {"nodes", "endpoint", "configure", "row"} => Rows(t) = {}
  /\ txn[t].stage \in {"validate", "write"} =>
       \A l \in Rows(t) : ConfiguresEndpoint(t) /\ l = txn[t].link
  /\ \A l \in Rows(t) :
       <<"link", l>> \in held[t] /\ txn[t].rows[l].state # "absent"

\* The row of a device it has written.
WroteInv(t) ==
  Wrote(t) =>
    /\ <<"device", txn[t].dev>> \in held[t]
    /\ <<"share", txn[t].row.link>> \in held[t]
    /\ txn[t].row.link \in Link /\ txn[t].row.state # "absent"
    /\ txn[t].row.settings # Unset => txn[t].row.link \in Endpoint

\* The channels it has locked or read are there, but for the one it creates.
ChannelInv(t) ==
  /\ \A l \in Collector :
       <<"link", l>> \in held[t] \/ <<"share", l>> \in held[t] =>
         link[l].state # "absent" \/ (txn[t].op = "link" /\ txn[t].link = l)
  /\ txn[t].op \in {"toggle", "drop"} => link[txn[t].link].state # "absent"
  /\ txn[t].op \in {"update", "remove"} => link[txn[t].prior].state # "absent"

\* It takes the locks of its nodes in their order, and then has them.
NodeInv(t) ==
  /\ At(t, "nodes") =>
       \A n \in Node, k \in NodesToLock(t) : <<"node", n>> \in held[t] => n < k
  /\ OnDevice(t) /\ ~At(t, "nodes") => NodesToLock(t) = {}

\* A new device is its own.
OwnerInv(t) ==
  /\ txn[t].op \in {"update", "remove"} => device[txn[t].dev].state # "absent"
  /\ txn[t].op = "create" =>
       /\ device[txn[t].dev] = NoRow
       /\ \A u \in Txn : u # t => txn[u].dev # txn[t].dev

\* A channel to which devices are bound keeps its identity.
GuardInv(t) ==
  \A l \in Rows(t) :
    \/ Attached(l) = {}
    \/ /\ txn[t].rows[l].protocol = link[l].protocol
       /\ txn[t].rows[l].state = link[l].state

\* What it is about to bind fits together.
BoundInv(t) ==
  txn[t].row.state = "live" =>
    /\ Row(t, txn[t].row.link).state = "live"
    /\ Row(t, txn[t].row.link).protocol = ProtocolOf[txn[t].row.model]

\* The endpoint it configures is as its form asks until its device is written.
FormInv(t) ==
  /\ At(t, "configure") =>
       \/ link[txn[t].link].settings = txn[t].settings
       \/ NoneElse(t, txn[t].link)
  /\ txn[t].stage \in {"validate", "write"} /\ ConfiguresEndpoint(t) =>
       /\ Row(t, txn[t].link).enabled
       /\ Row(t, txn[t].link).settings = txn[t].settings

\* Its device is served, by what its form asks or as before.
ServedInv(t) ==
  txn[t].row.state = "live" /\ txn[t].row.settings # Unset =>
    /\ Row(t, txn[t].row.link).enabled
    /\ Row(t, txn[t].row.link).settings = txn[t].row.settings
    /\ \/ ConfiguresEndpoint(t) /\ txn[t].row.link = txn[t].link
       \/ Served(txn[t].dev, txn[t].row.link)

\* What it leaves behind is unused, what it writes serves the other devices.
LeftInv(t) ==
  /\ At(t, "disable") =>
       /\ NoneElse(t, txn[t].prior)
       /\ ~(txn[t].row.state = "live" /\ txn[t].row.link = txn[t].prior)
  /\ \A l \in Rows(t) : \A d \in Device : d # txn[t].dev /\ Served(d, l) =>
       /\ txn[t].rows[l].enabled
       /\ txn[t].rows[l].settings = device[d].settings

TxnInv(t) ==
  /\ RequestInv(t) /\ StageInv(t) /\ RowsInv(t) /\ WroteInv(t)
  /\ ChannelInv(t) /\ NodeInv(t) /\ OwnerInv(t) /\ GuardInv(t)
  /\ BoundInv(t) /\ FormInv(t) /\ ServedInv(t) /\ LeftInv(t)

CatalogInv ==
  /\ CatalogTypeOK /\ ChannelsMatch /\ EndpointServes
  /\ DeviceInv /\ LocksExclude /\ \A t \in Txn : TxnInv(t)

LEMMA CatalogNames ==
  /\ Collector \subseteq Link /\ Endpoint \subseteq Link
  /\ Unset \notin Link /\ Unset \notin Device /\ Unset \notin Protocol
  /\ Unset \notin Settings /\ Unset \notin Endpoint /\ Unset \notin Collector
  /\ \A l \in Endpoint : l \notin Collector /\ NodeOf[l] \in Node
  /\ Node \subseteq Nat
<1>1. /\ Collector \subseteq Link /\ Endpoint \subseteq Link
      /\ Unset \notin Link /\ Unset \notin Device /\ Unset \notin Protocol
      /\ Unset \notin Settings
      /\ \A l \in Endpoint : l \notin Collector
  BY CatalogConstants DEF Link
<1>2. \A l \in Endpoint : NodeOf[l] \in Node
  BY DEF Node
<1>3. Node \subseteq Nat
  BY CatalogConstants DEF Node
<1> QED BY <1>1, <1>2, <1>3

\* What two locks exclude.
LEMMA ConflictIsMutual ==
  ASSUME NEW x, NEW y
  PROVE  Conflict(x, y) <=> Conflict(y, x)
<1>1. {x[1], y[1]} = {y[1], x[1]}
  OBVIOUS
<1> QED BY <1>1, Zenon DEF Conflict

LEMMA ConflictsAre ==
  ASSUME NEW z
  PROVE  /\ Conflict(<<"link", z>>, <<"link", z>>)
         /\ Conflict(<<"link", z>>, <<"share", z>>)
         /\ Conflict(<<"device", z>>, <<"device", z>>)
         /\ Conflict(<<"node", z>>, <<"node", z>>)
<1>1. \A s : <<s, z>>[1] = s /\ <<s, z>>[2] = z
  OBVIOUS
<1> QED BY <1>1, Zenon DEF Conflict

LEMMA LocksAreOwn ==
  ASSUME LocksExclude, NEW t \in Txn, NEW u \in Txn, t # u, NEW z
  PROVE  /\ <<"link", z>> \in held[t] =>
              <<"link", z>> \notin held[u] /\ <<"share", z>> \notin held[u]
         /\ <<"share", z>> \in held[t] => <<"link", z>> \notin held[u]
         /\ <<"device", z>> \in held[t] => <<"device", z>> \notin held[u]
         /\ <<"node", z>> \in held[t] => <<"node", z>> \notin held[u]
<1>1. \A x \in held[t], y \in held[u] : ~Conflict(x, y) /\ ~Conflict(y, x)
  BY Zenon DEF LocksExclude
<1> QED BY <1>1, ConflictsAre, Zenon

LEMMA TxnTypes ==
  ASSUME CatalogTypeOK, NEW t \in Txn
  PROVE  /\ t \in DOMAIN txn /\ txn[t] \in TxnRow
         /\ txn[t].op \in DeviceOps \cup LinkOps \cup {"idle", "model"}
         /\ txn[t].dev \in Device \cup {Unset}
         /\ txn[t].link \in Link \cup {Unset}
         /\ txn[t].model \in Model \cup {Unset}
         /\ txn[t].protocol \in Protocol \cup {Unset}
         /\ txn[t].settings \in Settings \cup {Unset}
         /\ txn[t].prior \in Link \cup {Unset}
         /\ txn[t].priorModel \in Model \cup {Unset}
         /\ txn[t].stage \in Stages /\ txn[t].row \in DeviceRow
         /\ Rows(t) \subseteq Link
         /\ txn[t].rows \in [Rows(t) -> LinkRow]
<1>1. t \in DOMAIN txn /\ txn[t] \in TxnRow
  BY DEF CatalogTypeOK
<1>2. PICK S \in SUBSET Link : txn[t].rows \in [S -> LinkRow]
  BY <1>1 DEF TxnRow
<1>3. Rows(t) = S
  BY <1>2 DEF Rows
<1>4. /\ txn[t].op \in DeviceOps \cup LinkOps \cup {"idle", "model"}
      /\ txn[t].dev \in Device \cup {Unset}
      /\ txn[t].link \in Link \cup {Unset}
      /\ txn[t].model \in Model \cup {Unset}
      /\ txn[t].protocol \in Protocol \cup {Unset}
      /\ txn[t].settings \in Settings \cup {Unset}
      /\ txn[t].prior \in Link \cup {Unset}
      /\ txn[t].priorModel \in Model \cup {Unset}
      /\ txn[t].stage \in Stages /\ txn[t].row \in DeviceRow
  BY <1>1 DEF TxnRow, DeviceOps, LinkOps, Stages, DeviceStages
<1> QED BY <1>1, <1>2, <1>3, <1>4

LEMMA RowIsTyped ==
  ASSUME CatalogTypeOK, NEW t \in Txn, NEW l \in Link
  PROVE  /\ link[l] \in LinkRow /\ Row(t, l) \in LinkRow
         /\ l \notin Rows(t) => Row(t, l) = link[l]
         /\ l \in Rows(t) => Row(t, l) = txn[t].rows[l]
<1>1. link[l] \in LinkRow
  BY DEF CatalogTypeOK
<1>2. l \in Rows(t) => txn[t].rows[l] \in LinkRow
  BY TxnTypes
<1> QED BY <1>1, <1>2, Zenon DEF Row, Rows

----------------------------------------------------------------------------
(* The shapes of steps.                                                     *)

\* Everything but the transaction of t stays.
Alone(t) ==
  /\ UNCHANGED <<link, model, device, requests>>
  /\ DOMAIN txn' = Txn
  /\ \A u \in Txn : u # t => txn'[u] = txn[u] /\ held'[u] = held[u]

\* The request stays what it was about.
SameRequest(t) ==
  /\ txn'[t].op = txn[t].op /\ txn'[t].dev = txn[t].dev
  /\ txn'[t].link = txn[t].link /\ txn'[t].model = txn[t].model
  /\ txn'[t].protocol = txn[t].protocol
  /\ txn'[t].settings = txn[t].settings
  /\ txn'[t].prior = txn[t].prior /\ txn'[t].priorModel = txn[t].priorModel

LEMMA SetTxn ==
  ASSUME CatalogTypeOK, NEW t \in Txn, NEW r, txn' = [txn EXCEPT ![t] = r]
  PROVE  /\ txn'[t] = r /\ DOMAIN txn' = Txn
         /\ \A u \in Txn : u # t => txn'[u] = txn[u]
<1>1. DOMAIN txn = Txn
  BY DEF CatalogTypeOK
<1> QED BY <1>1

LEMMA SetHeld ==
  ASSUME CatalogTypeOK, NEW t \in Txn, NEW h, held' = [held EXCEPT ![t] = h]
  PROVE  /\ held'[t] = h
         /\ \A u \in Txn : u # t => held'[u] = held[u]
         /\ h \subseteq Lock => held' \in [Txn -> SUBSET Lock]
<1>1. held \in [Txn -> SUBSET Lock]
  BY DEF CatalogTypeOK
<1> QED BY <1>1

\* A lock is taken when no other transaction has one that excludes it.
LEMMA TakeIs ==
  ASSUME CatalogTypeOK, LocksExclude, NEW t \in Txn, NEW S \in SUBSET Lock,
         Take(t, S)
  PROVE  /\ held'[t] = held[t] \cup S /\ held' \in [Txn -> SUBSET Lock]
         /\ \A u \in Txn : u # t => held'[u] = held[u]
         /\ LocksExclude'
<1>1. held[t] \subseteq Lock
  BY DEF CatalogTypeOK
<1>2. held' = [held EXCEPT ![t] = held[t] \cup S]
  BY DEF Take
<1>3. /\ held'[t] = held[t] \cup S /\ held' \in [Txn -> SUBSET Lock]
      /\ \A u \in Txn : u # t => held'[u] = held[u]
  BY <1>1, <1>2, SetHeld
<1>4. ASSUME NEW v \in Txn, NEW u \in Txn, v # u,
             NEW x \in held'[v], NEW y \in held'[u]
      PROVE  ~Conflict(x, y)
  <2>1. \A a \in S : \A w \in Txn : w # t => \A b \in held[w] : ~Conflict(a, b)
    BY Zenon DEF Take, Free
  <2>2. CASE v # t /\ u # t
    BY <1>3, <1>4, <2>2, Zenon DEF LocksExclude
  <2>3. CASE v = t
    <3>1. y \in held[u] /\ u # t /\ (x \in held[t] \/ x \in S)
      BY <1>3, <1>4, <2>3
    <3> QED BY <2>1, <2>3, <3>1, Zenon DEF LocksExclude
  <2>4. CASE u = t
    <3>1. x \in held[v] /\ v # t /\ (y \in held[t] \/ y \in S)
      BY <1>3, <1>4, <2>4
    <3>2. ~Conflict(y, x)
      BY <2>1, <2>4, <3>1, Zenon DEF LocksExclude
    <3> QED BY <3>2, ConflictIsMutual, Zenon
  <2> QED BY <2>2, <2>3, <2>4
<1>5. LocksExclude'
  BY <1>4, Zenon DEF LocksExclude
<1> QED BY <1>3, <1>5

\* A step to another stage.
LEMMA GotoIs ==
  ASSUME CatalogTypeOK, NEW t \in Txn, NEW s \in Stages, Goto(t, s)
  PROVE  /\ txn'[t] \in TxnRow /\ txn'[t].stage = s /\ SameRequest(t)
         /\ txn'[t].rows = txn[t].rows /\ txn'[t].row = txn[t].row
         /\ DOMAIN txn' = Txn
         /\ \A u \in Txn : u # t => txn'[u] = txn[u]
<1>1. txn[t] \in TxnRow
  BY DEF CatalogTypeOK
<1>2. txn' = [txn EXCEPT ![t] = [txn[t] EXCEPT !.stage = s]]
  BY DEF Goto
<1>3. txn'[t] = [txn[t] EXCEPT !.stage = s]
  BY <1>2, SetTxn
<1>4. txn'[t] \in TxnRow
  BY <1>1, <1>3 DEF TxnRow, Stages, DeviceStages
<1>5. /\ txn'[t].stage = s /\ SameRequest(t)
      /\ txn'[t].rows = txn[t].rows /\ txn'[t].row = txn[t].row
  BY <1>1, <1>3 DEF TxnRow, SameRequest
<1> QED BY <1>2, <1>4, <1>5, SetTxn

\* A step that writes a channel's row.
Writes(t, l, r, s) ==
  txn' = [txn EXCEPT ![t] = [Write(t, l, r) EXCEPT !.stage = s]]

RowWritten(t, l, r, s) ==
  /\ txn'[t] \in TxnRow /\ txn'[t].stage = s /\ SameRequest(t)
  /\ Rows(t)' = Rows(t) \cup {l} /\ txn'[t].rows[l] = r
  /\ \A k \in Rows(t) : k # l => txn'[t].rows[k] = txn[t].rows[k]
  /\ txn'[t].row = txn[t].row
  /\ DOMAIN txn' = Txn
  /\ \A u \in Txn : u # t => txn'[u] = txn[u]

LEMMA WriteIs ==
  ASSUME CatalogTypeOK, NEW t \in Txn, NEW l \in Link, NEW r \in LinkRow,
         NEW s \in Stages, Writes(t, l, r, s)
  PROVE  RowWritten(t, l, r, s)
<1> DEFINE m == [k \in Rows(t) \cup {l} |-> IF k = l THEN r ELSE txn[t].rows[k]]
<1>1. /\ txn[t] \in TxnRow /\ Rows(t) \subseteq Link
      /\ txn[t].rows \in [Rows(t) -> LinkRow]
  BY TxnTypes
<1>2. Write(t, l, r) = [txn[t] EXCEPT !.rows = m]
  BY <1>1 DEF Write, Rows, TxnRow
<1>3. /\ txn'[t] = [[txn[t] EXCEPT !.rows = m] EXCEPT !.stage = s]
      /\ DOMAIN txn' = Txn /\ \A u \in Txn : u # t => txn'[u] = txn[u]
  BY <1>2, SetTxn DEF Writes
<1>4. m \in [Rows(t) \cup {l} -> LinkRow] /\ Rows(t) \cup {l} \in SUBSET Link
  BY <1>1
<1>5. m \in UNION {[S -> LinkRow] : S \in SUBSET Link}
  BY <1>4
<1> HIDE DEF m
<1>6. PICK v : v = [txn[t] EXCEPT !.rows = m]
  OBVIOUS
<1>7. /\ v \in TxnRow /\ v.rows = m /\ v.row = txn[t].row
      /\ v.op = txn[t].op /\ v.dev = txn[t].dev /\ v.link = txn[t].link
      /\ v.model = txn[t].model /\ v.protocol = txn[t].protocol
      /\ v.settings = txn[t].settings /\ v.prior = txn[t].prior
      /\ v.priorModel = txn[t].priorModel
  BY <1>1, <1>5, <1>6 DEF TxnRow
<1>8. txn'[t] = [v EXCEPT !.stage = s]
  BY <1>3, <1>6
<1>9. /\ txn'[t] \in TxnRow /\ txn'[t].stage = s
      /\ SameRequest(t) /\ txn'[t].row = txn[t].row /\ txn'[t].rows = m
  BY <1>7, <1>8 DEF TxnRow, SameRequest, Stages, DeviceStages
<1>10. /\ Rows(t)' = Rows(t) \cup {l} /\ txn'[t].rows[l] = r
       /\ \A k \in Rows(t) : k # l => txn'[t].rows[k] = txn[t].rows[k]
  BY <1>9 DEF Rows, m
<1> QED BY <1>3, <1>9, <1>10 DEF RowWritten

----------------------------------------------------------------------------
(* What a step leaves alone.                                                *)

LEMMA SameMeans ==
  ASSUME NEW t, SameRequest(t)
  PROVE  /\ OnDevice(t)' = OnDevice(t)
         /\ ConfiguresEndpoint(t)' = ConfiguresEndpoint(t)
         /\ NodesOf(t)' = NodesOf(t) /\ Ends(t)' = Ends(t)
  BY Zenon DEF SameRequest, OnDevice, ConfiguresEndpoint, NodesOf, Ends

LEMMA WorldMeans ==
  ASSUME device' = device
  PROVE  /\ \A d : Live(d)' = Live(d)
         /\ \A l : Attached(l)' = Attached(l)
         /\ \A d, l : Served(d, l)' = Served(d, l)
  BY Zenon DEF Live, Attached, Served

LEMMA RowStays ==
  ASSUME link' = link, NEW t, txn'[t].rows = txn[t].rows
  PROVE  Rows(t)' = Rows(t) /\ \A l : Row(t, l)' = Row(t, l)
  BY Zenon DEF Rows, Row

\* A request that takes no part in a step.
LEMMA BystanderStays ==
  ASSUME NEW u \in Txn, txn'[u] = txn[u], held'[u] = held[u],
         link' = link, device' = device, TxnInv(u), OwnerInv(u)'
  PROVE  TxnInv(u)'
<1>1. SameRequest(u) /\ txn'[u].rows = txn[u].rows
  BY Zenon DEF SameRequest
<1>2. /\ OnDevice(u)' = OnDevice(u) /\ Wrote(u)' = Wrote(u)
      /\ ConfiguresEndpoint(u)' = ConfiguresEndpoint(u)
      /\ NodesOf(u)' = NodesOf(u) /\ Ends(u)' = Ends(u)
      /\ Rows(u)' = Rows(u) /\ \A l : Row(u, l)' = Row(u, l)
  BY <1>1, SameMeans, RowStays, Zenon DEF Wrote
<1>3. /\ \A l : Attached(l)' = Attached(l)
      /\ \A d, l : Served(d, l)' = Served(d, l)
  BY WorldMeans, Zenon
<1>4. RequestInv(u)'
  BY <1>2, Zenon DEF TxnInv, RequestInv
<1>5. StageInv(u)'
  BY <1>2, Zenon DEF TxnInv, StageInv
<1>6. RowsInv(u)'
  BY <1>2, Zenon DEF TxnInv, RowsInv
<1>7. WroteInv(u)'
  BY <1>2, Zenon DEF TxnInv, WroteInv
<1>8. ChannelInv(u)'
  BY Zenon DEF TxnInv, ChannelInv
<1>9. NodeInv(u)'
  BY <1>2, Zenon DEF TxnInv, NodeInv, At, NodesToLock
<1>10. GuardInv(u)'
  BY <1>2, <1>3, Zenon DEF TxnInv, GuardInv
<1>11. BoundInv(u)'
  BY <1>2, Zenon DEF TxnInv, BoundInv
<1>12. FormInv(u)'
  <2>1. \A l : NoneElse(u, l)' = NoneElse(u, l)
    BY <1>3, Zenon DEF NoneElse
  <2>2. Row(u, txn[u].link)' = Row(u, txn[u].link)
    BY <1>2, Zenon
  <2> QED BY <1>2, <2>1, <2>2, Zenon DEF TxnInv, FormInv, At
<1>13. ServedInv(u)'
  BY <1>2, <1>3, Zenon DEF TxnInv, ServedInv
<1>14. LeftInv(u)'
  BY <1>2, <1>3, Zenon DEF TxnInv, LeftInv, At, NoneElse
<1> QED BY <1>4, <1>5, <1>6, <1>7, <1>8, <1>9, <1>10, <1>11, <1>12, <1>13,
           <1>14 DEF TxnInv

\* A new device is its own as long as no other request takes it up.
LEMMA OwnersStay ==
  ASSUME NEW t \in Txn, NEW u \in Txn, t # u, OwnerInv(u), device' = device,
         \A v \in Txn : v # t => txn'[v] = txn[v],
         \/ txn'[t].dev = txn[t].dev
         \/ txn[u].op = "create" => txn'[t].dev # txn[u].dev
  PROVE  OwnerInv(u)'
<1>1. txn'[u] = txn[u]
  BY Zenon
<1>2. txn[u].op = "create" => \A v \in Txn : v # u => txn'[v].dev # txn[u].dev
  <2> SUFFICES ASSUME txn[u].op = "create", NEW v \in Txn, v # u
               PROVE  txn'[v].dev # txn[u].dev
    BY Zenon
  <2>1. txn[v].dev # txn[u].dev /\ txn[t].dev # txn[u].dev
    BY Zenon DEF OwnerInv
  <2> QED BY <2>1, Zenon
<1> QED BY <1>1, <1>2, Zenon DEF OwnerInv

\* A step that changes nothing of what t is about, nor of what it has written.
LEMMA MinorStep ==
  ASSUME NEW t \in Txn, SameRequest(t), txn'[t].rows = txn[t].rows,
         txn'[t].row = txn[t].row, link' = link, device' = device,
         \A u \in Txn : u # t => txn'[u] = txn[u], TxnInv(t)
  PROVE  GuardInv(t)' /\ BoundInv(t)' /\ ServedInv(t)' /\ OwnerInv(t)'
<1>2. /\ ConfiguresEndpoint(t)' = ConfiguresEndpoint(t)
      /\ Rows(t)' = Rows(t) /\ \A l : Row(t, l)' = Row(t, l)
  BY SameMeans, RowStays, Zenon
<1>3. /\ \A l : Attached(l)' = Attached(l)
      /\ \A d, l : Served(d, l)' = Served(d, l)
  BY WorldMeans, Zenon
<1>4. GuardInv(t)'
  BY <1>2, <1>3, Zenon DEF TxnInv, GuardInv
<1>5. BoundInv(t)'
  BY <1>2, Zenon DEF TxnInv, BoundInv
<1>6. ServedInv(t)'
  BY <1>2, <1>3, Zenon DEF TxnInv, ServedInv, SameRequest
<1>7. OwnerInv(t)'
  BY Zenon DEF TxnInv, OwnerInv, SameRequest
<1> QED BY <1>4, <1>5, <1>6, <1>7

\* When a step of t leaves the catalogue alone, everything follows from what
\* holds of t.
LEMMA OneOnly ==
  ASSUME CatalogInv, NEW t \in Txn, link' = link, device' = device,
         \A u \in Txn : u # t => txn'[u] = txn[u] /\ held'[u] = held[u],
         CatalogTypeOK', LocksExclude', TxnInv(t)',
         \/ txn'[t].dev = txn[t].dev
         \/ \A u \in Txn : u # t /\ txn[u].op = "create" =>
              txn'[t].dev # txn[u].dev
  PROVE  CatalogInv'
<1>2. ChannelsMatch' /\ EndpointServes' /\ DeviceInv'
  BY Zenon DEF CatalogInv, ChannelsMatch, EndpointServes, DeviceInv, Live
<1>3. ASSUME NEW u \in Txn PROVE TxnInv(u)'
  <2>1. CASE u = t
    BY <2>1
  <2>2. CASE u # t
    <3>1. TxnInv(u) /\ OwnerInv(u)
      BY Zenon DEF CatalogInv, TxnInv
    <3>2. OwnerInv(u)'
      BY <2>2, <3>1, OwnersStay, Zenon
    <3> QED BY <2>2, <3>1, <3>2, BystanderStays, Zenon
  <2> QED BY <2>1, <2>2
<1> QED BY <1>2, <1>3, Zenon DEF CatalogInv

LEMMA OneMoves ==
  ASSUME CatalogInv, NEW t \in Txn, Alone(t), CatalogTypeOK', LocksExclude',
         TxnInv(t)',
         \/ txn'[t].dev = txn[t].dev
         \/ \A u \in Txn : u # t /\ txn[u].op = "create" =>
              txn'[t].dev # txn[u].dev
  PROVE  CatalogInv'
<1>1. /\ link' = link /\ device' = device
      /\ \A u \in Txn : u # t => txn'[u] = txn[u] /\ held'[u] = held[u]
  BY Zenon DEF Alone
<1> QED BY <1>1, OneOnly, Zenon

----------------------------------------------------------------------------
(* The steps of a request that concerns a device.                           *)

LEMMA InvOf ==
  ASSUME CatalogInv, NEW t \in Txn
  PROVE  /\ CatalogTypeOK /\ ChannelsMatch /\ EndpointServes /\ DeviceInv
         /\ LocksExclude /\ TxnInv(t)
         /\ RequestInv(t) /\ StageInv(t) /\ RowsInv(t) /\ WroteInv(t)
         /\ ChannelInv(t) /\ NodeInv(t) /\ OwnerInv(t) /\ GuardInv(t)
         /\ BoundInv(t) /\ FormInv(t) /\ ServedInv(t) /\ LeftInv(t)
  BY Zenon DEF CatalogInv, TxnInv

LEMMA TypeStays ==
  ASSUME CatalogTypeOK, NEW t \in Txn, Alone(t), txn'[t] \in TxnRow,
         held' \in [Txn -> SUBSET Lock]
  PROVE  CatalogTypeOK'
<1>1. /\ link' \in [Link -> LinkRow] /\ model' \in SUBSET Model
      /\ device' \in [Device -> DeviceRow] /\ requests' \in 0..MaxRequests
  BY Zenon DEF CatalogTypeOK, Alone
<1>2. DOMAIN txn' = Txn /\ \A u \in Txn : txn'[u] \in TxnRow
  BY Zenon DEF CatalogTypeOK, Alone
<1> QED BY <1>1, <1>2, Zenon DEF CatalogTypeOK

\* What a stage of a request can rely on.
Ready(t, s) ==
  /\ s \in {"endpoint", "configure"} => ConfiguresEndpoint(t) /\ Rows(t) = {}
  /\ s \in {"retire", "disable"} =>
       txn[t].op \in {"update", "remove"} /\ txn[t].prior \in Endpoint
  /\ Wrote(t) <=> s \in {"retire", "disable", "commit"}
  /\ s \in {"validate", "write"} =>
       /\ \A l \in Rows(t) : ConfiguresEndpoint(t) /\ l = txn[t].link
       /\ ConfiguresEndpoint(t) =>
            /\ Row(t, txn[t].link).enabled
            /\ Row(t, txn[t].link).settings = txn[t].settings
  /\ s = "configure" =>
       \/ link[txn[t].link].settings = txn[t].settings
       \/ NoneElse(t, txn[t].link)
  /\ s = "disable" =>
       /\ NoneElse(t, txn[t].prior)
       /\ ~(txn[t].row.state = "live" /\ txn[t].row.link = txn[t].prior)

LEMMA GoOn ==
  ASSUME CatalogInv, NEW t \in Txn, OnDevice(t), NodesToLock(t) = {},
         NEW s \in (DeviceStages \ {"nodes"}) \cup {"commit"},
         Goto(t, s), UNCHANGED held, Committed, Ready(t, s)
  PROVE  CatalogInv'
<1>1. /\ CatalogTypeOK /\ LocksExclude /\ TxnInv(t)
      /\ RequestInv(t) /\ StageInv(t) /\ RowsInv(t) /\ WroteInv(t)
      /\ ChannelInv(t) /\ LeftInv(t)
  BY InvOf, Zenon
<1>2. s \in Stages /\ s # "nodes" /\ s # "idle" /\ s # "row"
  BY DEF Stages, DeviceStages
<1>3. /\ txn'[t] \in TxnRow /\ txn'[t].stage = s /\ SameRequest(t)
      /\ txn'[t].rows = txn[t].rows /\ txn'[t].row = txn[t].row
      /\ DOMAIN txn' = Txn
      /\ \A u \in Txn : u # t => txn'[u] = txn[u]
  BY <1>1, <1>2, GotoIs, Zenon
<1>4. Alone(t) /\ link' = link /\ device' = device
  BY <1>3, Zenon DEF Alone, Committed
<1>5. /\ CatalogTypeOK' /\ LocksExclude'
  <2>1. held' \in [Txn -> SUBSET Lock]
    BY <1>1, Zenon DEF CatalogTypeOK
  <2> QED BY <1>1, <1>3, <1>4, <2>1, TypeStays, Zenon DEF LocksExclude
<1>6. /\ OnDevice(t)' /\ Wrote(t)' = Wrote(t)
      /\ ConfiguresEndpoint(t)' = ConfiguresEndpoint(t)
      /\ NodesOf(t)' = NodesOf(t) /\ Ends(t)' = Ends(t)
      /\ Rows(t)' = Rows(t) /\ \A l : Row(t, l)' = Row(t, l)
  BY <1>3, <1>4, SameMeans, RowStays, Zenon DEF Wrote
<1>7. /\ \A d, l : Served(d, l)' = Served(d, l)
      /\ NoneElse(t, txn[t].link)' = NoneElse(t, txn[t].link)
      /\ NoneElse(t, txn[t].prior)' = NoneElse(t, txn[t].prior)
      /\ Row(t, txn[t].link)' = Row(t, txn[t].link)
  BY <1>3, <1>4, <1>6, WorldMeans, ZenonT(60) DEF NoneElse, SameRequest
<1>8. GuardInv(t)' /\ BoundInv(t)' /\ ServedInv(t)' /\ OwnerInv(t)'
  BY <1>1, <1>3, <1>4, MinorStep, Zenon
<1>9. txn[t].op \in DeviceOps /\ txn[t].op # "idle" /\ txn[t].op \notin LinkOps
      /\ txn[t].op # "model" /\ txn[t].op \notin {"toggle", "drop"}
  BY DEF OnDevice, DeviceOps, LinkOps
<1>10. RequestInv(t)'
  BY <1>1, <1>3, <1>6, <1>9, Zenon DEF RequestInv, SameRequest
<1>11. StageInv(t)'
  BY <1>2, <1>3, <1>6, Zenon DEF StageInv, SameRequest, Ready
<1>12. RowsInv(t)'
  BY <1>1, <1>2, <1>3, <1>6, <1>9, ZenonT(60) DEF RowsInv, SameRequest, Ready
<1>13. WroteInv(t)'
  BY <1>1, <1>3, <1>6, Zenon DEF WroteInv, SameRequest
<1>14. ChannelInv(t)'
  BY <1>1, <1>3, <1>4, Zenon DEF ChannelInv, SameRequest
<1>15. NodeInv(t)'
  BY <1>2, <1>3, <1>6, Zenon DEF NodeInv, At, NodesToLock
<1>16. FormInv(t)'
  BY <1>3, <1>4, <1>6, <1>7, Zenon DEF FormInv, At, SameRequest, Ready
<1>17. LeftInv(t)'
  <2>1. txn'[t].dev = txn[t].dev /\ txn'[t].prior = txn[t].prior
    BY <1>3, Zenon DEF SameRequest
  <2>2. At(t, "disable")' =>
          /\ NoneElse(t, txn[t].prior)'
          /\ ~(txn'[t].row.state = "live" /\ txn'[t].row.link = txn'[t].prior)
    BY <1>3, <1>7, <2>1, Zenon DEF At, Ready
  <2>3. \A l \in Rows(t)' : \A d \in Device : d # txn'[t].dev /\ Served(d, l)' =>
          /\ txn'[t].rows[l].enabled
          /\ txn'[t].rows[l].settings = device'[d].settings
    <3>1. \A l \in Rows(t) : \A d \in Device : d # txn[t].dev /\ Served(d, l) =>
            /\ txn[t].rows[l].enabled
            /\ txn[t].rows[l].settings = device[d].settings
      BY <1>1, Zenon DEF LeftInv
    <3>2. ASSUME NEW l \in Rows(t)', NEW d \in Device, d # txn'[t].dev,
                 Served(d, l)'
          PROVE  /\ txn'[t].rows[l].enabled
                 /\ txn'[t].rows[l].settings = device'[d].settings
      <4>1. l \in Rows(t) /\ d # txn[t].dev /\ Served(d, l)
        BY <1>6, <1>7, <2>1, <3>2, Zenon
      <4> QED BY <1>3, <1>4, <3>1, <4>1, Zenon
    <3> QED BY <3>2, Zenon
  <2> QED BY <2>1, <2>2, <2>3, Zenon DEF LeftInv
<1>18. TxnInv(t)' /\ txn'[t].dev = txn[t].dev
  BY <1>3, <1>8, <1>10, <1>11, <1>12, <1>13, <1>14, <1>15, <1>16, <1>17
     DEF TxnInv, SameRequest
<1> QED BY <1>4, <1>5, <1>18, OneMoves, Zenon

LEMMA LockNodeKeeps ==
  ASSUME CatalogInv, NEW t \in Txn, LockNode(t)
  PROVE  CatalogInv'
<1>1. /\ CatalogTypeOK /\ LocksExclude /\ TxnInv(t)
      /\ RequestInv(t) /\ StageInv(t) /\ RowsInv(t) /\ WroteInv(t)
      /\ ChannelInv(t) /\ NodeInv(t) /\ FormInv(t) /\ LeftInv(t)
  BY InvOf, Zenon
<1>2. PICK n \in NextNode(t) : Take(t, {<<"node", n>>})
  BY Zenon DEF LockNode
<1>3. /\ txn' = txn /\ link' = link /\ device' = device /\ At(t, "nodes")
      /\ model' = model /\ requests' = requests
  BY Zenon DEF LockNode, Committed
<1>4. /\ n \in NodesToLock(t) /\ \A k \in NodesToLock(t) : n <= k
      /\ n \in Node
  <2>1. n \in NodesToLock(t) /\ \A k \in NodesToLock(t) : n <= k
    BY DEF NextNode
  <2>2. NodesToLock(t) \subseteq Node
    BY DEF NodesToLock, NodesOf, Node
  <2> QED BY <2>1, <2>2
<1>5. {<<"node", n>>} \in SUBSET Lock
  BY <1>4 DEF Lock
<1>6. /\ held'[t] = held[t] \cup {<<"node", n>>}
      /\ held' \in [Txn -> SUBSET Lock] /\ LocksExclude'
      /\ \A u \in Txn : u # t => held'[u] = held[u]
  BY <1>1, <1>2, <1>5, TakeIs, Zenon
<1>7. Alone(t)
  <2>1. DOMAIN txn' = Txn
    BY <1>1, <1>3 DEF CatalogTypeOK
  <2> QED BY <1>3, <1>6, <2>1, Zenon DEF Alone
<1>8. CatalogTypeOK'
  <2>1. txn'[t] \in TxnRow
    BY <1>1, <1>3, TxnTypes, Zenon
  <2> QED BY <1>1, <1>6, <1>7, <2>1, TypeStays, Zenon
<1>9. /\ held[t] \subseteq held'[t]
      /\ \A l : /\ <<"link", l>> \in held'[t] <=> <<"link", l>> \in held[t]
                /\ <<"share", l>> \in held'[t] <=> <<"share", l>> \in held[t]
      /\ \A k : <<"node", k>> \in held'[t] <=> (k = n \/ <<"node", k>> \in held[t])
  BY <1>6
<1>10. SameRequest(t) /\ txn'[t].rows = txn[t].rows /\ txn'[t].row = txn[t].row
       /\ (\A u \in Txn : u # t => txn'[u] = txn[u])
  BY <1>3, Zenon DEF SameRequest
<1>11. /\ OnDevice(t)' = OnDevice(t) /\ Wrote(t)' = Wrote(t)
       /\ ConfiguresEndpoint(t)' = ConfiguresEndpoint(t)
       /\ NodesOf(t)' = NodesOf(t) /\ Ends(t)' = Ends(t)
       /\ Rows(t)' = Rows(t) /\ \A l : Row(t, l)' = Row(t, l)
  BY <1>3, <1>10, SameMeans, RowStays, Zenon DEF Wrote
<1>12. GuardInv(t)' /\ BoundInv(t)' /\ ServedInv(t)' /\ OwnerInv(t)'
  BY <1>1, <1>3, <1>10, MinorStep, Zenon
<1>13. RequestInv(t)'
  <2>1. txn[t].op # "idle"
    BY <1>1, <1>3 DEF StageInv, At, OnDevice, DeviceOps, DeviceStages
  <2> QED BY <1>1, <1>3, <1>11, <2>1, Zenon DEF RequestInv
<1>14. StageInv(t)'
  BY <1>1, <1>3, <1>11, Zenon DEF StageInv
<1>15. RowsInv(t)'
  BY <1>1, <1>3, <1>9, <1>11, Zenon DEF RowsInv
<1>16. WroteInv(t)'
  BY <1>1, <1>3, <1>9, <1>11, Zenon DEF WroteInv
<1>17. ChannelInv(t)'
  BY <1>1, <1>3, <1>9, Zenon DEF ChannelInv
<1>18. NodeInv(t)'
  <2>1. ASSUME NEW m \in Node, NEW k \in NodesToLock(t)',
               <<"node", m>> \in held'[t]
        PROVE  m < k
    <3>1. k \in NodesToLock(t) /\ k # n
      BY <1>9, <1>11, <2>1, Zenon DEF NodesToLock
    <3>2. k \in Nat /\ m \in Nat /\ n \in Nat
      <4>1. k \in Node
        BY <3>1 DEF NodesToLock, NodesOf, Node
      <4> QED BY <1>4, <4>1, CatalogNames
    <3>3. CASE m = n
      BY <1>4, <3>1, <3>2, <3>3
    <3>4. CASE <<"node", m>> \in held[t]
      BY <1>1, <1>3, <3>1, <3>4, Zenon DEF NodeInv
    <3> QED BY <1>9, <2>1, <3>3, <3>4, Zenon
  <2>2. At(t, "nodes")'
    BY <1>3, Zenon DEF At
  <2> QED BY <2>1, <2>2, Zenon DEF NodeInv
<1>19. FormInv(t)' /\ LeftInv(t)'
  <2>1. /\ ~At(t, "configure")' /\ ~At(t, "disable")'
        /\ txn'[t].stage \notin {"validate", "write"}
    BY <1>3 DEF At
  <2>2. Rows(t)' = {}
    BY <1>1, <1>3, <1>11, Zenon DEF RowsInv, At
  <2> QED BY <2>1, <2>2, Zenon DEF FormInv, LeftInv
<1>20. TxnInv(t)'
  BY <1>12, <1>13, <1>14, <1>15, <1>16, <1>17, <1>18, <1>19 DEF TxnInv
<1> QED BY <1>3, <1>6, <1>7, <1>8, <1>20, OneMoves, Zenon

LEMMA NodesLockedKeeps ==
  ASSUME CatalogInv, NEW t \in Txn, NodesLocked(t)
  PROVE  CatalogInv'
<1> DEFINE s == IF ConfiguresEndpoint(t) THEN "endpoint"
                ELSE IF txn[t].op = "remove" THEN "write" ELSE "validate"
<1>1. StageInv(t) /\ RowsInv(t) /\ RequestInv(t)
  BY InvOf, Zenon
<1>2. /\ At(t, "nodes") /\ NodesToLock(t) = {} /\ Goto(t, s)
      /\ UNCHANGED held /\ Committed
  BY Zenon DEF NodesLocked
<1>3. OnDevice(t) /\ ~Wrote(t) /\ Rows(t) = {}
  BY <1>1, <1>2 DEF StageInv, RowsInv, At, DeviceStages
<1>4. \/ s = "endpoint" /\ ConfiguresEndpoint(t)
      \/ s \in {"write", "validate"} /\ ~ConfiguresEndpoint(t)
  OBVIOUS
<1> HIDE DEF s
<1>5. s \in (DeviceStages \ {"nodes"}) \cup {"commit"}
  BY <1>4 DEF DeviceStages
<1>6. Ready(t, s)
  BY <1>3, <1>4 DEF Ready
<1> QED BY <1>2, <1>3, <1>5, <1>6, GoOn, Zenon

LEMMA FindEndpointKeeps ==
  ASSUME CatalogInv, NEW t \in Txn, FindEndpoint(t)
  PROVE  CatalogInv'
<1> DEFINE l == txn[t].link
           s == IF link[l].state = "live" /\ link[l].enabled /\ SameSettings(t)
                THEN "validate" ELSE "configure"
<1>1. /\ StageInv(t) /\ RowsInv(t) /\ RequestInv(t) /\ NodeInv(t)
      /\ ChannelsMatch /\ CatalogTypeOK
  BY InvOf, Zenon
<1>2. /\ At(t, "endpoint") /\ Goto(t, s) /\ UNCHANGED held /\ Committed
      /\ link[l].state = "live" => SameSettings(t) \/ InTheWay(t) = {}
  BY Zenon DEF FindEndpoint
<1>3. OnDevice(t) /\ ~Wrote(t) /\ Rows(t) = {} /\ ConfiguresEndpoint(t)
  BY <1>1, <1>2 DEF StageInv, RowsInv, At, DeviceStages
<1>4. NodesToLock(t) = {}
  BY <1>1, <1>2, <1>3 DEF NodeInv, At
<1>5. s = "validate" => link[l].enabled /\ link[l].settings = txn[t].settings
  BY DEF SameSettings
<1>6. link[l].settings = txn[t].settings \/ NoneElse(t, l)
  <2>1. CASE SameSettings(t)
    BY <2>1 DEF SameSettings
  <2>2. CASE InTheWay(t) = {}
    BY <2>2 DEF InTheWay, NoneElse, Served, Attached
  <2>3. CASE link[l].state # "live"
    BY <1>1, <2>3, Zenon DEF ChannelsMatch, NoneElse, Served
  <2> QED BY <1>2, <2>1, <2>2, <2>3
<1>7. Row(t, l) = link[l]
  BY <1>3, Zenon DEF Row, Rows
<1>8. s = "validate" \/ s = "configure"
  OBVIOUS
<1> HIDE DEF s
<1>9. s \in (DeviceStages \ {"nodes"}) \cup {"commit"}
  BY <1>8 DEF DeviceStages
<1>10. Ready(t, s)
  BY <1>3, <1>5, <1>6, <1>7, <1>8 DEF Ready
<1> QED BY <1>2, <1>3, <1>4, <1>9, <1>10, GoOn, Zenon

LEMMA ValidateDeviceKeeps ==
  ASSUME CatalogInv, NEW t \in Txn, ValidateDevice(t)
  PROVE  CatalogInv'
<1>1. /\ StageInv(t) /\ RowsInv(t) /\ NodeInv(t) /\ FormInv(t)
  BY InvOf, Zenon
<1>2. At(t, "validate") /\ Goto(t, "write") /\ UNCHANGED held /\ Committed
  BY Zenon DEF ValidateDevice
<1>3. OnDevice(t) /\ ~Wrote(t)
  BY <1>1, <1>2 DEF StageInv, At, DeviceStages
<1>4. NodesToLock(t) = {}
  BY <1>1, <1>2, <1>3 DEF NodeInv, At
<1>5. "write" \in (DeviceStages \ {"nodes"}) \cup {"commit"}
  BY DEF DeviceStages
<1>6. Ready(t, "write")
  BY <1>1, <1>2, <1>3 DEF Ready, RowsInv, FormInv, At
<1> QED BY <1>2, <1>3, <1>4, <1>5, <1>6, GoOn, Zenon

LEMMA FindUnusedKeeps ==
  ASSUME CatalogInv, NEW t \in Txn, FindUnused(t)
  PROVE  CatalogInv'
<1> DEFINE l == txn[t].prior
           s == IF SeenAttached(t, l) = {} /\ Row(t, l).enabled
                THEN "disable" ELSE "commit"
<1>1. StageInv(t) /\ RowsInv(t) /\ RequestInv(t) /\ NodeInv(t)
  BY InvOf, Zenon
<1>2. At(t, "retire") /\ Goto(t, s) /\ UNCHANGED held /\ Committed
  BY Zenon DEF FindUnused
<1>3. /\ OnDevice(t) /\ Wrote(t)
      /\ txn[t].op \in {"update", "remove"} /\ l \in Endpoint
  BY <1>1, <1>2 DEF StageInv, At, DeviceStages
<1>4. NodesToLock(t) = {}
  BY <1>1, <1>2, <1>3 DEF NodeInv, At
<1>5. SeenAttached(t, l) = {} =>
        /\ NoneElse(t, l)
        /\ ~(txn[t].row.state = "live" /\ txn[t].row.link = l)
  BY DEF SeenAttached, Attached, NoneElse, Served
<1>6. s = "commit" \/ (s = "disable" /\ SeenAttached(t, l) = {})
  OBVIOUS
<1> HIDE DEF s
<1>7. s \in (DeviceStages \ {"nodes"}) \cup {"commit"}
  BY <1>6 DEF DeviceStages
<1>8. Ready(t, s)
  BY <1>3, <1>5, <1>6 DEF Ready
<1> QED BY <1>2, <1>3, <1>4, <1>7, <1>8, GoOn, Zenon

LEMMA ConfigureEndpointKeeps ==
  ASSUME CatalogInv, NEW t \in Txn, ConfigureEndpoint(t)
  PROVE  CatalogInv'
<1>l. PICK l : l = txn[t].link
  OBVIOUS
<1>r. PICK r : r = [state |-> "live", enabled |-> TRUE,
                    protocol |-> txn[t].protocol, settings |-> txn[t].settings]
  OBVIOUS
<1>1. /\ CatalogTypeOK /\ ChannelsMatch /\ EndpointServes /\ LocksExclude
      /\ TxnInv(t)
      /\ RequestInv(t) /\ StageInv(t) /\ RowsInv(t) /\ ChannelInv(t)
      /\ NodeInv(t) /\ OwnerInv(t) /\ FormInv(t)
  BY InvOf, Zenon
<1>2. /\ At(t, "configure") /\ Take(t, {<<"link", l>>})
      /\ link[l].state = "live" => GuardChannel(t, l, r)
      /\ txn' = [txn EXCEPT ![t] = [Write(t, l, r) EXCEPT !.stage = "validate"]]
      /\ Committed
  BY <1>l, <1>r, Zenon DEF ConfigureEndpoint
<1>3. /\ OnDevice(t) /\ ~Wrote(t) /\ Rows(t) = {} /\ ConfiguresEndpoint(t)
      /\ l \in Endpoint /\ l \in Link /\ txn[t].settings \in Settings
      /\ NodesToLock(t) = {} /\ txn[t].op \in {"create", "update"}
  <2>1. OnDevice(t) /\ ~Wrote(t) /\ Rows(t) = {} /\ ConfiguresEndpoint(t)
    BY <1>1, <1>2 DEF StageInv, RowsInv, At, DeviceStages
  <2>2. NodesToLock(t) = {}
    BY <1>1, <1>2, <2>1 DEF NodeInv, At
  <2> QED BY <1>1, <1>l, <2>1, <2>2, CatalogNames DEF RequestInv
<1>4. r \in LinkRow
  <2>1. txn[t].protocol \in Protocol \cup {Unset}
    BY <1>1, TxnTypes, Zenon
  <2> QED BY <1>3, <1>r, <2>1 DEF LinkRow
<1>5. r.state = "live" /\ r.enabled = TRUE /\ r.settings = txn[t].settings
      /\ r.protocol = txn[t].protocol
  BY <1>r
<1>6. \/ Attached(l) = {}
      \/ r.protocol = link[l].protocol /\ r.state = link[l].state
  <2>1. Row(t, l) = link[l]
    BY <1>3, Zenon DEF Row, Rows
  <2>2. CASE link[l].state = "live"
    BY <1>2, <2>1, <2>2, Zenon DEF GuardChannel
  <2>3. CASE link[l].state # "live"
    BY <1>1, <2>3, Zenon DEF ChannelsMatch, Attached
  <2> QED BY <2>2, <2>3
<1>7. ASSUME NEW d \in Device, d # txn[t].dev, Served(d, l)
      PROVE  r.settings = device[d].settings
  <2>1. link[l].settings = txn[t].settings
    BY <1>1, <1>2, <1>7, <1>l, Zenon DEF FormInv, NoneElse
  <2>2. link[l].settings = device[d].settings
    BY <1>1, <1>7, Zenon DEF EndpointServes, Served
  <2> QED BY <1>5, <2>1, <2>2
<1>8. "validate" \in Stages
  BY DEF Stages, DeviceStages
<1>9. /\ txn'[t] \in TxnRow /\ txn'[t].stage = "validate" /\ SameRequest(t)
      /\ Rows(t)' = Rows(t) \cup {l} /\ txn'[t].rows[l] = r
      /\ txn'[t].row = txn[t].row
      /\ DOMAIN txn' = Txn
      /\ \A u \in Txn : u # t => txn'[u] = txn[u]
  <2>1. CatalogTypeOK /\ l \in Link
    BY <1>1, <1>3, Zenon
  <2>2. Writes(t, l, r, "validate")
    BY <1>2 DEF Writes
  <2>3. RowWritten(t, l, r, "validate")
    BY <2>1, <2>2, <1>4, <1>8, WriteIs, Zenon
  <2> QED BY <2>3 DEF RowWritten
<1>10. {<<"link", l>>} \in SUBSET Lock
  BY <1>3 DEF Lock
<1>11. /\ held'[t] = held[t] \cup {<<"link", l>>}
       /\ held' \in [Txn -> SUBSET Lock] /\ LocksExclude'
       /\ \A u \in Txn : u # t => held'[u] = held[u]
  BY <1>1, <1>2, <1>10, TakeIs, Zenon
<1>12. Alone(t) /\ link' = link /\ device' = device
  BY <1>2, <1>9, <1>11, Zenon DEF Alone, Committed
<1>13. CatalogTypeOK'
  BY <1>1, <1>9, <1>11, <1>12, TypeStays, Zenon
<1>14. /\ \A k : k # l =>
            (<<"link", k>> \in held'[t] <=> <<"link", k>> \in held[t])
       /\ \A k : /\ <<"share", k>> \in held'[t] <=> <<"share", k>> \in held[t]
                 /\ <<"node", k>> \in held'[t] <=> <<"node", k>> \in held[t]
       /\ <<"link", l>> \in held'[t]
  BY <1>11
<1>15. /\ OnDevice(t)' /\ ~Wrote(t)' /\ ConfiguresEndpoint(t)'
       /\ NodesOf(t)' = NodesOf(t) /\ Ends(t)' = Ends(t) /\ Rows(t)' = {l}
       /\ txn'[t].row = NoRow /\ txn[t].row = NoRow
  BY <1>3, <1>9, SameMeans, Zenon DEF Wrote
<1>16. txn'[t].link = l /\ txn'[t].op = txn[t].op /\ txn'[t].dev = txn[t].dev
       /\ txn'[t].settings = txn[t].settings /\ txn'[t].prior = txn[t].prior
       /\ txn'[t].protocol = txn[t].protocol
  BY <1>9, <1>l, Zenon DEF SameRequest
<1>17. /\ \A k : Attached(k)' = Attached(k)
       /\ \A d, k : Served(d, k)' = Served(d, k)
  BY <1>12, WorldMeans, Zenon
<1>18. /\ txn[t].op # "idle" /\ txn[t].op \notin LinkOps
       /\ txn[t].op # "model" /\ txn[t].op \notin {"toggle", "drop", "link"}
       /\ txn[t].op \in DeviceOps
  BY <1>3 DEF LinkOps, DeviceOps
<1>19. RequestInv(t)'
  BY <1>1, <1>3, <1>15, <1>16, <1>18, Zenon DEF RequestInv
<1>20. StageInv(t)'
  BY <1>9, <1>15, <1>16, <1>18 DEF StageInv, DeviceStages
<1>21. RowsInv(t)'
  <2>1. l \in Ends(t)
    BY <1>3, <1>l DEF Ends
  <2>2. txn'[t].stage \notin {"nodes", "endpoint", "configure", "row"}
    BY <1>9
  <2>3. <<"link", l>> \in held'[t] /\ txn'[t].rows[l].state # "absent"
    BY <1>5, <1>9, <1>14
  <2>4. Rows(t)' \subseteq Ends(t)'
    BY <1>15, <2>1
  <2>5. \A k \in Rows(t)' : k = l
    BY <1>15
  <2> QED BY <1>15, <1>16, <1>18, <2>2, <2>3, <2>4, <2>5, Zenon DEF RowsInv
<1>22. WroteInv(t)'
  BY <1>15, Zenon DEF WroteInv
<1>23. ChannelInv(t)'
  <2>1. \A k \in Collector : k # l
    BY <1>3, CatalogNames
  <2> QED BY <1>1, <1>12, <1>14, <1>16, <1>18, <2>1, Zenon DEF ChannelInv
<1>24. NodeInv(t)'
  <2>1. NodesToLock(t)' = {}
    BY <1>3, <1>14, <1>15, Zenon DEF NodesToLock
  <2>2. ~At(t, "nodes")'
    BY <1>9 DEF At
  <2> QED BY <2>1, <2>2, Zenon DEF NodeInv
<1>25. OwnerInv(t)'
  BY <1>1, <1>9, <1>12, <1>16, Zenon DEF OwnerInv
<1>26. GuardInv(t)'
  BY <1>6, <1>9, <1>12, <1>15, <1>17 DEF GuardInv
<1>27. BoundInv(t)' /\ ServedInv(t)'
  <2>1. txn'[t].row.state # "live"
    BY <1>15 DEF NoRow
  <2> QED BY <2>1, Zenon DEF BoundInv, ServedInv
<1>28. FormInv(t)'
  <2>1. Row(t, l)' = r
    BY <1>9, <1>15 DEF Row, Rows
  <2>2. ~At(t, "configure")'
    BY <1>9 DEF At
  <2> QED BY <1>5, <1>16, <2>1, <2>2 DEF FormInv
<1>29. LeftInv(t)'
  <2>1. ~At(t, "disable")'
    BY <1>9 DEF At
  <2>2. ASSUME NEW k \in Rows(t)', NEW d \in Device, d # txn'[t].dev,
               Served(d, k)'
        PROVE  /\ txn'[t].rows[k].enabled
               /\ txn'[t].rows[k].settings = device'[d].settings
    <3>1. k = l
      BY <1>15, <2>2
    <3>2. d # txn[t].dev /\ Served(d, l)
      BY <1>16, <1>17, <2>2, <3>1, Zenon
    <3> QED BY <1>5, <1>7, <1>9, <1>12, <3>1, <3>2
  <2> QED BY <2>1, <2>2, Zenon DEF LeftInv
<1>30. TxnInv(t)'
  BY <1>19, <1>20, <1>21, <1>22, <1>23, <1>24, <1>25, <1>26, <1>27, <1>28,
     <1>29 DEF TxnInv
<1> QED BY <1>11, <1>12, <1>13, <1>16, <1>30, OneMoves, Zenon

\* The row of a device that a request is about to write.
NewRowFacts(t, row) ==
  /\ row \in DeviceRow /\ row.link \in Link /\ row.state # "absent"
  /\ row.settings # Unset =>
       \/ /\ ConfiguresEndpoint(t) /\ row.link = txn[t].link
          /\ row.settings = txn[t].settings
       \/ /\ ~(ConfiguresEndpoint(t) /\ row.link = txn[t].link)
          /\ row.link \in Endpoint
          /\ device[txn[t].dev].link = row.link
          /\ device[txn[t].dev].settings = row.settings
          /\ row.state = "live" => Live(txn[t].dev)

LEMMA NewRowIs ==
  ASSUME CatalogInv, NEW t \in Txn, OnDevice(t)
  PROVE  NewRowFacts(t, NewRow(t))
<1> DEFINE old == device[txn[t].dev]
<1>1. /\ CatalogTypeOK /\ RequestInv(t) /\ OwnerInv(t) /\ DeviceInv
      /\ txn[t].dev \in Device
  BY InvOf, Zenon DEF RequestInv
<1>2. /\ old \in DeviceRow
      /\ old.state \in {"absent", "live", "deleted"}
      /\ old.link \in Link \cup {Unset} /\ old.model \in Model \cup {Unset}
      /\ old.settings \in Settings \cup {Unset}
      /\ old.state = "absent" => old = NoRow
      /\ old.state # "absent" => old.link \in Link
      /\ old.settings # Unset => old.link \in Endpoint
  <2>1. old \in DeviceRow
    BY <1>1 DEF CatalogTypeOK
  <2>2. /\ old.state = "absent" => old = NoRow
        /\ old.state # "absent" => old.link \in Link
        /\ old.settings # Unset => old.link \in Endpoint
    BY <1>1, Zenon DEF DeviceInv
  <2> QED BY <2>1, <2>2 DEF DeviceRow
<1>3. /\ txn[t].link \in Link \cup {Unset} /\ txn[t].model \in Model \cup {Unset}
      /\ txn[t].settings \in Settings \cup {Unset}
  BY <1>1, TxnTypes, Zenon
<1>4. txn[t].op = "create" \/ txn[t].op = "update" \/ txn[t].op = "remove"
  BY DEF OnDevice, DeviceOps
<1>5. ConfiguresEndpoint(t) =>
        /\ txn[t].link \in Endpoint /\ txn[t].link # Unset
        /\ txn[t].op # "remove"
  BY <1>1, CatalogNames DEF RequestInv
<1>6. txn[t].op # "remove" => Target(t) \in Link
  BY <1>1, <1>3, <1>4, CatalogNames DEF Target, RequestInv
<1>7. ConfiguresEndpoint(t) => Target(t) = txn[t].link
  BY <1>5 DEF Target
<1>8. CASE txn[t].op = "remove"
  <2>1. NewRow(t) = [old EXCEPT !.state = "deleted"]
    BY <1>8 DEF NewRow
  <2>2. old.state # "absent" /\ old.link \in Link
    BY <1>1, <1>2, <1>8 DEF OwnerInv
  <2>3. PICK row : row = NewRow(t)
    OBVIOUS
  <2>4. /\ row \in DeviceRow /\ row.state = "deleted" /\ row.link = old.link
        /\ row.settings = old.settings
    BY <1>2, <2>1, <2>3 DEF DeviceRow
  <2> QED BY <1>2, <1>5, <1>8, <2>2, <2>3, <2>4 DEF NewRowFacts
<1>9. CASE txn[t].op # "remove"
  <2> DEFINE l == IF txn[t].op = "create" \/ Target(t) # txn[t].prior
                  THEN Target(t) ELSE old.link
             m == IF txn[t].model = Unset THEN old.model ELSE txn[t].model
             x == IF ConfiguresEndpoint(t) /\ l = Target(t)
                  THEN txn[t].settings
                  ELSE IF l = old.link THEN old.settings ELSE Unset
             s == IF txn[t].op = "create" THEN "live" ELSE old.state
  <2>1. NewRow(t) = [state |-> s, link |-> l, model |-> m, settings |-> x]
    BY <1>9 DEF NewRow
  <2>2. s \in {"live", "deleted"} /\ (txn[t].op # "create" => s = old.state)
    BY <1>1, <1>2, <1>4, <1>9 DEF OwnerInv
  <2>3. l \in Link
    BY <1>1, <1>2, <1>4, <1>6, <1>9 DEF OwnerInv
  <2>4. m \in Model \cup {Unset}
    BY <1>2, <1>3
  <2>5. \/ ConfiguresEndpoint(t) /\ l = txn[t].link /\ x = txn[t].settings
        \/ /\ ~(ConfiguresEndpoint(t) /\ l = txn[t].link)
           /\ x = Unset \/ (l = old.link /\ x = old.settings)
    BY <1>7
  <2>6. x \in Settings \cup {Unset}
    BY <1>2, <1>3
  <2>7. txn[t].op = "create" => old.settings = Unset
    BY <1>1 DEF OwnerInv, NoRow
  <2> HIDE DEF l, m, x, s
  <2>8. PICK row : row = NewRow(t)
    OBVIOUS
  <2>9. row \in DeviceRow /\ row.state = s /\ row.link = l /\ row.settings = x
    BY <2>1, <2>2, <2>3, <2>4, <2>6, <2>8 DEF DeviceRow
  <2>10. NewRowFacts(t, row)
    BY <1>2, <2>2, <2>3, <2>5, <2>7, <2>9 DEF NewRowFacts, Live
  <2> QED BY <2>8, <2>10
<1> QED BY <1>8, <1>9

\* A step that writes the row of a device.
RowBound(t, row, s) ==
  /\ txn'[t] \in TxnRow /\ txn'[t].stage = s /\ SameRequest(t)
  /\ txn'[t].rows = txn[t].rows /\ txn'[t].row = row
  /\ DOMAIN txn' = Txn
  /\ \A u \in Txn : u # t => txn'[u] = txn[u]

LEMMA BindIs ==
  ASSUME CatalogTypeOK, NEW t \in Txn, NEW row \in DeviceRow, NEW s \in Stages,
         txn' = [txn EXCEPT ![t].row = row, ![t].stage = s]
  PROVE  RowBound(t, row, s)
<1>1. txn[t] \in TxnRow /\ DOMAIN txn = Txn
  BY DEF CatalogTypeOK
<1>2. PICK v : v = [txn[t] EXCEPT !.row = row]
  OBVIOUS
<1>3. /\ v \in TxnRow /\ v.row = row /\ v.rows = txn[t].rows
      /\ v.op = txn[t].op /\ v.dev = txn[t].dev /\ v.link = txn[t].link
      /\ v.model = txn[t].model /\ v.protocol = txn[t].protocol
      /\ v.settings = txn[t].settings /\ v.prior = txn[t].prior
      /\ v.priorModel = txn[t].priorModel
  BY <1>1, <1>2 DEF TxnRow
<1>4. txn' = [txn EXCEPT ![t] = [v EXCEPT !.stage = s]]
  BY <1>1, <1>2
<1>5. /\ txn'[t] = [v EXCEPT !.stage = s] /\ DOMAIN txn' = Txn
      /\ \A u \in Txn : u # t => txn'[u] = txn[u]
  BY <1>4, SetTxn
<1>6. /\ txn'[t] \in TxnRow /\ txn'[t].stage = s /\ SameRequest(t)
      /\ txn'[t].rows = txn[t].rows /\ txn'[t].row = row
  <2>1. PICK w : w = [v EXCEPT !.stage = s]
    OBVIOUS
  <2>2. w \in TxnRow
    BY <1>3, <2>1 DEF TxnRow, Stages, DeviceStages
  <2>3. /\ w.stage = s /\ w.row = v.row /\ w.rows = v.rows /\ w.op = v.op
        /\ w.dev = v.dev /\ w.link = v.link /\ w.model = v.model
        /\ w.protocol = v.protocol /\ w.settings = v.settings
        /\ w.prior = v.prior /\ w.priorModel = v.priorModel
    BY <1>3, <2>1 DEF TxnRow
  <2> QED BY <1>3, <1>5, <2>1, <2>2, <2>3, Zenon DEF SameRequest
<1> QED BY <1>5, <1>6 DEF RowBound

LEMMA WriteDeviceKeeps ==
  ASSUME CatalogInv, NEW t \in Txn, WriteDevice(t)
  PROVE  CatalogInv'
<1>r. PICK row : row = NewRow(t)
  OBVIOUS
<1>s. PICK s : s = IF /\ txn[t].op # "create" /\ IsEdge(txn[t].prior)
                      /\ txn[t].op = "update" => ConnectionChanged(t)
                   THEN "retire" ELSE "commit"
  OBVIOUS
<1>1. /\ CatalogTypeOK /\ EndpointServes /\ LocksExclude /\ TxnInv(t)
      /\ RequestInv(t) /\ StageInv(t) /\ RowsInv(t) /\ ChannelInv(t)
      /\ NodeInv(t) /\ OwnerInv(t) /\ GuardInv(t) /\ FormInv(t) /\ LeftInv(t)
  BY InvOf, Zenon
<1>2. /\ At(t, "write") /\ Take(t, BindLocks(t, row)) /\ BindGuard(t, row)
      /\ txn' = [txn EXCEPT ![t].row = row, ![t].stage = s]
      /\ Committed
  BY <1>r, <1>s, Zenon DEF WriteDevice
<1>3. /\ OnDevice(t) /\ ~Wrote(t) /\ NodesToLock(t) = {}
      /\ \A l \in Rows(t) : ConfiguresEndpoint(t) /\ l = txn[t].link
  <2>1. OnDevice(t) /\ ~Wrote(t)
    BY <1>1, <1>2 DEF StageInv, At, DeviceStages
  <2>2. NodesToLock(t) = {}
    BY <1>1, <1>2, <2>1 DEF NodeInv, At
  <2>3. \A l \in Rows(t) : ConfiguresEndpoint(t) /\ l = txn[t].link
    BY <1>1, <1>2 DEF RowsInv, At
  <2> QED BY <2>1, <2>2, <2>3
<1>4. NewRowFacts(t, row)
  BY <1>3, <1>r, NewRowIs, Zenon
<1>5. row \in DeviceRow /\ row.link \in Link /\ row.state # "absent"
  BY <1>4 DEF NewRowFacts
<1>6. /\ s \in {"retire", "commit"} /\ s \in Stages
      /\ s = "retire" => txn[t].op # "create" /\ txn[t].prior \in Endpoint
  BY <1>s DEF Stages, DeviceStages, IsEdge
<1>7. RowBound(t, row, s)
  BY <1>1, <1>2, <1>5, <1>6, BindIs
<1>8. /\ txn'[t] \in TxnRow /\ txn'[t].stage = s /\ SameRequest(t)
      /\ txn'[t].rows = txn[t].rows /\ txn'[t].row = row
      /\ DOMAIN txn' = Txn
      /\ \A u \in Txn : u # t => txn'[u] = txn[u]
  BY <1>7, Zenon DEF RowBound
<1>9. txn[t].dev \in Device
  BY <1>1, <1>3, Zenon DEF RequestInv
<1>10. BindLocks(t, row) \in SUBSET Lock
  BY <1>5, <1>9 DEF Lock, BindLocks
<1>11. /\ held'[t] = held[t] \cup BindLocks(t, row)
       /\ held' \in [Txn -> SUBSET Lock] /\ LocksExclude'
       /\ \A u \in Txn : u # t => held'[u] = held[u]
  BY <1>1, <1>2, <1>10, TakeIs, Zenon
<1>12. Alone(t) /\ link' = link /\ device' = device
  BY <1>2, <1>8, <1>11, Zenon DEF Alone, Committed
<1>13. CatalogTypeOK'
  BY <1>1, <1>8, <1>11, <1>12, TypeStays, Zenon
<1>14. /\ \A k : /\ <<"link", k>> \in held'[t] <=> <<"link", k>> \in held[t]
                 /\ <<"node", k>> \in held'[t] <=> <<"node", k>> \in held[t]
       /\ \A k : <<"share", k>> \in held'[t] =>
                   k = row.link \/ <<"share", k>> \in held[t]
       /\ <<"share", row.link>> \in held'[t]
       /\ <<"device", txn[t].dev>> \in held'[t]
  BY <1>11 DEF BindLocks
<1>15. /\ OnDevice(t)' /\ ConfiguresEndpoint(t)' = ConfiguresEndpoint(t)
       /\ NodesOf(t)' = NodesOf(t) /\ Ends(t)' = Ends(t)
       /\ Rows(t)' = Rows(t) /\ (\A k : Row(t, k)' = Row(t, k)) /\ Wrote(t)'
  <2>1. row # NoRow
    BY <1>5 DEF NoRow
  <2> QED BY <1>3, <1>8, <1>12, <2>1, SameMeans, RowStays, Zenon DEF Wrote
<1>16. /\ txn'[t].link = txn[t].link /\ txn'[t].op = txn[t].op
       /\ txn'[t].dev = txn[t].dev /\ txn'[t].settings = txn[t].settings
       /\ txn'[t].prior = txn[t].prior /\ txn'[t].protocol = txn[t].protocol
  BY <1>8, Zenon DEF SameRequest
<1>17. /\ \A k : Attached(k)' = Attached(k)
       /\ \A d, k : Served(d, k)' = Served(d, k)
  BY <1>12, WorldMeans, Zenon
<1>18. /\ txn[t].op # "idle" /\ txn[t].op \notin LinkOps
       /\ txn[t].op # "model" /\ txn[t].op \notin {"toggle", "drop", "link"}
       /\ txn[t].op \in DeviceOps
  BY <1>3 DEF OnDevice, LinkOps, DeviceOps
<1>19. RequestInv(t)'
  BY <1>1, <1>3, <1>15, <1>16, <1>18, Zenon DEF RequestInv
<1>20. StageInv(t)'
  BY <1>6, <1>8, <1>15, <1>16, <1>18 DEF StageInv, DeviceStages, DeviceOps
<1>21. RowsInv(t)'
  <2>1. txn'[t].stage \notin {"nodes", "endpoint", "configure", "row",
                              "validate", "write"}
    BY <1>6, <1>8
  <2> QED BY <1>1, <1>3, <1>8, <1>14, <1>15, <1>16, <1>18, <2>1, Zenon
             DEF RowsInv
<1>22. WroteInv(t)'
  <2>1. row.settings # Unset => row.link \in Endpoint
    BY <1>1, <1>4 DEF NewRowFacts, RequestInv
  <2> QED BY <1>5, <1>8, <1>14, <1>16, <2>1, Zenon DEF WroteInv
<1>23. ChannelInv(t)'
  <2>1. row.link \in Collector => link[row.link].state # "absent"
    <3>1. Rows(t) \subseteq Endpoint
      BY <1>1, <1>3, Zenon DEF RowsInv, Ends
    <3>2. row.link \in Collector => row.link \notin Rows(t)
      BY <3>1, CatalogNames, Zenon
    <3> QED BY <1>2, <3>2, Zenon DEF BindGuard, Row, Rows
  <2> QED BY <1>1, <1>12, <1>14, <1>16, <1>18, <2>1, Zenon DEF ChannelInv
<1>24. NodeInv(t)'
  <2>1. NodesToLock(t)' = {}
    BY <1>3, <1>14, <1>15, Zenon DEF NodesToLock
  <2>2. ~At(t, "nodes")'
    BY <1>6, <1>8 DEF At
  <2> QED BY <2>1, <2>2, Zenon DEF NodeInv
<1>25. OwnerInv(t)'
  BY <1>1, <1>8, <1>12, <1>16, Zenon DEF OwnerInv
<1>26. GuardInv(t)'
  BY <1>1, <1>8, <1>12, <1>15, <1>17, Zenon DEF GuardInv
<1>27. BoundInv(t)'
  <2>1. Row(t, row.link).state \in {"absent", "live", "deleted"}
    BY <1>1, <1>5, RowIsTyped DEF LinkRow
  <2>2. row.state = "live" =>
          /\ Row(t, row.link).state = "live"
          /\ Row(t, row.link).protocol = ProtocolOf[row.model]
    BY <1>2, <2>1 DEF BindGuard
  <2> QED BY <1>8, <1>15, <2>2, Zenon DEF BoundInv
<1>28. FormInv(t)'
  <2>1. ~At(t, "configure")' /\ txn'[t].stage \notin {"validate", "write"}
    BY <1>6, <1>8 DEF At
  <2> QED BY <2>1, Zenon DEF FormInv
<1>29. ServedInv(t)'
  <2>1. ASSUME row.state = "live", row.settings # Unset
        PROVE  /\ Row(t, row.link).enabled
               /\ Row(t, row.link).settings = row.settings
               /\ \/ ConfiguresEndpoint(t) /\ row.link = txn[t].link
                  \/ Served(txn[t].dev, row.link)
    <3>1. CASE /\ ConfiguresEndpoint(t) /\ row.link = txn[t].link
               /\ row.settings = txn[t].settings
      BY <1>1, <1>2, <3>1 DEF FormInv, At
    <3>2. CASE /\ ~(ConfiguresEndpoint(t) /\ row.link = txn[t].link)
               /\ device[txn[t].dev].link = row.link
               /\ device[txn[t].dev].settings = row.settings
               /\ Live(txn[t].dev)
      <4>1. row.link \notin Rows(t)
        BY <1>3, <3>2, Zenon
      <4>2. Row(t, row.link) = link[row.link]
        BY <4>1, Zenon DEF Row, Rows
      <4>3. /\ link[row.link].enabled /\ link[row.link].settings = row.settings
            /\ Served(txn[t].dev, row.link)
        BY <1>1, <1>9, <2>1, <3>2, Zenon DEF EndpointServes, Served
      <4> QED BY <4>2, <4>3
    <3> QED BY <1>4, <2>1, <3>1, <3>2, Zenon DEF NewRowFacts
  <2> QED BY <1>8, <1>15, <1>16, <1>17, <2>1, Zenon DEF ServedInv
<1>30. LeftInv(t)'
  <2>1. ~At(t, "disable")'
    BY <1>6, <1>8 DEF At
  <2>2. ASSUME NEW k \in Rows(t)', NEW d \in Device, d # txn'[t].dev,
               Served(d, k)'
        PROVE  /\ txn'[t].rows[k].enabled
               /\ txn'[t].rows[k].settings = device'[d].settings
    <3>1. k \in Rows(t) /\ d # txn[t].dev /\ Served(d, k)
      BY <1>15, <1>16, <1>17, <2>2, Zenon
    <3>2. txn[t].rows[k].enabled /\ txn[t].rows[k].settings = device[d].settings
      BY <1>1, <3>1, Zenon DEF LeftInv
    <3> QED BY <1>8, <1>12, <3>2, Zenon
  <2> QED BY <2>1, <2>2, Zenon DEF LeftInv
<1>31. TxnInv(t)'
  BY <1>19, <1>20, <1>21, <1>22, <1>23, <1>24, <1>25, <1>26, <1>27, <1>28,
     <1>29, <1>30 DEF TxnInv
<1> QED BY <1>11, <1>12, <1>13, <1>16, <1>31, OneMoves, Zenon

LEMMA DisableUnusedKeeps ==
  ASSUME CatalogInv, NEW t \in Txn, DisableUnused(t)
  PROVE  CatalogInv'
<1>l. PICK l : l = txn[t].prior
  OBVIOUS
<1>r. PICK r : r = [Row(t, l) EXCEPT !.enabled = FALSE]
  OBVIOUS
<1>1. /\ CatalogTypeOK /\ LocksExclude /\ TxnInv(t)
      /\ RequestInv(t) /\ StageInv(t) /\ RowsInv(t) /\ WroteInv(t)
      /\ ChannelInv(t) /\ NodeInv(t) /\ OwnerInv(t) /\ GuardInv(t)
      /\ BoundInv(t) /\ ServedInv(t) /\ LeftInv(t)
  BY InvOf, Zenon
<1>2. /\ At(t, "disable") /\ Take(t, {<<"link", l>>})
      /\ txn' = [txn EXCEPT ![t] = [Write(t, l, r) EXCEPT !.stage = "commit"]]
      /\ Committed
  BY <1>l, <1>r, Zenon DEF DisableUnused
<1>3. /\ OnDevice(t) /\ Wrote(t) /\ NodesToLock(t) = {}
      /\ l \in Endpoint /\ l \in Link /\ txn[t].op \in {"update", "remove"}
  <2>1. OnDevice(t) /\ Wrote(t) /\ txn[t].op \in {"update", "remove"}
        /\ l \in Endpoint
    BY <1>1, <1>2, <1>l DEF StageInv, At, DeviceStages
  <2>2. NodesToLock(t) = {}
    BY <1>1, <1>2, <2>1 DEF NodeInv, At
  <2> QED BY <2>1, <2>2, CatalogNames
<1>4. /\ Row(t, l) \in LinkRow
      /\ l \notin Rows(t) => Row(t, l) = link[l]
      /\ l \in Rows(t) => Row(t, l) = txn[t].rows[l]
  BY <1>1, <1>3, RowIsTyped, Zenon
<1>5. /\ r \in LinkRow /\ r.state = Row(t, l).state
      /\ r.protocol = Row(t, l).protocol /\ r.state # "absent"
  <2>1. Row(t, l).state # "absent"
    BY <1>1, <1>3, <1>4, <1>l DEF RowsInv, ChannelInv
  <2> QED BY <1>4, <1>r, <2>1 DEF LinkRow
<1>6. ~(txn[t].row.state = "live" /\ txn[t].row.link = l) /\ NoneElse(t, l)
  BY <1>1, <1>2, <1>l, Zenon DEF LeftInv
<1>7. "commit" \in Stages
  BY DEF Stages
<1>8. /\ txn'[t] \in TxnRow /\ txn'[t].stage = "commit" /\ SameRequest(t)
      /\ Rows(t)' = Rows(t) \cup {l} /\ txn'[t].rows[l] = r
      /\ \A k \in Rows(t) : k # l => txn'[t].rows[k] = txn[t].rows[k]
      /\ txn'[t].row = txn[t].row
      /\ DOMAIN txn' = Txn
      /\ \A u \in Txn : u # t => txn'[u] = txn[u]
  <2>1. Writes(t, l, r, "commit")
    BY <1>2 DEF Writes
  <2>2. RowWritten(t, l, r, "commit")
    BY <1>1, <1>3, <1>5, <1>7, <2>1, WriteIs, Zenon
  <2> QED BY <2>2, Zenon DEF RowWritten
<1>9. {<<"link", l>>} \in SUBSET Lock
  BY <1>3 DEF Lock
<1>10. /\ held'[t] = held[t] \cup {<<"link", l>>}
       /\ held' \in [Txn -> SUBSET Lock] /\ LocksExclude'
       /\ \A u \in Txn : u # t => held'[u] = held[u]
  BY <1>1, <1>2, <1>9, TakeIs, Zenon
<1>11. Alone(t) /\ link' = link /\ device' = device
  BY <1>2, <1>8, <1>10, Zenon DEF Alone, Committed
<1>12. CatalogTypeOK'
  BY <1>1, <1>8, <1>10, <1>11, TypeStays, Zenon
<1>13. /\ \A k : k # l =>
            (<<"link", k>> \in held'[t] <=> <<"link", k>> \in held[t])
       /\ \A k : /\ <<"share", k>> \in held'[t] <=> <<"share", k>> \in held[t]
                 /\ <<"node", k>> \in held'[t] <=> <<"node", k>> \in held[t]
                 /\ <<"device", k>> \in held'[t] <=> <<"device", k>> \in held[t]
       /\ <<"link", l>> \in held'[t] /\ held[t] \subseteq held'[t]
  BY <1>10
<1>14. /\ OnDevice(t)' /\ Wrote(t)'
       /\ ConfiguresEndpoint(t)' = ConfiguresEndpoint(t)
       /\ NodesOf(t)' = NodesOf(t) /\ Ends(t)' = Ends(t)
  BY <1>3, <1>8, SameMeans, Zenon DEF Wrote
<1>15. /\ \A k : k # l => Row(t, k)' = Row(t, k)
       /\ Row(t, l)' = r
  <2>1. ASSUME NEW k, k # l PROVE Row(t, k)' = Row(t, k)
    <3>1. k \in Rows(t)' <=> k \in Rows(t)
      BY <1>8, <2>1
    <3> QED BY <1>8, <1>11, <2>1, <3>1, Zenon DEF Row, Rows
  <2>2. Row(t, l)' = r
    BY <1>8 DEF Row, Rows
  <2> QED BY <2>1, <2>2, Zenon
<1>16. /\ txn'[t].link = txn[t].link /\ txn'[t].op = txn[t].op
       /\ txn'[t].dev = txn[t].dev /\ txn'[t].settings = txn[t].settings
       /\ txn'[t].prior = l /\ txn'[t].protocol = txn[t].protocol
       /\ txn[t].prior = l
  BY <1>8, <1>l, Zenon DEF SameRequest
<1>17. /\ \A k : Attached(k)' = Attached(k)
       /\ \A d, k : Served(d, k)' = Served(d, k)
  BY <1>11, WorldMeans, Zenon
<1>18. /\ txn[t].op # "idle" /\ txn[t].op \notin LinkOps /\ txn[t].op # "create"
       /\ txn[t].op # "model" /\ txn[t].op \notin {"toggle", "drop", "link"}
       /\ txn[t].op \in DeviceOps
  BY <1>3 DEF LinkOps, DeviceOps
<1>19. RequestInv(t)'
  BY <1>1, <1>3, <1>14, <1>16, <1>18, CatalogNames, Zenon DEF RequestInv
<1>20. StageInv(t)'
  BY <1>8, <1>14 DEF StageInv, DeviceStages
<1>21. RowsInv(t)'
  <2>1. l \in Ends(t)
    BY <1>3, <1>l DEF Ends
  <2>2. Rows(t)' \subseteq Ends(t)'
    BY <1>1, <1>3, <1>8, <1>14, <2>1 DEF RowsInv
  <2>3. ASSUME NEW k \in Rows(t)'
        PROVE  <<"link", k>> \in held'[t] /\ txn'[t].rows[k].state # "absent"
    <3>1. CASE k = l
      BY <1>5, <1>8, <1>13, <3>1
    <3>2. CASE k # l
      <4>1. k \in Rows(t)
        BY <1>8, <3>2
      <4> QED BY <1>1, <1>8, <1>13, <3>2, <4>1, Zenon DEF RowsInv
    <3> QED BY <3>1, <3>2
  <2>4. txn'[t].stage \notin {"nodes", "endpoint", "configure", "row",
                              "validate", "write"}
    BY <1>8
  <2> QED BY <1>14, <1>16, <1>18, <2>2, <2>3, <2>4, Zenon DEF RowsInv
<1>22. WroteInv(t)'
  BY <1>1, <1>3, <1>8, <1>13, <1>16, Zenon DEF WroteInv
<1>23. ChannelInv(t)'
  <2>1. \A k \in Collector : k # l
    BY <1>3, CatalogNames
  <2> QED BY <1>1, <1>3, <1>11, <1>13, <1>16, <1>18, <2>1, Zenon DEF ChannelInv
<1>24. NodeInv(t)'
  <2>1. NodesToLock(t)' = {}
    BY <1>3, <1>13, <1>14, Zenon DEF NodesToLock
  <2>2. ~At(t, "nodes")'
    BY <1>8 DEF At
  <2> QED BY <2>1, <2>2, Zenon DEF NodeInv
<1>25. OwnerInv(t)'
  BY <1>1, <1>8, <1>11, <1>16, <1>18, Zenon DEF OwnerInv
<1>26. GuardInv(t)'
  <2> SUFFICES ASSUME NEW k \in Rows(t)', Attached(k) # {}
               PROVE  /\ txn'[t].rows[k].protocol = link[k].protocol
                      /\ txn'[t].rows[k].state = link[k].state
    BY <1>11, <1>17, Zenon DEF GuardInv
  <2>1. CASE k \in Rows(t)
    <3>1. /\ txn[t].rows[k].protocol = link[k].protocol
          /\ txn[t].rows[k].state = link[k].state
      BY <1>1, <2>1, Zenon DEF GuardInv
    <3> QED BY <1>4, <1>5, <1>8, <2>1, <3>1
  <2>2. CASE k \notin Rows(t)
    <3>1. k = l
      BY <1>8, <2>2
    <3> QED BY <1>4, <1>5, <1>8, <2>2, <3>1
  <2> QED BY <2>1, <2>2
<1>27. BoundInv(t)'
  <2>1. CASE txn[t].row.state = "live"
    <3>1. txn[t].row.link # l
      BY <1>6, <2>1
    <3>2. /\ Row(t, txn[t].row.link).state = "live"
          /\ Row(t, txn[t].row.link).protocol = ProtocolOf[txn[t].row.model]
      BY <1>1, <2>1, Zenon DEF BoundInv
    <3>3. Row(t, txn[t].row.link)' = Row(t, txn[t].row.link)
      BY <1>8, <1>15, <3>1, Zenon
    <3> QED BY <1>8, <3>2, <3>3, Zenon DEF BoundInv
  <2>2. CASE txn[t].row.state # "live"
    BY <1>8, <2>2, Zenon DEF BoundInv
  <2> QED BY <2>1, <2>2
<1>28. FormInv(t)'
  <2>1. ~At(t, "configure")' /\ txn'[t].stage \notin {"validate", "write"}
    BY <1>8 DEF At
  <2> QED BY <2>1, Zenon DEF FormInv
<1>29. ServedInv(t)'
  <2>1. CASE txn[t].row.state = "live" /\ txn[t].row.settings # Unset
    <3>1. txn[t].row.link # l
      BY <1>6, <2>1
    <3>2. Row(t, txn[t].row.link)' = Row(t, txn[t].row.link)
      BY <1>8, <1>15, <3>1, Zenon
    <3>3. /\ Row(t, txn[t].row.link).enabled
          /\ Row(t, txn[t].row.link).settings = txn[t].row.settings
          /\ \/ ConfiguresEndpoint(t) /\ txn[t].row.link = txn[t].link
             \/ Served(txn[t].dev, txn[t].row.link)
      BY <1>1, <2>1, Zenon DEF ServedInv
    <3> QED BY <1>8, <1>14, <1>16, <1>17, <3>2, <3>3, Zenon DEF ServedInv
  <2>2. CASE ~(txn[t].row.state = "live" /\ txn[t].row.settings # Unset)
    BY <1>8, <2>2, Zenon DEF ServedInv
  <2> QED BY <2>1, <2>2
<1>30. LeftInv(t)'
  <2>1. ~At(t, "disable")'
    BY <1>8 DEF At
  <2>2. ASSUME NEW k \in Rows(t)', NEW d \in Device, d # txn'[t].dev,
               Served(d, k)'
        PROVE  /\ txn'[t].rows[k].enabled
               /\ txn'[t].rows[k].settings = device'[d].settings
    <3>1. d # txn[t].dev /\ Served(d, k)
      BY <1>16, <1>17, <2>2, Zenon
    <3>2. k # l
      BY <1>6, <3>1, Zenon DEF NoneElse
    <3>3. k \in Rows(t)
      BY <1>8, <3>2
    <3>4. txn[t].rows[k].enabled /\ txn[t].rows[k].settings = device[d].settings
      BY <1>1, <3>1, <3>3, Zenon DEF LeftInv
    <3> QED BY <1>8, <1>11, <3>2, <3>3, <3>4, Zenon
  <2> QED BY <2>1, <2>2, Zenon DEF LeftInv
<1>31. TxnInv(t)'
  BY <1>19, <1>20, <1>21, <1>22, <1>23, <1>24, <1>25, <1>26, <1>27, <1>28,
     <1>29, <1>30 DEF TxnInv
<1> QED BY <1>10, <1>11, <1>12, <1>16, <1>31, OneMoves, Zenon

----------------------------------------------------------------------------
(* The steps of the other requests.                                         *)

LEMMA WriteLinkKeeps ==
  ASSUME CatalogInv, NEW t \in Txn, WriteLink(t)
  PROVE  CatalogInv'
<1>l. PICK l : l = txn[t].link
  OBVIOUS
<1>r. PICK r : r = IF txn[t].op = "drop" THEN [link[l] EXCEPT !.state = "deleted"]
                   ELSE [link[l] EXCEPT !.enabled = ~@]
  OBVIOUS
<1>1. /\ CatalogTypeOK /\ LocksExclude /\ TxnInv(t) /\ DeviceInv
      /\ RequestInv(t) /\ StageInv(t) /\ RowsInv(t) /\ ChannelInv(t)
  BY InvOf, Zenon
<1>2. /\ At(t, "row") /\ Take(t, {<<"link", l>>})
      /\ IF link[l].state = "live"
         THEN /\ GuardChannel(t, l, r)
              /\ txn' = [txn EXCEPT ![t] = [Write(t, l, r) EXCEPT !.stage = "commit"]]
         ELSE Goto(t, "commit")
      /\ Committed
  BY <1>l, <1>r, Zenon DEF WriteLink
<1>3. /\ txn[t].op \in {"toggle", "drop"} /\ Rows(t) = {} /\ l \in Collector
      /\ l \in Link /\ l \notin Endpoint
      /\ ~OnDevice(t) /\ ~Wrote(t) /\ ~ConfiguresEndpoint(t)
      /\ txn[t].dev = Unset /\ txn[t].row = NoRow
  <2>1. txn[t].op \in {"toggle", "drop"} /\ Rows(t) = {}
    BY <1>1, <1>2 DEF StageInv, RowsInv, At
  <2>2. ~OnDevice(t) /\ txn[t].op \in LinkOps
    BY <2>1 DEF OnDevice, DeviceOps, LinkOps
  <2> QED BY <1>1, <1>l, <2>1, <2>2, CatalogNames
          DEF RequestInv, ConfiguresEndpoint, Wrote
<1>4. /\ link[l] \in LinkRow /\ Row(t, l) = link[l]
      /\ link[l].state # "absent"
  <2>1. link[l] \in LinkRow /\ Row(t, l) = link[l]
    BY <1>1, <1>3, RowIsTyped
  <2>2. link[l].state # "absent"
    BY <1>1, <1>3, <1>l, Zenon DEF ChannelInv
  <2> QED BY <2>1, <2>2
<1>5. r \in LinkRow /\ r.state # "absent"
  <2>1. CASE txn[t].op = "drop"
    BY <1>4, <1>r, <2>1 DEF LinkRow
  <2>2. CASE txn[t].op # "drop"
    <3>1. r = [link[l] EXCEPT !.enabled = ~link[l].enabled]
      BY <1>r, <2>2
    <3>2. r \in LinkRow
      BY <1>4, <3>1 DEF LinkRow
    <3>3. r.state = link[l].state
      BY <1>4, <3>1 DEF LinkRow
    <3> QED BY <1>4, <3>2, <3>3
  <2> QED BY <2>1, <2>2
<1>6. "commit" \in Stages
  BY DEF Stages
<1>7. /\ txn'[t] \in TxnRow /\ txn'[t].stage = "commit" /\ SameRequest(t)
      /\ txn'[t].row = txn[t].row /\ DOMAIN txn' = Txn
      /\ \A u \in Txn : u # t => txn'[u] = txn[u]
      /\ \/ Rows(t)' = {} /\ txn'[t].rows = txn[t].rows
         \/ /\ Rows(t)' = {l} /\ txn'[t].rows[l] = r
            /\ GuardChannel(t, l, r)
  <2>1. CASE link[l].state = "live"
    <3>1. Writes(t, l, r, "commit")
      BY <1>2, <2>1 DEF Writes
    <3>2. RowWritten(t, l, r, "commit")
      BY <1>1, <1>3, <1>5, <1>6, <3>1, WriteIs, Zenon
    <3> QED BY <1>2, <1>3, <2>1, <3>2 DEF RowWritten
  <2>2. CASE link[l].state # "live"
    <3>1. Goto(t, "commit")
      BY <1>2, <2>2, Zenon
    <3>2. /\ txn'[t] \in TxnRow /\ txn'[t].stage = "commit" /\ SameRequest(t)
          /\ txn'[t].rows = txn[t].rows /\ txn'[t].row = txn[t].row
          /\ DOMAIN txn' = Txn
          /\ \A u \in Txn : u # t => txn'[u] = txn[u]
      BY <1>1, <1>6, <3>1, GotoIs, Zenon
    <3>3. Rows(t)' = {}
      BY <1>3, <3>2, Zenon DEF Rows
    <3> QED BY <3>2, <3>3, Zenon
  <2> QED BY <2>1, <2>2
<1>8. {<<"link", l>>} \in SUBSET Lock
  BY <1>3 DEF Lock
<1>9. /\ held'[t] = held[t] \cup {<<"link", l>>}
      /\ held' \in [Txn -> SUBSET Lock] /\ LocksExclude'
      /\ \A u \in Txn : u # t => held'[u] = held[u]
  BY <1>1, <1>2, <1>8, TakeIs, Zenon
<1>10. Alone(t) /\ link' = link /\ device' = device
  BY <1>2, <1>7, <1>9, Zenon DEF Alone, Committed
<1>11. CatalogTypeOK'
  BY <1>1, <1>7, <1>9, <1>10, TypeStays, Zenon
<1>12. /\ \A k : k # l =>
            (<<"link", k>> \in held'[t] <=> <<"link", k>> \in held[t])
       /\ \A k : <<"share", k>> \in held'[t] <=> <<"share", k>> \in held[t]
       /\ <<"link", l>> \in held'[t]
  BY <1>9
<1>13. /\ ~OnDevice(t)' /\ ~Wrote(t)' /\ ~ConfiguresEndpoint(t)'
  BY <1>3, <1>7, SameMeans, Zenon DEF Wrote
<1>14. /\ txn'[t].link = l /\ txn'[t].op = txn[t].op
       /\ txn'[t].dev = Unset /\ txn'[t].row = NoRow
       /\ txn'[t].protocol = Unset
       /\ txn[t].op # "idle" /\ txn[t].op \in LinkOps /\ txn[t].op # "model"
       /\ txn[t].op \notin {"create", "update", "remove"}
       /\ txn[t].op # "create" /\ txn[t].op # "link"
  <2>1. txn'[t].link = l /\ txn'[t].op = txn[t].op
        /\ txn'[t].dev = Unset /\ txn'[t].row = NoRow
        /\ txn'[t].protocol = Unset
    BY <1>3, <1>7, <1>l, Zenon DEF SameRequest, ConfiguresEndpoint
  <2> QED BY <1>3, <2>1 DEF LinkOps
<1>15. /\ \A k : Attached(k)' = Attached(k)
       /\ \A d, k : Served(d, k)' = Served(d, k)
  BY <1>10, WorldMeans, Zenon
<1>16. \A k \in Rows(t)' : k = l /\ txn'[t].rows[k] = r /\ GuardChannel(t, l, r)
  BY <1>7
<1>17. RequestInv(t)'
  BY <1>1, <1>3, <1>13, <1>14, Zenon DEF RequestInv
<1>18. StageInv(t)'
  BY <1>7, <1>13 DEF StageInv, DeviceStages
<1>19. RowsInv(t)'
  <2>1. Rows(t)' \subseteq {txn'[t].link}
    BY <1>14, <1>16
  <2>2. txn'[t].stage \notin {"nodes", "endpoint", "configure", "row",
                              "validate", "write"}
    BY <1>7
  <2> QED BY <1>5, <1>12, <1>13, <1>14, <1>16, <2>1, <2>2, Zenon DEF RowsInv
<1>20. WroteInv(t)'
  BY <1>13, Zenon DEF WroteInv
<1>21. ChannelInv(t)'
  BY <1>1, <1>4, <1>10, <1>12, <1>14, Zenon DEF ChannelInv
<1>22. NodeInv(t)'
  <2>1. ~At(t, "nodes")'
    BY <1>7 DEF At
  <2> QED BY <1>13, <2>1, Zenon DEF NodeInv
<1>23. OwnerInv(t)'
  BY <1>14, Zenon DEF OwnerInv
<1>24. GuardInv(t)'
  <2> SUFFICES ASSUME NEW k \in Rows(t)', Attached(k) # {}
               PROVE  /\ txn'[t].rows[k].protocol = link[k].protocol
                      /\ txn'[t].rows[k].state = link[k].state
    BY <1>10, <1>15, Zenon DEF GuardInv
  <2>1. k = l /\ txn'[t].rows[k] = r /\ GuardChannel(t, l, r)
    BY <1>16
  <2> QED BY <1>4, <2>1, Zenon DEF GuardChannel
<1>25. BoundInv(t)' /\ ServedInv(t)'
  <2>1. txn'[t].row.state # "live"
    BY <1>14 DEF NoRow
  <2> QED BY <2>1, Zenon DEF BoundInv, ServedInv
<1>26. FormInv(t)'
  <2>1. ~At(t, "configure")' /\ txn'[t].stage \notin {"validate", "write"}
    BY <1>7 DEF At
  <2> QED BY <2>1, Zenon DEF FormInv
<1>27. LeftInv(t)'
  <2>1. ~At(t, "disable")'
    BY <1>7 DEF At
  <2>2. \A d \in Device : ~Served(d, l)
    BY <1>1, <1>3, Zenon DEF DeviceInv, Served
  <2> QED BY <1>15, <1>16, <2>1, <2>2, Zenon DEF LeftInv
<1>28. TxnInv(t)'
  BY <1>17, <1>18, <1>19, <1>20, <1>21, <1>22, <1>23, <1>24, <1>25, <1>26,
     <1>27 DEF TxnInv
<1>29. txn'[t].dev = txn[t].dev
  BY <1>3, <1>14
<1> QED BY <1>9, <1>10, <1>11, <1>28, <1>29, OneMoves, Zenon

LEMMA IdleIs ==
  /\ Idle \in TxnRow /\ Idle.row = NoRow /\ DOMAIN Idle.rows = {}
  /\ Idle.op = "idle" /\ Idle.dev = Unset /\ Idle.link = Unset
  /\ Idle.model = Unset /\ Idle.protocol = Unset /\ Idle.settings = Unset
  /\ Idle.prior = Unset /\ Idle.priorModel = Unset /\ Idle.stage = "idle"
<1>1. NoRow \in DeviceRow
  BY DEF NoRow, DeviceRow
<1>2. <<>> \in [{} -> LinkRow]
  OBVIOUS
<1>3. <<>> \in UNION {[S -> LinkRow] : S \in SUBSET Link}
  BY <1>2
<1>4. /\ Idle.row = NoRow /\ Idle.rows = <<>> /\ Idle.op = "idle"
      /\ Idle.dev = Unset /\ Idle.link = Unset
      /\ Idle.model = Unset /\ Idle.protocol = Unset /\ Idle.settings = Unset
      /\ Idle.prior = Unset /\ Idle.priorModel = Unset /\ Idle.stage = "idle"
  BY DEF Idle
<1>5. Idle \in TxnRow
  BY <1>1, <1>3 DEF Idle, TxnRow
<1> QED BY <1>4, <1>5

\* A request that has written nothing yet, and one that has just ended.
LEMMA NothingWritten ==
  ASSUME NEW t \in Txn, Rows(t)' = {}, txn'[t].row = NoRow, held'[t] = {},
         txn'[t].stage \in {"idle", "nodes", "row", "commit"},
         OnDevice(t)' => txn'[t].stage = "nodes",
         RequestInv(t)', StageInv(t)', ChannelInv(t)', OwnerInv(t)'
  PROVE  TxnInv(t)'
<1>1. txn'[t].row.state # "live" /\ ~Wrote(t)'
  BY DEF NoRow, Wrote
<1>2. /\ ~At(t, "configure")' /\ ~At(t, "disable")'
      /\ txn'[t].stage \notin {"validate", "write"}
  BY DEF At
<1>3. RowsInv(t)'
  BY <1>2, Zenon DEF RowsInv
<1>4. WroteInv(t)' /\ BoundInv(t)' /\ ServedInv(t)' /\ GuardInv(t)'
  BY <1>1, Zenon DEF WroteInv, BoundInv, ServedInv, GuardInv
<1>5. FormInv(t)' /\ LeftInv(t)'
  BY <1>2, Zenon DEF FormInv, LeftInv
<1>6. NodeInv(t)'
  BY Zenon DEF NodeInv, At
<1> QED BY <1>3, <1>4, <1>5, <1>6 DEF TxnInv

\* A step that takes no lock, or gives all back.
LEMMA NoNewLocks ==
  ASSUME LocksExclude, NEW t \in Txn, held'[t] = {} \/ held'[t] = held[t],
         \A u \in Txn : u # t => held'[u] = held[u]
  PROVE  LocksExclude'
<1>1. \A u \in Txn : held'[u] \subseteq held[u]
  OBVIOUS
<1> QED BY <1>1, Zenon DEF LocksExclude

LEMMA BeginDeviceKeeps ==
  ASSUME CatalogInv, NEW t \in Txn, NEW op \in DeviceOps, NEW d \in Device,
         NEW form \in Unchanged \cup ByLink \cup ByEndpoint,
         NEW m \in Model \cup {Unset},
         op = "create" => device[d].state = "absent" /\ form.link # Unset,
         op # "create" => Live(d),
         op = "remove" => form.protocol = Unset,
         op = "create" => \A u \in Txn : txn[u].dev # d,
         BeginDevice(t, op, d, form, m)
  PROVE  CatalogInv'
<1>v. PICK v : v = [Idle EXCEPT !.op = op, !.dev = d, !.link = form.link,
                      !.model = m, !.protocol = form.protocol,
                      !.settings = form.settings, !.prior = device[d].link,
                      !.priorModel = device[d].model, !.stage = "nodes"]
  OBVIOUS
<1>1. /\ CatalogTypeOK /\ LocksExclude /\ ChannelsMatch /\ DeviceInv
      /\ TxnInv(t) /\ RequestInv(t)
  BY InvOf, Zenon
<1>2. /\ txn[t].op = "idle" /\ requests < MaxRequests
      /\ requests' = requests + 1 /\ txn' = [txn EXCEPT ![t] = v]
      /\ link' = link /\ model' = model /\ device' = device /\ held' = held
  BY <1>v, Zenon DEF BeginDevice, Request
<1>3. device[d] \in DeviceRow
  BY <1>1 DEF CatalogTypeOK
<1>4. /\ form.link \in Link \cup {Unset} /\ form.protocol \in Protocol \cup {Unset}
      /\ form.settings \in Settings \cup {Unset}
      /\ form.protocol # Unset => form.link \in Endpoint /\ form.settings \in Settings
  <2>1. CASE form \in Unchanged
    BY <2>1 DEF Unchanged
  <2>2. CASE form \in ByLink
    BY <2>2 DEF ByLink
  <2>3. CASE form \in ByEndpoint
    BY <2>3, CatalogNames DEF ByEndpoint
  <2> QED BY <2>1, <2>2, <2>3
<1>5. device[d].link \in Link \cup {Unset} /\ device[d].model \in Model \cup {Unset}
  BY <1>3 DEF DeviceRow
<1>6. /\ v.op = op /\ v.dev = d /\ v.link = form.link /\ v.model = m
      /\ v.protocol = form.protocol /\ v.settings = form.settings
      /\ v.prior = device[d].link /\ v.priorModel = device[d].model
      /\ v.stage = "nodes" /\ v.rows = <<>> /\ v.row = NoRow
  BY <1>v DEF Idle
<1>7. v \in TxnRow
  <2>1. NoRow \in DeviceRow
    BY DEF NoRow, DeviceRow
  <2>2. <<>> \in [{} -> LinkRow]
    OBVIOUS
  <2>3. <<>> \in UNION {[S -> LinkRow] : S \in SUBSET Link}
    BY <2>2
  <2>4. v = [op |-> op, dev |-> d, link |-> form.link, model |-> m,
             protocol |-> form.protocol, settings |-> form.settings,
             prior |-> device[d].link, priorModel |-> device[d].model,
             stage |-> "nodes", rows |-> <<>>, row |-> NoRow]
    BY <1>v DEF Idle
  <2> QED BY <1>4, <1>5, <2>1, <2>3, <2>4 DEF TxnRow, DeviceOps
<1>8. /\ txn'[t] = v /\ DOMAIN txn' = Txn
      /\ \A u \in Txn : u # t => txn'[u] = txn[u]
  BY <1>1, <1>2, SetTxn
<1>9. held'[t] = {}
  BY <1>1, <1>2, Zenon DEF RequestInv
<1>10. Rows(t)' = {} /\ txn'[t].row = NoRow /\ txn'[t].stage = "nodes"
  BY <1>6, <1>8 DEF Rows
<1>11. CatalogTypeOK'
  <2>1. requests' \in 0..MaxRequests
    BY <1>1, <1>2, CatalogConstants DEF CatalogTypeOK
  <2>2. \A u \in Txn : txn'[u] \in TxnRow
    BY <1>1, <1>7, <1>8, Zenon DEF CatalogTypeOK
  <2> QED BY <1>1, <1>2, <1>8, <2>1, <2>2, Zenon DEF CatalogTypeOK
<1>12. LocksExclude'
  BY <1>1, <1>2, Zenon DEF LocksExclude
<1>13. /\ OnDevice(t)' /\ op # "idle" /\ op \notin LinkOps /\ op # "link"
       /\ op \notin {"toggle", "drop"}
       /\ op = "create" \/ op = "update" \/ op = "remove"
  <2>1. op = "create" \/ op = "update" \/ op = "remove"
    BY DEF DeviceOps
  <2> QED BY <1>6, <1>8, <2>1 DEF OnDevice, DeviceOps, LinkOps
<1>14. op # "create" => /\ device[d].state = "live"
                        /\ device[d].link \in Link
                        /\ link[device[d].link].state = "live"
  <2>1. Live(d) => device[d].state # "absent" /\ device[d].state = "live"
    BY DEF Live
  <2> QED BY <1>1, <2>1, Zenon DEF DeviceInv, ChannelsMatch
<1>15. RequestInv(t)'
  <2>1. ConfiguresEndpoint(t)' =>
          /\ form.link \in Endpoint /\ form.settings \in Settings
          /\ op \in {"create", "update"}
    BY <1>4, <1>6, <1>8, <1>13 DEF ConfiguresEndpoint
  <2> QED BY <1>4, <1>6, <1>8, <1>13, <1>14, <2>1 DEF RequestInv
<1>16. StageInv(t)'
  BY <1>10, <1>13 DEF StageInv, DeviceStages, Wrote
<1>17. ChannelInv(t)'
  <2>1. txn'[t].prior = device[d].link /\ txn'[t].op = op
    BY <1>6, <1>8
  <2> QED BY <1>2, <1>9, <1>13, <1>14, <2>1 DEF ChannelInv
<1>18. OwnerInv(t)'
  <2>1. op = "create" => device[d] = NoRow
    BY <1>1, Zenon DEF DeviceInv
  <2>2. op # "create" => device[d].state # "absent"
    BY <1>14
  <2>3. txn'[t].dev = d /\ txn'[t].op = op
    BY <1>6, <1>8
  <2>4. op = "create" => \A u \in Txn : u # t => txn'[u].dev # d
    BY <1>8, Zenon
  <2>5. op \in {"update", "remove"} => op # "create"
    OBVIOUS
  <2> QED BY <1>2, <2>1, <2>2, <2>3, <2>4, <2>5, Zenon DEF OwnerInv
<1>19. TxnInv(t)'
  BY <1>9, <1>10, <1>15, <1>16, <1>17, <1>18, NothingWritten
<1>20. ASSUME NEW u \in Txn, u # t, txn[u].op = "create"
       PROVE  txn'[t].dev # txn[u].dev
  <2>1. device[txn[u].dev] = NoRow
    BY <1>20, Zenon DEF CatalogInv, TxnInv, OwnerInv
  <2>2. device[d] = NoRow => device[d].state = "absent"
    BY DEF NoRow
  <2>3. op # "create" => device[d] # NoRow
    BY <1>14, <2>2
  <2> QED BY <1>6, <1>8, <2>1, <2>3, Zenon
<1> QED BY <1>2, <1>8, <1>11, <1>12, <1>19, <1>20, OneOnly, Zenon

LEMMA DeviceRequestsKeep ==
  ASSUME CatalogInv, NEW t \in Txn,
         CreateDevice(t) \/ UpdateDevice(t) \/ RemoveDevice(t)
  PROVE  CatalogInv'
<1>1. CASE CreateDevice(t)
  <2>1. PICK d \in Device, form \in ByLink \cup ByEndpoint, m \in Model :
          /\ device[d].state = "absent"
          /\ \A u \in Txn : txn[u].dev # d
          /\ BeginDevice(t, "create", d, form, m)
    BY <1>1, Zenon DEF CreateDevice
  <2>2. form.link # Unset
    BY CatalogNames DEF ByLink, ByEndpoint
  <2>3. /\ "create" \in DeviceOps /\ "create" # "remove"
        /\ form \in Unchanged \cup ByLink \cup ByEndpoint
        /\ m \in Model \cup {Unset}
    BY DEF DeviceOps
  <2> QED BY <2>1, <2>2, <2>3, BeginDeviceKeeps, Zenon
<1>2. CASE UpdateDevice(t)
  <2>1. PICK d \in Device, form \in Unchanged \cup ByLink \cup ByEndpoint,
             m \in Model \cup {Unset} :
          Live(d) /\ BeginDevice(t, "update", d, form, m)
    BY <1>2, Zenon DEF UpdateDevice
  <2>2. "update" \in DeviceOps /\ "update" # "remove" /\ "update" # "create"
    BY DEF DeviceOps
  <2> QED BY <2>1, <2>2, BeginDeviceKeeps, Zenon
<1>3. CASE RemoveDevice(t)
  <2>1. PICK d \in Device, form \in Unchanged :
          Live(d) /\ BeginDevice(t, "remove", d, form, Unset)
    BY <1>3, Zenon DEF RemoveDevice
  <2>2. /\ "remove" \in DeviceOps /\ "remove" # "create"
        /\ form \in Unchanged \cup ByLink \cup ByEndpoint
        /\ Unset \in Model \cup {Unset} /\ form.protocol = Unset
    BY DEF DeviceOps, Unchanged
  <2> QED BY <2>1, <2>2, BeginDeviceKeeps, Zenon
<1> QED BY <1>1, <1>2, <1>3

\* A request without a device, or that has ended.
LEMMA WithoutDevice ==
  ASSUME CatalogInv, NEW t \in Txn, NEW v \in TxnRow,
         txn' = [txn EXCEPT ![t] = v], held'[t] = {},
         \A u \in Txn : u # t => held'[u] = held[u],
         held' \in [Txn -> SUBSET Lock],
         link' = link, model' = model, device' = device,
         requests' \in 0..MaxRequests,
         v.op \in {"idle", "toggle", "drop", "model"},
         v.op = "idle" => v = Idle,
         v.dev = Unset, v.row = NoRow, v.protocol = Unset, DOMAIN v.rows = {},
         v.stage = IF v.op = "idle" THEN "idle"
                   ELSE IF v.op = "model" THEN "commit" ELSE "row",
         v.op \in {"toggle", "drop"} =>
           v.link \in Collector /\ link[v.link].state # "absent"
  PROVE  CatalogInv'
<1>1. CatalogTypeOK /\ LocksExclude
  BY InvOf, Zenon
<1>2. /\ txn'[t] = v /\ DOMAIN txn' = Txn
      /\ \A u \in Txn : u # t => txn'[u] = txn[u]
  BY <1>1, SetTxn
<1>3. CatalogTypeOK'
  <2>1. \A u \in Txn : txn'[u] \in TxnRow
    BY <1>1, <1>2, Zenon DEF CatalogTypeOK
  <2> QED BY <1>1, <1>2, <2>1, Zenon DEF CatalogTypeOK
<1>4. LocksExclude'
  BY <1>1, NoNewLocks, Zenon
<1>5. /\ ~OnDevice(t)' /\ ~ConfiguresEndpoint(t)' /\ ~Wrote(t)' /\ Rows(t)' = {}
      /\ v.op # "create" /\ v.op \notin {"create", "update", "remove"}
      /\ v.op \in LinkOps => v.op \in {"toggle", "drop"}
  BY <1>2 DEF OnDevice, ConfiguresEndpoint, Wrote, Rows, DeviceOps, LinkOps
<1>6. RequestInv(t)'
  <2>1. v.op \notin {"update", "remove"}
    BY <1>5
  <2> QED BY <1>2, <1>5, <2>1, Zenon DEF RequestInv
<1>7. /\ txn'[t].stage \in {"idle", "row", "commit"}
      /\ txn'[t].stage = "idle" => v.op = "idle"
      /\ txn'[t].stage = "row" => v.op \in {"toggle", "drop"}
  BY <1>2
<1>8. StageInv(t)'
  BY <1>2, <1>5, <1>7 DEF StageInv, DeviceStages
<1>9. ChannelInv(t)'
  BY <1>2, <1>5 DEF ChannelInv
<1>10. OwnerInv(t)'
  BY <1>2, <1>5 DEF OwnerInv
<1>11. TxnInv(t)'
  BY <1>2, <1>5, <1>6, <1>7, <1>8, <1>9, <1>10, NothingWritten
<1>12. ASSUME NEW u \in Txn, u # t, txn[u].op = "create"
       PROVE  txn'[t].dev # txn[u].dev
  <2>1. txn[u].dev \in Device
    BY <1>12 DEF CatalogInv, TxnInv, RequestInv, OnDevice, DeviceOps
  <2> QED BY <1>2, <2>1, CatalogNames
<1> QED BY <1>2, <1>3, <1>4, <1>11, <1>12, OneOnly, Zenon

LEMMA OtherRequestsKeep ==
  ASSUME CatalogInv, NEW t \in Txn,
         UpdateLink(t) \/ RemoveLink(t) \/ RemoveModel(t)
  PROVE  CatalogInv'
<1>1. PICK op \in {"toggle", "drop", "model"}, l \in Link \cup {Unset},
           m \in Model \cup {Unset}, s \in Stages :
        /\ BeginOther(t, op, l, m, s)
        /\ s = IF op = "model" THEN "commit" ELSE "row"
        /\ op \in {"toggle", "drop"} => l \in Collector /\ link[l].state = "live"
  <2>1. "row" \in Stages /\ "commit" \in Stages
    BY DEF Stages
  <2>2. CASE UpdateLink(t)
    <3>1. PICK l \in Collector :
            link[l].state = "live" /\ BeginOther(t, "toggle", l, Unset, "row")
      BY <2>2, Zenon DEF UpdateLink
    <3> QED BY <2>1, <3>1, CatalogNames
  <2>3. CASE RemoveLink(t)
    <3>1. PICK l \in Collector :
            link[l].state = "live" /\ BeginOther(t, "drop", l, Unset, "row")
      BY <2>3, Zenon DEF RemoveLink
    <3> QED BY <2>1, <3>1, CatalogNames
  <2>4. CASE RemoveModel(t)
    <3>1. PICK m \in model : BeginOther(t, "model", Unset, m, "commit")
      BY <2>4, Zenon DEF RemoveModel
    <3>2. m \in Model
      BY InvOf, <3>1 DEF CatalogTypeOK
    <3> QED BY <2>1, <3>1, <3>2
  <2> QED BY <2>2, <2>3, <2>4
<1>2. PICK v : v = [op |-> op, dev |-> Unset, link |-> l, model |-> m,
                    protocol |-> Unset, settings |-> Unset,
                    prior |-> Unset, priorModel |-> Unset,
                    stage |-> s, rows |-> <<>>, row |-> NoRow]
  OBVIOUS
<1>3. /\ v \in TxnRow /\ v.op = op /\ v.link = l /\ v.stage = s
      /\ v.dev = Unset /\ v.row = NoRow /\ v.protocol = Unset
      /\ DOMAIN v.rows = {}
  <2>1. NoRow \in DeviceRow
    BY DEF NoRow, DeviceRow
  <2>2. <<>> \in [{} -> LinkRow]
    OBVIOUS
  <2>3. <<>> \in UNION {[S -> LinkRow] : S \in SUBSET Link}
    BY <2>2
  <2>4. v \in TxnRow
    BY <1>2, <2>1, <2>3 DEF TxnRow, Stages, DeviceStages
  <2> QED BY <1>2, <2>4
<1>v. v = [Idle EXCEPT !.op = op, !.link = l, !.model = m, !.stage = s]
  <2>1. PICK w : w = [Idle EXCEPT !.op = op, !.link = l, !.model = m, !.stage = s]
    OBVIOUS
  <2>2. w = [op |-> op, dev |-> Unset, link |-> l, model |-> m,
             protocol |-> Unset, settings |-> Unset,
             prior |-> Unset, priorModel |-> Unset,
             stage |-> s, rows |-> <<>>, row |-> NoRow]
    BY <2>1 DEF Idle
  <2> QED BY <1>2, <2>1, <2>2, Zenon
<1>4. /\ txn[t].op = "idle" /\ requests < MaxRequests
      /\ requests' = requests + 1 /\ txn' = [txn EXCEPT ![t] = v]
      /\ link' = link /\ model' = model /\ device' = device /\ held' = held
  BY <1>1, <1>v, Zenon DEF BeginOther, Request
<1>5. CatalogTypeOK /\ RequestInv(t)
  BY InvOf, Zenon
<1>6. held'[t] = {} /\ held' \in [Txn -> SUBSET Lock]
      /\ \A u \in Txn : u # t => held'[u] = held[u]
  BY <1>4, <1>5, Zenon DEF RequestInv, CatalogTypeOK
<1>7. requests' \in 0..MaxRequests
  BY <1>4, <1>5, CatalogConstants DEF CatalogTypeOK
<1>8. /\ v.op \in {"idle", "toggle", "drop", "model"} /\ v.op # "idle"
      /\ v.stage = IF v.op = "idle" THEN "idle"
                   ELSE IF v.op = "model" THEN "commit" ELSE "row"
      /\ v.op \in {"toggle", "drop"} =>
           v.link \in Collector /\ link[v.link].state # "absent"
  BY <1>1, <1>3
<1> QED BY <1>3, <1>4, <1>6, <1>7, <1>8, WithoutDevice

LEMMA EndIs ==
  ASSUME CatalogTypeOK, NEW t \in Txn, End(t)
  PROVE  /\ txn' = [txn EXCEPT ![t] = Idle] /\ held'[t] = {}
         /\ held' \in [Txn -> SUBSET Lock]
         /\ \A u \in Txn : u # t => held'[u] = held[u]
<1>1. held' = [held EXCEPT ![t] = {}] /\ txn' = [txn EXCEPT ![t] = Idle]
  BY Zenon DEF End
<1>2. {} \subseteq Lock
  OBVIOUS
<1> QED BY <1>1, <1>2, SetHeld

LEMMA AbortKeeps ==
  ASSUME CatalogInv, NEW t \in Txn, Abort(t)
  PROVE  CatalogInv'
<1>1. CatalogTypeOK
  BY InvOf, Zenon
<1>2. /\ txn' = [txn EXCEPT ![t] = Idle] /\ held'[t] = {}
      /\ held' \in [Txn -> SUBSET Lock]
      /\ \A u \in Txn : u # t => held'[u] = held[u]
  BY <1>1, EndIs, Zenon DEF Abort
<1>3. link' = link /\ model' = model /\ device' = device /\ requests' = requests
  BY Zenon DEF Abort, Committed
<1>4. requests' \in 0..MaxRequests
  BY <1>1, <1>3, Zenon DEF CatalogTypeOK
<1> QED BY <1>2, <1>3, <1>4, IdleIs, WithoutDevice

LEMMA ConflictsWithLink ==
  ASSUME NEW l, NEW y \in Lock, Conflict(<<"link", l>>, y)
  PROVE  y = <<"link", l>> \/ y = <<"share", l>>
<1>1. /\ \/ "link" = y[1] /\ "link" # "share"
         \/ {"link", y[1]} = {"link", "share"}
      /\ l = y[2]
  BY DEF Conflict
<1>2. y[1] = "link" \/ y[1] = "share"
  BY <1>1
<1>3. y = <<y[1], y[2]>>
  BY DEF Lock
<1> QED BY <1>1, <1>2, <1>3

LEMMA CreateLinkKeeps ==
  ASSUME CatalogInv, NEW t \in Txn, CreateLink(t)
  PROVE  CatalogInv'
<1>1. PICK l \in Collector, p \in Protocol, on \in BOOLEAN :
        /\ link[l].state = "absent"
        /\ \A u \in Txn : txn[u].link # l \/ txn[u].op # "link"
        /\ Request(t)
        /\ txn' = [txn EXCEPT ![t] =
             [Idle EXCEPT !.op = "link", !.link = l, !.stage = "commit",
                !.rows = [k \in {l} |->
                   [state |-> "live", enabled |-> on, protocol |-> p,
                    settings |-> Unset]]]]
        /\ held' = [held EXCEPT ![t] = {<<"link", l>>}]
        /\ UNCHANGED <<link, model, device>>
  BY Zenon DEF CreateLink
<1>2. PICK r : r = [state |-> "live", enabled |-> on, protocol |-> p,
                    settings |-> Unset]
  OBVIOUS
<1>3. r \in LinkRow /\ r.state = "live"
  BY <1>2 DEF LinkRow
<1>4. PICK m : m = [k \in {l} |-> r]
  OBVIOUS
<1>5. /\ l \in Link /\ DOMAIN m = {l} /\ m[l] = r
      /\ m \in UNION {[S -> LinkRow] : S \in SUBSET Link}
  <2>1. l \in Link
    BY CatalogNames
  <2>2. {l} \in SUBSET Link /\ m \in [{l} -> LinkRow]
    BY <1>3, <1>4, <2>1
  <2>3. m \in UNION {[S -> LinkRow] : S \in SUBSET Link}
    BY <2>2
  <2> QED BY <1>4, <2>1, <2>3
<1>6. PICK v : v = [op |-> "link", dev |-> Unset, link |-> l, model |-> Unset,
                    protocol |-> Unset, settings |-> Unset,
                    prior |-> Unset, priorModel |-> Unset,
                    stage |-> "commit", rows |-> m, row |-> NoRow]
  OBVIOUS
<1>7. /\ v \in TxnRow /\ v.op = "link" /\ v.link = l /\ v.stage = "commit"
      /\ v.dev = Unset /\ v.row = NoRow /\ v.protocol = Unset /\ v.rows = m
  <2>1. NoRow \in DeviceRow
    BY DEF NoRow, DeviceRow
  <2>2. v \in TxnRow
    BY <1>5, <1>6, <2>1 DEF TxnRow
  <2> QED BY <1>6, <2>2
<1>8. txn' = [txn EXCEPT ![t] = v]
  <2>1. PICK w : w = [Idle EXCEPT !.op = "link", !.link = l,
                        !.stage = "commit", !.rows = m]
    OBVIOUS
  <2>2. w = [op |-> "link", dev |-> Unset, link |-> l, model |-> Unset,
             protocol |-> Unset, settings |-> Unset,
             prior |-> Unset, priorModel |-> Unset,
             stage |-> "commit", rows |-> m, row |-> NoRow]
    BY <2>1 DEF Idle
  <2>3. txn' = [txn EXCEPT ![t] = w]
    BY <1>1, <1>2, <1>4, <2>1, Zenon
  <2> QED BY <1>6, <2>2, <2>3, Zenon
<1>9. /\ CatalogTypeOK /\ LocksExclude /\ ChannelsMatch /\ RequestInv(t)
  BY InvOf, Zenon
<1>10. /\ txn[t].op = "idle" /\ requests < MaxRequests
       /\ requests' = requests + 1
       /\ link' = link /\ model' = model /\ device' = device
  BY <1>1, Zenon DEF Request
<1>11. /\ txn'[t] = v /\ DOMAIN txn' = Txn
       /\ \A u \in Txn : u # t => txn'[u] = txn[u]
  BY <1>8, <1>9, SetTxn
<1>12. /\ held'[t] = {<<"link", l>>} /\ held' \in [Txn -> SUBSET Lock]
       /\ \A u \in Txn : u # t => held'[u] = held[u]
  <2>1. {<<"link", l>>} \subseteq Lock
    BY <1>5 DEF Lock
  <2> QED BY <1>1, <1>9, <2>1, SetHeld
<1>13. CatalogTypeOK'
  <2>1. requests' \in 0..MaxRequests
    BY <1>9, <1>10, CatalogConstants DEF CatalogTypeOK
  <2>2. \A u \in Txn : txn'[u] \in TxnRow
    BY <1>7, <1>9, <1>11, Zenon DEF CatalogTypeOK
  <2> QED BY <1>9, <1>10, <1>11, <1>12, <2>1, <2>2, Zenon DEF CatalogTypeOK
<1>14. ASSUME NEW u \in Txn, u # t, NEW y \in held[u]
       PROVE  ~Conflict(<<"link", l>>, y) /\ ~Conflict(y, <<"link", l>>)
  <2>1. ChannelInv(u) /\ y \in Lock
    <3>1. ChannelInv(u)
      BY InvOf, Zenon
    <3>2. held[u] \subseteq Lock
      BY <1>9 DEF CatalogTypeOK
    <3> QED BY <1>14, <3>1, <3>2
  <2>2. <<"link", l>> \notin held[u] /\ <<"share", l>> \notin held[u]
    BY <1>1, <2>1, Zenon DEF ChannelInv
  <2>3. ~Conflict(<<"link", l>>, y)
    BY <1>14, <2>1, <2>2, ConflictsWithLink
  <2> QED BY <2>3, ConflictIsMutual, Zenon
<1>15. LocksExclude'
  <2> SUFFICES ASSUME NEW a \in Txn, NEW b \in Txn, a # b,
                      NEW x \in held'[a], NEW y \in held'[b]
               PROVE  ~Conflict(x, y)
    BY Zenon DEF LocksExclude
  <2>1. CASE a = t
    <3>1. x = <<"link", l>> /\ y \in held[b] /\ b # t
      BY <1>12, <2>1
    <3> QED BY <1>14, <3>1, Zenon
  <2>2. CASE b = t
    <3>1. y = <<"link", l>> /\ x \in held[a] /\ a # t
      BY <1>12, <2>2
    <3> QED BY <1>14, <3>1, Zenon
  <2>3. CASE a # t /\ b # t
    BY <1>9, <1>12, <2>3, Zenon DEF LocksExclude
  <2> QED BY <2>1, <2>2, <2>3
<1>16. /\ ~OnDevice(t)' /\ ~ConfiguresEndpoint(t)' /\ ~Wrote(t)'
       /\ Rows(t)' = {l} /\ txn'[t].rows[l] = r
       /\ txn'[t].row.state # "live" /\ txn'[t].stage = "commit"
       /\ txn'[t].op = "link" /\ txn'[t].link = l
       /\ txn'[t].row = NoRow /\ txn'[t].dev = Unset /\ txn'[t].protocol = Unset
  BY <1>5, <1>7, <1>11
     DEF OnDevice, ConfiguresEndpoint, Wrote, Rows, DeviceOps, NoRow
<1>17. \A d \in Device : ~Served(d, l) /\ d \notin Attached(l)
  BY <1>1, <1>9 DEF ChannelsMatch, Served, Attached
<1>18. RequestInv(t)'
  BY <1>16 DEF RequestInv
<1>19. StageInv(t)'
  BY <1>16 DEF StageInv, DeviceStages
<1>20. RowsInv(t)'
  BY <1>3, <1>12, <1>16 DEF RowsInv
<1>21. WroteInv(t)' /\ BoundInv(t)' /\ ServedInv(t)'
  BY <1>16, Zenon DEF WroteInv, BoundInv, ServedInv
<1>22. ChannelInv(t)'
  BY <1>12, <1>16 DEF ChannelInv
<1>23. NodeInv(t)' /\ OwnerInv(t)' /\ FormInv(t)'
  BY <1>16 DEF NodeInv, OwnerInv, FormInv, At
<1>24. GuardInv(t)'
  <2>1. Attached(l) = {}
    BY <1>17 DEF Attached
  <2>2. Attached(l)' = {}
    BY <1>10, <2>1, WorldMeans, Zenon
  <2> QED BY <1>16, <2>2 DEF GuardInv
<1>25. LeftInv(t)'
  <2>1. \A d \in Device : ~Served(d, l)'
    BY <1>10, <1>17, WorldMeans, Zenon
  <2>2. ~At(t, "disable")'
    BY <1>16 DEF At
  <2>3. \A k \in Rows(t)' : k = l
    BY <1>16
  <2> QED BY <2>1, <2>2, <2>3, Zenon DEF LeftInv
<1>26. TxnInv(t)'
  BY <1>18, <1>19, <1>20, <1>21, <1>22, <1>23, <1>24, <1>25 DEF TxnInv
<1>27. ASSUME NEW u \in Txn, u # t, txn[u].op = "create"
       PROVE  txn'[t].dev # txn[u].dev
  <2>1. txn[u].dev \in Device
    BY <1>27 DEF CatalogInv, TxnInv, RequestInv, OnDevice, DeviceOps
  <2> QED BY <1>16, <2>1, CatalogNames
<1> QED BY <1>10, <1>11, <1>12, <1>13, <1>15, <1>26, <1>27, OneOnly, Zenon

----------------------------------------------------------------------------
(* The end of a transaction, and what it changes under its locks.           *)

LEMMA CommitChanges ==
  ASSUME CatalogInv, NEW t \in Txn, Commit(t)
  PROVE  /\ \A l \in Link : link'[l] = Row(t, l)
         /\ \A l \in Link : l \notin Rows(t) => link'[l] = link[l]
         /\ \A l \in Link : l \in Rows(t) =>
              link'[l] = txn[t].rows[l] /\ <<"link", l>> \in held[t]
         /\ \A d \in Device :
              \/ device'[d] = device[d]
              \/ Wrote(t) /\ d = txn[t].dev /\ device'[d] = txn[t].row
         /\ Wrote(t) => device'[txn[t].dev] = txn[t].row /\ txn[t].dev \in Device
<1>1. /\ CatalogTypeOK /\ RequestInv(t) /\ RowsInv(t)
  BY InvOf, Zenon
<1>2. /\ link' = [l \in Link |-> Row(t, l)]
      /\ device' = IF txn[t].row = NoRow THEN device
                   ELSE [device EXCEPT ![txn[t].dev] = txn[t].row]
  BY Zenon DEF Commit
<1>3. \A l \in Link : link'[l] = Row(t, l)
  BY <1>2
<1>4. \A l \in Link : l \notin Rows(t) => link'[l] = link[l]
  BY <1>3, Zenon DEF Row, Rows
<1>5. \A l \in Link : l \in Rows(t) =>
        link'[l] = txn[t].rows[l] /\ <<"link", l>> \in held[t]
  BY <1>1, <1>3, Zenon DEF Row, Rows, RowsInv
<1>6. Wrote(t) => txn[t].dev \in Device
  BY <1>1, Zenon DEF RequestInv, Wrote
<1>7. device \in [Device -> DeviceRow]
  BY <1>1 DEF CatalogTypeOK
<1>8. Wrote(t) => device' = [device EXCEPT ![txn[t].dev] = txn[t].row]
  BY <1>2, Zenon DEF Wrote
<1>9. ~Wrote(t) => device' = device
  BY <1>2, Zenon DEF Wrote
<1>10. /\ \A d \in Device :
            \/ device'[d] = device[d]
            \/ Wrote(t) /\ d = txn[t].dev /\ device'[d] = txn[t].row
       /\ Wrote(t) => device'[txn[t].dev] = txn[t].row
  BY <1>6, <1>7, <1>8, <1>9
<1> QED BY <1>3, <1>4, <1>5, <1>6, <1>10, Zenon

LEMMA CommitTypes ==
  ASSUME CatalogInv, NEW t \in Txn, Commit(t)
  PROVE  CatalogTypeOK'
<1>1. CatalogTypeOK /\ RequestInv(t)
  BY InvOf, Zenon
<1>2. /\ link' = [l \in Link |-> Row(t, l)]
      /\ device' = IF txn[t].row = NoRow THEN device
                   ELSE [device EXCEPT ![txn[t].dev] = txn[t].row]
      /\ model' = IF txn[t].op = "model" THEN model \ {txn[t].model} ELSE model
      /\ End(t) /\ requests' = requests
  BY Zenon DEF Commit
<1>3. link' \in [Link -> LinkRow]
  <2>1. \A l \in Link : Row(t, l) \in LinkRow
    BY <1>1, RowIsTyped, Zenon
  <2> QED BY <1>2, <2>1
<1>4. device' \in [Device -> DeviceRow]
  <2>1. device \in [Device -> DeviceRow] /\ txn[t].row \in DeviceRow
    BY <1>1, TxnTypes, Zenon DEF CatalogTypeOK
  <2>2. CASE txn[t].row = NoRow
    BY <1>2, <2>1, <2>2
  <2>3. CASE txn[t].row # NoRow
    BY <1>2, <2>1, <2>3
  <2> QED BY <2>2, <2>3
<1>5. model' \in SUBSET Model /\ requests' \in 0..MaxRequests
  BY <1>1, <1>2 DEF CatalogTypeOK
<1>6. /\ txn' = [txn EXCEPT ![t] = Idle] /\ held' \in [Txn -> SUBSET Lock]
  BY <1>1, <1>2, EndIs, Zenon
<1>7. /\ txn'[t] = Idle /\ DOMAIN txn' = Txn
      /\ \A u \in Txn : u # t => txn'[u] = txn[u]
  BY <1>1, <1>6, SetTxn
<1>8. \A u \in Txn : txn'[u] \in TxnRow
  BY <1>1, <1>7, IdleIs, Zenon DEF CatalogTypeOK
<1> QED BY <1>3, <1>4, <1>5, <1>6, <1>7, <1>8, Zenon DEF CatalogTypeOK

\* Devices keep a channel that is there and has the protocol of their model,
\* and an endpoint that serves them.
LEMMA CommitKeepsDevices ==
  ASSUME CatalogInv, NEW t \in Txn, Commit(t)
  PROVE  ChannelsMatch' /\ EndpointServes' /\ DeviceInv'
<1>1. /\ ChannelsMatch /\ EndpointServes /\ DeviceInv
      /\ WroteInv(t) /\ GuardInv(t) /\ BoundInv(t) /\ ServedInv(t) /\ LeftInv(t)
  BY InvOf, Zenon
<1>2. /\ \A l \in Link : link'[l] = Row(t, l)
      /\ \A l \in Link : l \notin Rows(t) => link'[l] = link[l]
      /\ \A l \in Link : l \in Rows(t) => link'[l] = txn[t].rows[l]
      /\ \A d \in Device :
           \/ device'[d] = device[d]
           \/ Wrote(t) /\ d = txn[t].dev /\ device'[d] = txn[t].row
      /\ Wrote(t) => device'[txn[t].dev] = txn[t].row /\ txn[t].dev \in Device
  BY CommitChanges, Zenon
<1>3. DeviceInv'
  <2> SUFFICES ASSUME NEW d \in Device
               PROVE  /\ device'[d].state = "absent" => device'[d] = NoRow
                      /\ device'[d].state # "absent" => device'[d].link \in Link
                      /\ device'[d].settings # Unset =>
                           device'[d].link \in Endpoint
    BY Zenon DEF DeviceInv
  <2>1. CASE device'[d] = device[d]
    BY <1>1, <2>1, Zenon DEF DeviceInv
  <2>2. CASE Wrote(t) /\ device'[d] = txn[t].row
    BY <1>1, <2>2, Zenon DEF WroteInv
  <2> QED BY <1>2, <2>1, <2>2, Zenon
<1>4. ASSUME NEW d \in Device, Live(d), device'[d] = device[d]
      PROVE  /\ device[d].link \in Link
             /\ link'[device[d].link].state = "live"
             /\ link'[device[d].link].protocol = ProtocolOf[device[d].model]
  <2>1. device[d].link \in Link
    <3>1. device[d].state # "absent"
      BY <1>4 DEF Live
    <3> QED BY <1>1, <3>1, Zenon DEF DeviceInv
  <2>2. /\ link[device[d].link].state = "live"
        /\ link[device[d].link].protocol = ProtocolOf[device[d].model]
    BY <1>1, <1>4, Zenon DEF ChannelsMatch
  <2>3. CASE device[d].link \in Rows(t)
    <3>1. Attached(device[d].link) # {}
      BY <1>4 DEF Attached
    <3>2. /\ txn[t].rows[device[d].link].protocol = link[device[d].link].protocol
          /\ txn[t].rows[device[d].link].state = link[device[d].link].state
      BY <1>1, <2>3, <3>1, Zenon DEF GuardInv
    <3>3. link'[device[d].link] = txn[t].rows[device[d].link]
      BY <1>2, <2>1, <2>3, Zenon
    <3> QED BY <2>1, <2>2, <3>2, <3>3
  <2>4. CASE device[d].link \notin Rows(t)
    BY <1>2, <2>1, <2>2, <2>4, Zenon
  <2> QED BY <2>3, <2>4
<1>5. ASSUME Wrote(t), txn[t].row.state = "live"
      PROVE  /\ link'[txn[t].row.link].state = "live"
             /\ link'[txn[t].row.link].protocol = ProtocolOf[txn[t].row.model]
             /\ txn[t].row.settings # Unset =>
                  /\ link'[txn[t].row.link].enabled
                  /\ link'[txn[t].row.link].settings = txn[t].row.settings
  <2>1. txn[t].row.link \in Link
    BY <1>1, <1>5, Zenon DEF WroteInv
  <2>2. link'[txn[t].row.link] = Row(t, txn[t].row.link)
    BY <1>2, <2>1, Zenon
  <2> QED BY <1>1, <1>5, <2>2, Zenon DEF BoundInv, ServedInv
<1>6. ChannelsMatch'
  <2> SUFFICES ASSUME NEW d \in Device, Live(d)'
               PROVE  /\ link'[device'[d].link].state = "live"
                      /\ link'[device'[d].link].protocol
                           = ProtocolOf[device'[d].model]
    BY Zenon DEF ChannelsMatch
  <2>1. CASE device'[d] = device[d]
    <3>1. Live(d)
      BY <2>1, Zenon DEF Live
    <3> QED BY <1>4, <2>1, <3>1, Zenon
  <2>2. CASE Wrote(t) /\ device'[d] = txn[t].row
    <3>1. txn[t].row.state = "live"
      BY <2>2, Zenon DEF Live
    <3> QED BY <1>5, <2>2, <3>1, Zenon
  <2> QED BY <1>2, <2>1, <2>2, Zenon
<1>7. EndpointServes'
  <2> SUFFICES ASSUME NEW d \in Device, Live(d)', device'[d].settings # Unset
               PROVE  /\ link'[device'[d].link].enabled
                      /\ link'[device'[d].link].settings = device'[d].settings
    BY Zenon DEF EndpointServes
  <2>1. CASE Wrote(t) /\ device'[d] = txn[t].row
    <3>1. txn[t].row.state = "live"
      BY <2>1, Zenon DEF Live
    <3> QED BY <1>5, <2>1, <3>1, Zenon
  <2>2. CASE device'[d] = device[d] /\ ~(Wrote(t) /\ d = txn[t].dev)
    <3>1. Live(d) /\ device[d].settings # Unset
      BY <2>2, Zenon DEF Live
    <3>2. PICK l : l = device[d].link
      OBVIOUS
    <3>3. l \in Link
      BY <1>4, <2>2, <3>1, <3>2, Zenon
    <3>4. link[l].enabled /\ link[l].settings = device[d].settings
      BY <1>1, <3>1, <3>2, Zenon DEF EndpointServes
    <3>5. CASE l \in Rows(t)
      <4>1. Served(d, l)
        BY <3>1, <3>2, Zenon DEF Served
      <4>2. link'[l] = txn[t].rows[l]
        BY <1>2, <3>3, <3>5, Zenon
      <4>3. CASE d # txn[t].dev
        <5>1. /\ txn[t].rows[l].enabled
              /\ txn[t].rows[l].settings = device[d].settings
          BY <1>1, <3>5, <4>1, <4>3, Zenon DEF LeftInv
        <5> QED BY <2>2, <3>2, <4>2, <5>1, Zenon
      <4>4. CASE d = txn[t].dev /\ ~Wrote(t)
        <5>1. OnDevice(t)
          <6>1. RequestInv(t)
            BY InvOf, Zenon
          <6> QED BY <4>4, <6>1, CatalogNames DEF RequestInv
        <5>2. StageInv(t) /\ txn[t].stage = "commit"
          BY InvOf, Zenon DEF Commit, At
        <5> QED BY <4>4, <5>1, <5>2, Zenon DEF StageInv
      <4> QED BY <2>2, <4>3, <4>4, Zenon
    <3>6. CASE l \notin Rows(t)
      BY <1>2, <2>2, <3>2, <3>3, <3>4, <3>6, Zenon
    <3> QED BY <3>5, <3>6
  <2> QED BY <1>2, <2>1, <2>2, Zenon
<1> QED BY <1>3, <1>6, <1>7

\* What a commit changes is under locks of its transaction.
LEMMA CommitIsCovered ==
  ASSUME CatalogInv, NEW t \in Txn, Commit(t)
  PROVE  /\ \A l \in Link :
              link'[l] = link[l] \/ <<"link", l>> \in held[t]
         /\ \A d \in Device :
              \/ device'[d] = device[d]
              \/ /\ d = txn[t].dev /\ <<"device", d>> \in held[t]
                 /\ <<"share", device'[d].link>> \in held[t]
         /\ \A l \in Endpoint :
              link'[l] = link[l] \/ <<"node", NodeOf[l]>> \in held[t]
         /\ \A d \in Device, l \in Endpoint : Served(d, l)' =>
              \/ Served(d, l)
              \/ <<"node", NodeOf[l]>> \in held[t]
         /\ \A l \in Link : link[l].state # "absent" => link'[l].state # "absent"
         /\ \A d \in Device :
              device[d].state # "absent" => device'[d].state # "absent"
<1>1. /\ RequestInv(t) /\ StageInv(t) /\ RowsInv(t) /\ WroteInv(t)
      /\ NodeInv(t) /\ ServedInv(t) /\ CatalogTypeOK
  BY InvOf, Zenon
<1>2. /\ \A l \in Link : l \notin Rows(t) => link'[l] = link[l]
      /\ \A l \in Link : l \in Rows(t) =>
           link'[l] = txn[t].rows[l] /\ <<"link", l>> \in held[t]
      /\ \A d \in Device :
           \/ device'[d] = device[d]
           \/ Wrote(t) /\ d = txn[t].dev /\ device'[d] = txn[t].row
  BY CommitChanges, Zenon
<1>3. \A l \in Link : link'[l] = link[l] \/ <<"link", l>> \in held[t]
  BY <1>2, Zenon
<1>4. \A d \in Device :
        \/ device'[d] = device[d]
        \/ /\ d = txn[t].dev /\ <<"device", d>> \in held[t]
           /\ <<"share", device'[d].link>> \in held[t]
  BY <1>1, <1>2, Zenon DEF WroteInv
<1>5. ASSUME NEW l \in Endpoint, OnDevice(t), l \in Ends(t)
      PROVE  <<"node", NodeOf[l]>> \in held[t]
  <2>1. txn[t].stage = "commit"
    BY Zenon DEF Commit, At
  <2>2. NodesToLock(t) = {}
    BY <1>1, <1>5, <2>1 DEF NodeInv, At
  <2>3. NodeOf[l] \in NodesOf(t)
    BY <1>5, Zenon DEF Ends, NodesOf
  <2> QED BY <2>2, <2>3 DEF NodesToLock
<1>6. ASSUME NEW l \in Endpoint
      PROVE  link'[l] = link[l] \/ <<"node", NodeOf[l]>> \in held[t]
  <2>1. l \in Link /\ l \notin Collector
    BY CatalogNames
  <2>2. CASE l \in Rows(t)
    <3>1. OnDevice(t)
      <4>1. txn[t].op \in DeviceOps \cup LinkOps \cup {"idle", "model"}
        BY <1>1, TxnTypes, Zenon
      <4>2. txn[t].op \notin {"idle", "model"}
        BY <1>1, <2>2 DEF RowsInv
      <4>3. txn[t].op \notin LinkOps
        BY <1>1, <2>1, <2>2 DEF RowsInv, RequestInv
      <4> QED BY <4>1, <4>2, <4>3 DEF OnDevice
    <3>2. l \in Ends(t)
      BY <1>1, <2>2, <3>1 DEF RowsInv
    <3> QED BY <1>5, <3>1, <3>2
  <2>3. CASE l \notin Rows(t)
    BY <1>2, <2>1, <2>3, Zenon
  <2> QED BY <2>2, <2>3
<1>7. ASSUME NEW d \in Device, NEW l \in Endpoint, Served(d, l)', ~Served(d, l)
      PROVE  <<"node", NodeOf[l]>> \in held[t]
  <2>1. device'[d].state = "live" /\ device'[d].link = l
        /\ device'[d].settings # Unset
    BY <1>7, Zenon DEF Served, Live
  <2>2. device'[d] # device[d]
    BY <1>7, <2>1, Zenon DEF Served, Live
  <2>3. Wrote(t) /\ d = txn[t].dev /\ device'[d] = txn[t].row
    BY <1>2, <2>2, Zenon
  <2>4. ConfiguresEndpoint(t) /\ l = txn[t].link
    BY <1>1, <1>7, <2>1, <2>3, Zenon DEF ServedInv
  <2>5. l \in Ends(t)
    BY <2>4 DEF Ends
  <2>6. OnDevice(t)
    BY <1>1, <2>4 DEF RequestInv, OnDevice, DeviceOps
  <2> QED BY <1>5, <2>5, <2>6
<1>8. \A l \in Link : link[l].state # "absent" => link'[l].state # "absent"
  BY <1>1, <1>2, Zenon DEF RowsInv
<1>9. \A d \in Device : device[d].state # "absent" => device'[d].state # "absent"
  BY <1>1, <1>2, Zenon DEF WroteInv
<1> QED BY <1>3, <1>4, <1>6, <1>7, <1>8, <1>9, Zenon

\* What another request relies on is under its own locks, and stays.
LEMMA CommitSpares ==
  ASSUME CatalogInv, NEW t \in Txn, NEW u \in Txn, u # t, Commit(t)
  PROVE  /\ txn'[u] = txn[u] /\ held'[u] = held[u]
         /\ \A l \in Rows(u) :
              /\ link'[l] = link[l]
              /\ \A d \in Device : Live(d)' /\ device'[d].link = l =>
                   device'[d] = device[d]
         /\ Wrote(u) => /\ link'[txn[u].row.link] = link[txn[u].row.link]
                        /\ device'[txn[u].dev] = device[txn[u].dev]
         /\ \A l \in Ends(u) : OnDevice(u) /\ ~At(u, "nodes") =>
              /\ link'[l] = link[l]
              /\ \A d \in Device : Served(d, l)' => Served(d, l)
         /\ txn[u].op = "create" =>
              /\ device'[txn[u].dev] = device[txn[u].dev]
              /\ \A v \in Txn : v # u => txn'[v].dev # txn[u].dev
<1>1. /\ CatalogTypeOK /\ LocksExclude /\ RequestInv(u) /\ RowsInv(u)
      /\ WroteInv(u) /\ NodeInv(u) /\ OwnerInv(u)
  BY InvOf, Zenon
<1>2. /\ \A l \in Link :
           link'[l] = link[l] \/ <<"link", l>> \in held[t]
      /\ \A d \in Device :
           \/ device'[d] = device[d]
           \/ /\ d = txn[t].dev /\ <<"device", d>> \in held[t]
              /\ <<"share", device'[d].link>> \in held[t]
      /\ \A l \in Endpoint :
           link'[l] = link[l] \/ <<"node", NodeOf[l]>> \in held[t]
      /\ \A d \in Device, l \in Endpoint : Served(d, l)' =>
           \/ Served(d, l)
           \/ <<"node", NodeOf[l]>> \in held[t]
  BY CommitIsCovered, Zenon
<1>3. \A z :
        /\ <<"link", z>> \in held[u] =>
             <<"link", z>> \notin held[t] /\ <<"share", z>> \notin held[t]
        /\ <<"share", z>> \in held[u] => <<"link", z>> \notin held[t]
        /\ <<"device", z>> \in held[u] => <<"device", z>> \notin held[t]
        /\ <<"node", z>> \in held[u] => <<"node", z>> \notin held[t]
  BY <1>1, LocksAreOwn, Zenon
<1>4. /\ txn' = [txn EXCEPT ![t] = Idle]
      /\ \A v \in Txn : v # t => held'[v] = held[v]
  BY <1>1, EndIs, Zenon DEF Commit
<1>5. /\ txn'[t] = Idle /\ \A v \in Txn : v # t => txn'[v] = txn[v]
  BY <1>1, <1>4, SetTxn
<1>6. ASSUME NEW l \in Rows(u)
      PROVE  /\ link'[l] = link[l]
             /\ \A d \in Device : Live(d)' /\ device'[d].link = l =>
                  device'[d] = device[d]
  <2>1. l \in Link
    BY <1>1, TxnTypes
  <2>2. <<"link", l>> \in held[u]
    BY <1>1, Zenon DEF RowsInv
  <2>3. <<"link", l>> \notin held[t] /\ <<"share", l>> \notin held[t]
    BY <1>3, <2>2, Zenon
  <2> QED BY <1>2, <2>1, <2>3, Zenon
<1>7. ASSUME Wrote(u)
      PROVE  /\ link'[txn[u].row.link] = link[txn[u].row.link]
             /\ device'[txn[u].dev] = device[txn[u].dev]
  <2>1. /\ txn[u].row.link \in Link /\ txn[u].dev \in Device
        /\ <<"device", txn[u].dev>> \in held[u]
        /\ <<"share", txn[u].row.link>> \in held[u]
    BY <1>1, <1>7, Zenon DEF WroteInv, RequestInv, Wrote
  <2> QED BY <1>2, <1>3, <2>1, Zenon
<1>8. ASSUME NEW l \in Ends(u), OnDevice(u), ~At(u, "nodes")
      PROVE  /\ link'[l] = link[l]
             /\ \A d \in Device : Served(d, l)' => Served(d, l)
  <2>1. l \in Endpoint /\ NodeOf[l] \in NodesOf(u)
    BY Zenon DEF Ends, NodesOf
  <2>2. NodesToLock(u) = {}
    BY <1>1, <1>8, Zenon DEF NodeInv
  <2>3. <<"node", NodeOf[l]>> \in held[u]
    BY <2>1, <2>2 DEF NodesToLock
  <2>4. <<"node", NodeOf[l]>> \notin held[t]
    BY <1>3, <2>3, Zenon
  <2> QED BY <1>2, <2>1, <2>4, Zenon
<1>9. ASSUME txn[u].op = "create"
      PROVE  /\ device'[txn[u].dev] = device[txn[u].dev]
             /\ \A v \in Txn : v # u => txn'[v].dev # txn[u].dev
  <2>1. \A v \in Txn : v # u => txn[v].dev # txn[u].dev
    BY <1>1, <1>9, Zenon DEF OwnerInv
  <2>2. txn[u].dev \in Device
    BY <1>1, <1>9 DEF RequestInv, OnDevice, DeviceOps
  <2>3. txn[t].dev # txn[u].dev /\ txn'[t].dev # txn[u].dev
    BY <1>5, <2>1, <2>2, IdleIs, CatalogNames
  <2> QED BY <1>2, <1>5, <2>1, <2>2, <2>3, Zenon
<1> QED BY <1>4, <1>5, <1>6, <1>7, <1>8, <1>9, Zenon

LEMMA CommitKeepsOthers ==
  ASSUME CatalogInv, NEW t \in Txn, NEW u \in Txn, u # t, Commit(t)
  PROVE  TxnInv(u)'
<1>1. /\ RequestInv(u) /\ StageInv(u) /\ RowsInv(u) /\ WroteInv(u)
      /\ ChannelInv(u) /\ NodeInv(u) /\ OwnerInv(u) /\ GuardInv(u)
      /\ BoundInv(u) /\ FormInv(u) /\ ServedInv(u) /\ LeftInv(u)
      /\ CatalogTypeOK
  BY InvOf, Zenon
<1>2. /\ txn'[u] = txn[u] /\ held'[u] = held[u]
      /\ \A l \in Rows(u) :
           /\ link'[l] = link[l]
           /\ \A d \in Device : Live(d)' /\ device'[d].link = l =>
                device'[d] = device[d]
      /\ Wrote(u) => /\ link'[txn[u].row.link] = link[txn[u].row.link]
                     /\ device'[txn[u].dev] = device[txn[u].dev]
      /\ \A l \in Ends(u) : OnDevice(u) /\ ~At(u, "nodes") =>
           /\ link'[l] = link[l]
           /\ \A d \in Device : Served(d, l)' => Served(d, l)
      /\ txn[u].op = "create" =>
           /\ device'[txn[u].dev] = device[txn[u].dev]
           /\ \A v \in Txn : v # u => txn'[v].dev # txn[u].dev
  BY CommitSpares, Zenon
<1>3. /\ \A l \in Link : link[l].state # "absent" => link'[l].state # "absent"
      /\ \A d \in Device :
           device[d].state # "absent" => device'[d].state # "absent"
  BY CommitIsCovered, Zenon
<1>4. SameRequest(u) /\ txn'[u].rows = txn[u].rows /\ txn'[u].row = txn[u].row
  BY <1>2, Zenon DEF SameRequest
<1>5. /\ OnDevice(u)' = OnDevice(u) /\ Wrote(u)' = Wrote(u)
      /\ ConfiguresEndpoint(u)' = ConfiguresEndpoint(u)
      /\ NodesOf(u)' = NodesOf(u) /\ Ends(u)' = Ends(u)
      /\ Rows(u)' = Rows(u)
  BY <1>4, SameMeans, Zenon DEF Wrote, Rows
<1>6. /\ \A l \in Rows(u) : Row(u, l)' = Row(u, l)
      /\ \A l : link'[l] = link[l] => Row(u, l)' = Row(u, l)
  BY <1>2, <1>4, Zenon DEF Row, Rows
<1>7. RequestInv(u)'
  BY <1>1, <1>2, <1>5, Zenon DEF RequestInv
<1>8. StageInv(u)'
  BY <1>1, <1>2, <1>5, Zenon DEF StageInv
<1>9. RowsInv(u)'
  BY <1>1, <1>2, <1>5, ZenonT(60) DEF RowsInv
<1>10. WroteInv(u)'
  BY <1>1, <1>2, <1>5, Zenon DEF WroteInv
<1>11. ChannelInv(u)'
  <2>1. txn[u].op \in {"toggle", "drop"} => txn[u].link \in Link
    BY <1>1, CatalogNames DEF RequestInv, LinkOps
  <2>2. txn[u].op \in {"update", "remove"} => txn[u].prior \in Link
    BY <1>1 DEF RequestInv
  <2>3. \A l \in Collector : l \in Link
    BY CatalogNames
  <2> QED BY <1>1, <1>2, <1>3, <2>1, <2>2, <2>3, Zenon DEF ChannelInv
<1>12. NodeInv(u)'
  BY <1>1, <1>2, <1>5, Zenon DEF NodeInv, At, NodesToLock
<1>13. OwnerInv(u)'
  <2>1. txn[u].op \in {"update", "remove"} => txn[u].dev \in Device
    BY <1>1 DEF RequestInv, OnDevice, DeviceOps
  <2> QED BY <1>1, <1>2, <1>3, <2>1, Zenon DEF OwnerInv
<1>14. GuardInv(u)'
  <2> SUFFICES ASSUME NEW l \in Rows(u), Attached(l)' # {}
               PROVE  /\ txn'[u].rows[l].protocol = link'[l].protocol
                      /\ txn'[u].rows[l].state = link'[l].state
    BY <1>5, Zenon DEF GuardInv
  <2>1. PICK d \in Device : Live(d)' /\ device'[d].link = l
    BY DEF Attached
  <2>2. device'[d] = device[d]
    BY <1>2, <2>1, Zenon
  <2>3. Attached(l) # {}
    BY <2>1, <2>2 DEF Attached, Live
  <2> QED BY <1>1, <1>2, <2>3, Zenon DEF GuardInv
<1>15. BoundInv(u)'
  <2>1. txn[u].row.state = "live" => Wrote(u)
    BY DEF Wrote, NoRow
  <2>2. Wrote(u) => Row(u, txn[u].row.link)' = Row(u, txn[u].row.link)
    BY <1>2, <1>6, Zenon
  <2> QED BY <1>1, <1>4, <2>1, <2>2, Zenon DEF BoundInv
<1>16. ConfiguresEndpoint(u) => OnDevice(u) /\ txn[u].link \in Ends(u)
  BY <1>1 DEF RequestInv, OnDevice, DeviceOps, Ends
<1>17. \A l \in Ends(u) : OnDevice(u) /\ ~At(u, "nodes") /\ NoneElse(u, l) =>
         NoneElse(u, l)'
  BY <1>2, Zenon DEF NoneElse
<1>18. FormInv(u)'
  <2>1. ASSUME At(u, "configure")
        PROVE  \/ link'[txn[u].link].settings = txn[u].settings
               \/ NoneElse(u, txn[u].link)'
    <3>1. ConfiguresEndpoint(u) /\ ~At(u, "nodes")
      BY <1>1, <2>1 DEF StageInv, At
    <3>2. \/ link[txn[u].link].settings = txn[u].settings
          \/ NoneElse(u, txn[u].link)
      BY <1>1, <2>1, Zenon DEF FormInv
    <3>3. link'[txn[u].link] = link[txn[u].link]
      BY <1>2, <1>16, <3>1, Zenon
    <3>4. NoneElse(u, txn[u].link) => NoneElse(u, txn[u].link)'
      <4>1. PICK l : l = txn[u].link
        OBVIOUS
      <4>2. NoneElse(u, l) => NoneElse(u, l)'
        BY <1>16, <1>17, <3>1, <4>1, Zenon
      <4> QED BY <1>2, <4>1, <4>2, Zenon
    <3> QED BY <3>2, <3>3, <3>4, Zenon
  <2>2. ASSUME txn[u].stage \in {"validate", "write"}, ConfiguresEndpoint(u)
        PROVE  Row(u, txn[u].link)' = Row(u, txn[u].link)
    <3>1. ~At(u, "nodes")
      BY <2>2 DEF At
    <3>2. link'[txn[u].link] = link[txn[u].link]
      BY <1>2, <1>16, <2>2, <3>1, Zenon
    <3> QED BY <1>2, <1>6, <3>2, Zenon
  <2> QED BY <1>1, <1>2, <1>5, <2>1, <2>2, Zenon DEF FormInv, At
<1>19. ServedInv(u)'
  <2> SUFFICES ASSUME txn[u].row.state = "live", txn[u].row.settings # Unset
               PROVE  /\ Row(u, txn[u].row.link)'.enabled
                      /\ Row(u, txn[u].row.link)'.settings = txn[u].row.settings
                      /\ \/ ConfiguresEndpoint(u) /\ txn[u].row.link = txn[u].link
                         \/ Served(txn[u].dev, txn[u].row.link)'
    BY <1>2, <1>5, Zenon DEF ServedInv
  <2>1. Wrote(u)
    BY DEF Wrote, NoRow
  <2>2. Row(u, txn[u].row.link)' = Row(u, txn[u].row.link)
    BY <1>2, <1>6, <2>1, Zenon
  <2>3. Served(txn[u].dev, txn[u].row.link) =>
          Served(txn[u].dev, txn[u].row.link)'
    BY <1>2, <2>1, Zenon DEF Served, Live
  <2> QED BY <1>1, <2>2, <2>3, Zenon DEF ServedInv
<1>20. LeftInv(u)'
  <2>1. ASSUME At(u, "disable")
        PROVE  NoneElse(u, txn[u].prior)'
    <3>1. OnDevice(u) /\ ~At(u, "nodes") /\ txn[u].prior \in Ends(u)
      BY <1>1, <2>1 DEF StageInv, At, DeviceStages, Ends
    <3>2. NoneElse(u, txn[u].prior)
      BY <1>1, <2>1, Zenon DEF LeftInv
    <3>3. PICK l : l = txn[u].prior
      OBVIOUS
    <3>4. NoneElse(u, l)'
      BY <1>17, <3>1, <3>2, <3>3, Zenon
    <3> QED BY <1>2, <3>3, <3>4, Zenon
  <2>2. ASSUME NEW l \in Rows(u), NEW d \in Device, d # txn[u].dev,
               Served(d, l)'
        PROVE  /\ txn[u].rows[l].enabled
               /\ txn[u].rows[l].settings = device'[d].settings
    <3>1. Live(d)' /\ device'[d].link = l
      BY <2>2, Zenon DEF Served
    <3>2. device'[d] = device[d]
      BY <1>2, <3>1, Zenon
    <3>3. Served(d, l)
      BY <2>2, <3>2, Zenon DEF Served, Live
    <3> QED BY <1>1, <2>2, <3>2, <3>3, Zenon DEF LeftInv
  <2>3. At(u, "disable")' =>
          /\ NoneElse(u, txn[u].prior)'
          /\ ~(txn'[u].row.state = "live" /\ txn'[u].row.link = txn'[u].prior)
    BY <1>1, <1>2, <2>1, Zenon DEF LeftInv, At
  <2>4. \A l \in Rows(u)' : \A d \in Device : d # txn'[u].dev /\ Served(d, l)' =>
          /\ txn'[u].rows[l].enabled
          /\ txn'[u].rows[l].settings = device'[d].settings
    <3> SUFFICES ASSUME NEW l \in Rows(u)', NEW d \in Device, d # txn'[u].dev,
                        Served(d, l)'
                 PROVE  /\ txn'[u].rows[l].enabled
                        /\ txn'[u].rows[l].settings = device'[d].settings
      BY Zenon
    <3>1. l \in Rows(u) /\ d # txn[u].dev
      BY <1>2, <1>5, Zenon
    <3>2. txn[u].rows[l].enabled /\ txn[u].rows[l].settings = device'[d].settings
      BY <2>2, <3>1, Zenon
    <3> QED BY <1>2, <3>2, Zenon
  <2> QED BY <2>3, <2>4, Zenon DEF LeftInv
<1> QED BY <1>7, <1>8, <1>9, <1>10, <1>11, <1>12, <1>13, <1>14, <1>15, <1>18,
           <1>19, <1>20 DEF TxnInv

LEMMA CommitKeeps ==
  ASSUME CatalogInv, NEW t \in Txn, Commit(t)
  PROVE  CatalogInv'
<1>1. CatalogTypeOK'
  BY CommitTypes, Zenon
<1>2. ChannelsMatch' /\ EndpointServes' /\ DeviceInv'
  BY CommitKeepsDevices, Zenon
<1>3. CatalogTypeOK /\ LocksExclude
  BY InvOf, Zenon
<1>4. /\ txn' = [txn EXCEPT ![t] = Idle] /\ held'[t] = {}
      /\ \A u \in Txn : u # t => held'[u] = held[u]
  BY <1>3, EndIs, Zenon DEF Commit
<1>5. LocksExclude'
  BY <1>3, <1>4, NoNewLocks, Zenon
<1>6. TxnInv(t)'
  <2>1. txn'[t] = Idle
    BY <1>3, <1>4, SetTxn
  <2>2. /\ txn'[t].op = "idle" /\ txn'[t].dev = Unset /\ txn'[t].stage = "idle"
        /\ txn'[t].row = NoRow /\ txn'[t].protocol = Unset /\ Rows(t)' = {}
    BY <2>1, IdleIs DEF Rows
  <2>3. /\ ~OnDevice(t)' /\ ~ConfiguresEndpoint(t)' /\ ~Wrote(t)'
    BY <2>2 DEF OnDevice, ConfiguresEndpoint, Wrote, DeviceOps
  <2>4. RequestInv(t)'
    BY <1>4, <2>1, <2>2, <2>3 DEF RequestInv, LinkOps
  <2>5. StageInv(t)'
    BY <2>2, <2>3 DEF StageInv, DeviceStages
  <2>6. ChannelInv(t)'
    BY <1>4, <2>2 DEF ChannelInv
  <2>7. OwnerInv(t)'
    BY <2>2 DEF OwnerInv
  <2> QED BY <1>4, <2>2, <2>3, <2>4, <2>5, <2>6, <2>7, NothingWritten
<1>7. \A u \in Txn : u # t => TxnInv(u)'
  BY CommitKeepsOthers, Zenon
<1> QED BY <1>1, <1>2, <1>5, <1>6, <1>7, Zenon DEF CatalogInv

----------------------------------------------------------------------------
(* The theorem.                                                             *)

LEMMA CatalogStarts == InitCatalog => CatalogInv
<1> SUFFICES ASSUME InitCatalog PROVE CatalogInv
  OBVIOUS
<1>1. NoRow \in DeviceRow /\ NoRow.state = "absent" /\ NoRow.settings = Unset
  BY DEF NoRow, DeviceRow
<1>2. /\ \A d \in Device : device[d] = NoRow
      /\ \A t \in Txn : txn[t] = Idle /\ held[t] = {}
      /\ DOMAIN txn = Txn
  BY DEF InitCatalog
<1>3. CatalogTypeOK
  <2>1. link \in [Link -> LinkRow]
    BY DEF InitCatalog, LinkRow
  <2>2. device \in [Device -> DeviceRow]
    BY <1>1 DEF InitCatalog
  <2>3. model \in SUBSET Model /\ held \in [Txn -> SUBSET Lock]
        /\ requests \in 0..MaxRequests
    BY CatalogConstants DEF InitCatalog
  <2>4. \A t \in Txn : txn[t] \in TxnRow
    BY <1>2, IdleIs
  <2> QED BY <1>2, <2>1, <2>2, <2>3, <2>4, Zenon DEF CatalogTypeOK
<1>4. ChannelsMatch /\ EndpointServes /\ DeviceInv
  BY <1>1, <1>2 DEF ChannelsMatch, EndpointServes, DeviceInv, Live
<1>5. LocksExclude
  BY <1>2 DEF LocksExclude
<1>6. ASSUME NEW t \in Txn PROVE TxnInv(t)
  <2>1. /\ txn[t].op = "idle" /\ txn[t].dev = Unset /\ txn[t].stage = "idle"
        /\ txn[t].row = NoRow /\ txn[t].protocol = Unset /\ Rows(t) = {}
        /\ txn[t] = Idle /\ held[t] = {}
    BY <1>2, IdleIs DEF Rows
  <2>2. /\ ~OnDevice(t) /\ ~ConfiguresEndpoint(t) /\ ~Wrote(t)
    BY <2>1 DEF OnDevice, ConfiguresEndpoint, Wrote, DeviceOps
  <2>3. RequestInv(t) /\ StageInv(t) /\ ChannelInv(t) /\ OwnerInv(t)
    BY <2>1, <2>2
       DEF RequestInv, StageInv, ChannelInv, OwnerInv, LinkOps, DeviceStages
  <2>4. RowsInv(t) /\ WroteInv(t) /\ GuardInv(t)
    BY <2>1, <2>2 DEF RowsInv, WroteInv, GuardInv, LinkOps
  <2>5. NodeInv(t) /\ FormInv(t) /\ LeftInv(t)
    BY <2>1, <2>2 DEF NodeInv, FormInv, LeftInv, At
  <2>6. BoundInv(t) /\ ServedInv(t)
    BY <1>1, <2>1 DEF BoundInv, ServedInv
  <2> QED BY <2>3, <2>4, <2>5, <2>6 DEF TxnInv
<1> QED BY <1>3, <1>4, <1>5, <1>6, Zenon DEF CatalogInv

LEMMA CatalogStays ==
  CatalogInv /\ [NextCatalog]_catalogVars => CatalogInv'
<1> SUFFICES ASSUME CatalogInv, [NextCatalog]_catalogVars PROVE CatalogInv'
  OBVIOUS
<1>1. CASE NextCatalog
  <2>1. PICK t \in Txn : DeviceStep(t) \/ OtherStep(t) \/ Commit(t) \/ Abort(t)
    BY <1>1, Zenon DEF NextCatalog
  <2>2. CASE CreateDevice(t) \/ UpdateDevice(t) \/ RemoveDevice(t)
    BY <2>2, DeviceRequestsKeep, Zenon
  <2>3. CASE LockNode(t)
    BY <2>3, LockNodeKeeps, Zenon
  <2>4. CASE NodesLocked(t)
    BY <2>4, NodesLockedKeeps, Zenon
  <2>5. CASE FindEndpoint(t)
    BY <2>5, FindEndpointKeeps, Zenon
  <2>6. CASE ConfigureEndpoint(t)
    BY <2>6, ConfigureEndpointKeeps, Zenon
  <2>7. CASE ValidateDevice(t)
    BY <2>7, ValidateDeviceKeeps, Zenon
  <2>8. CASE WriteDevice(t)
    BY <2>8, WriteDeviceKeeps, Zenon
  <2>9. CASE FindUnused(t)
    BY <2>9, FindUnusedKeeps, Zenon
  <2>10. CASE DisableUnused(t)
    BY <2>10, DisableUnusedKeeps, Zenon
  <2>11. CASE CreateLink(t)
    BY <2>11, CreateLinkKeeps, Zenon
  <2>12. CASE UpdateLink(t) \/ RemoveLink(t) \/ RemoveModel(t)
    BY <2>12, OtherRequestsKeep, Zenon
  <2>13. CASE WriteLink(t)
    BY <2>13, WriteLinkKeeps, Zenon
  <2>14. CASE Commit(t)
    BY <2>14, CommitKeeps, Zenon
  <2>15. CASE Abort(t)
    BY <2>15, AbortKeeps, Zenon
  <2> QED BY <2>1, <2>2, <2>3, <2>4, <2>5, <2>6, <2>7, <2>8, <2>9, <2>10,
             <2>11, <2>12, <2>13, <2>14, <2>15, Zenon DEF DeviceStep, OtherStep
<1>2. CASE UNCHANGED catalogVars
  <2>1. /\ link' = link /\ model' = model /\ device' = device /\ txn' = txn
        /\ held' = held /\ requests' = requests
    BY <1>2 DEF catalogVars
  <2>2. CatalogTypeOK'
    BY <2>1, Zenon DEF CatalogInv, CatalogTypeOK
  <2>3. ChannelsMatch' /\ EndpointServes' /\ DeviceInv' /\ LocksExclude'
    BY <2>1, Zenon
       DEF CatalogInv, ChannelsMatch, EndpointServes, DeviceInv, LocksExclude,
           Live
  <2>4. ASSUME NEW u \in Txn PROVE TxnInv(u)'
    <3>1. TxnInv(u) /\ OwnerInv(u)
      BY Zenon DEF CatalogInv, TxnInv
    <3>2. OwnerInv(u)'
      BY <2>1, <3>1, Zenon DEF OwnerInv
    <3> QED BY <2>1, <3>1, <3>2, BystanderStays, Zenon
  <2> QED BY <2>2, <2>3, <2>4, Zenon DEF CatalogInv
<1> QED BY <1>1, <1>2

\* Who waits for a node of a request that waits itself is before it in the
\* order of the nodes. So no chain of requests, of any length, closes.
WaitsRise ==
  \A t, u \in Txn : t # u /\ WaitsForNodeOf(t, u) /\ At(u, "nodes") =>
    \E n \in NextNode(t) : \A k \in NextNode(u) : n < k

LEMMA NodesInOrder == CatalogInv => WaitsRise
<1> SUFFICES ASSUME CatalogInv, NEW t \in Txn, NEW u \in Txn, t # u,
                    WaitsForNodeOf(t, u), At(u, "nodes")
             PROVE  \E n \in NextNode(t) : \A k \in NextNode(u) : n < k
  BY Zenon DEF WaitsRise
<1>1. PICK n \in NextNode(t) : <<"node", n>> \in held[u]
  BY Zenon DEF WaitsForNodeOf
<1>2. ASSUME NEW k \in NextNode(u) PROVE n < k
  <2>1. n \in Node /\ k \in NodesToLock(u)
    BY DEF NextNode, NodesToLock, NodesOf, Node
  <2>2. NodeInv(u)
    BY InvOf, Zenon
  <2> QED BY <1>1, <2>1, <2>2, Zenon DEF NodeInv
<1> QED BY <1>2, Zenon

LEMMA NoTwoWait == CatalogInv => NoNodeCycle
<1> SUFFICES ASSUME CatalogInv, NEW t \in Txn, NEW u \in Txn, t # u,
                    WaitsForNodeOf(t, u), WaitsForNodeOf(u, t)
             PROVE  FALSE
  BY Zenon DEF NoNodeCycle
<1>1. At(t, "nodes") /\ At(u, "nodes")
  BY Zenon DEF WaitsForNodeOf
<1>2. PICK n \in NextNode(t) : \A k \in NextNode(u) : n < k
  BY <1>1, NodesInOrder, Zenon DEF WaitsRise
<1>3. PICK k \in NextNode(u) : \A m \in NextNode(t) : k < m
  BY <1>1, NodesInOrder, Zenon DEF WaitsRise
<1>4. n < k /\ k < n
  BY <1>2, <1>3
<1>5. n \in Node /\ k \in Node
  BY DEF NextNode, NodesToLock, NodesOf, Node
<1> QED BY <1>4, <1>5, CatalogNames

\* Whatever requests overlap, fail or read before their transactions, a
\* device has a channel that is not deleted and has the protocol of its model
\* (bind_device_channel, protect_channel_binding), an endpoint asked for by a
\* form is enabled and as that form wants it (configureDeviceEndpoint,
\* retireUnusedDeviceEndpoint), and requests that lock nodes never wait for
\* each other (lockConnectionNodes).
THEOREM CatalogIsSafe == SpecCatalog => []CatalogSafety
<1>1. InitCatalog => CatalogInv
  BY CatalogStarts
<1>2. CatalogInv /\ [NextCatalog]_catalogVars => CatalogInv'
  BY CatalogStays
<1>3. CatalogInv => CatalogSafety
  BY NoTwoWait, Zenon DEF CatalogInv, CatalogSafety
<1> QED BY <1>1, <1>2, <1>3, PTL DEF SpecCatalog

\* The requests that wait for each other's nodes (lockConnectionNodes, which
\* locks in the order of the ids) are in the order of those nodes, so that no
\* number of them wait in a circle.
THEOREM NodeLocksAreOrdered == SpecCatalog => []WaitsRise
<1>1. InitCatalog => CatalogInv
  BY CatalogStarts
<1>2. CatalogInv /\ [NextCatalog]_catalogVars => CatalogInv'
  BY CatalogStays
<1>3. CatalogInv => WaitsRise
  BY NodesInOrder
<1> QED BY <1>1, <1>2, <1>3, PTL DEF SpecCatalog

=============================================================================
