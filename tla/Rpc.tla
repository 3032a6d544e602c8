-------------------------------- MODULE Rpc --------------------------------
(***************************************************************************)
(* The worker-local RPC of the service process.  An HTTP handler calls     *)
(* RpcRequestClient::call, which appends a request to a Redis stream and   *)
(* waits for the reply key; RpcConsumerRuntime reads the stream through a  *)
(* consumer group and runs one coroutine (a task) per stream entry.        *)
(*                                                                         *)
(* Everything durable here lives in Redis (the stream, its pending list,   *)
(* the reply, claim and cancelled keys); everything else is the memory of  *)
(* one process.  A process restart takes a new instance id, hence a new    *)
(* stream: what an earlier process left is never read again, so a restart  *)
(* is a fresh behaviour and not a step.                                    *)
(*                                                                         *)
(* A Redis command may fail before it takes effect or after (its answer is *)
(* lost); MaxFaults bounds how often before a shutdown.  The reply key     *)
(* (600 s) and the claim key (24 h) outlive the 120 s deadline of the      *)
(* request: they do not expire here.                                       *)
(***************************************************************************)
EXTENDS Naturals, FiniteSets

CONSTANTS
  Request,      \* the calls; each has a UUID of its own
  Handled,      \* those whose component has a registered handler
  MaxPending,   \* back-pressure limit of the consumer (128 in the code)
  BatchSize,    \* COUNT of the group reads (32 in the code)
  MaxFaults     \* bound on failed Redis commands and rejected posts

ASSUME RpcConstants ==
  /\ Handled \subseteq Request
  /\ MaxPending \in Nat \ {0}
  /\ BatchSize \in Nat \ {0}
  /\ MaxFaults \in Nat

None == "none"
\* What a task may write as the reply of its request.
Result == {"ok", "failed", "timeout", "interrupted", "cancelled",
           "unavailable", "error"}

VARIABLES
  caller,     \* where each call is
  outcome,    \* what each call has returned or will return
  expired,    \* the deadline of the request has passed
  entry,      \* stream entry id of the request, 0 if never appended
  nextId,     \* next stream entry id
  delivered,  \* last-delivered-id of the consumer group
  pel,        \* pending entries list of the group
  reply, claim, cancelled,    \* the three Redis keys of a request
  loop,       \* where the consumer loop is
  batch,      \* entries of the read being handled
  recovering, recoveryId,
  task,       \* where the coroutine of each entry is; not "none": in pending_
  result,     \* result the task has computed
  stopReq,    \* Pending::stop of the task was requested
  stopping,   \* stop() was called
  executed,   \* history: how often the handler was invoked
  faults

clientVars == <<caller, outcome>>
streamVars == <<entry, nextId, delivered, pel>>
keyVars    == <<reply, claim, cancelled>>
loopVars   == <<loop, batch, recovering, recoveryId>>
taskVars   == <<task, result, stopReq, executed>>
vars == <<clientVars, expired, streamVars, keyVars, loopVars, taskVars,
          stopping, faults>>

Pending == {r \in Request : task[r] # "none"}

\* Once the consumer is stopping Redis may stay away for good.
Fault ==
  \/ ~stopping /\ faults < MaxFaults /\ faults' = faults + 1
  \/ stopping /\ UNCHANGED faults
NoFault == UNCHANGED faults

Init ==
  /\ caller = [r \in Request |-> "idle"]
  /\ outcome = [r \in Request |-> None]
  /\ expired = [r \in Request |-> FALSE]
  /\ entry = [r \in Request |-> 0]
  /\ nextId = 1
  /\ delivered = 0
  /\ pel = {}
  /\ reply = [r \in Request |-> None]
  /\ claim = [r \in Request |-> FALSE]
  /\ cancelled = [r \in Request |-> FALSE]
  /\ loop = "read"
  /\ batch = {}
  /\ recovering = TRUE
  /\ recoveryId = 0
  /\ task = [r \in Request |-> "none"]
  /\ result = [r \in Request |-> None]
  /\ stopReq = [r \in Request |-> FALSE]
  /\ stopping = FALSE
  /\ executed = [r \in Request |-> 0]
  /\ faults = 0

----------------------------------------------------------------------------
(* RpcRequestClient::call                                                  *)

Append(r) ==
  /\ entry' = [entry EXCEPT ![r] = nextId]
  /\ nextId' = nextId + 1
  /\ UNCHANGED <<delivered, pel>>

GiveUp(r, why) ==
  /\ caller' = [caller EXCEPT ![r] = "cancel"]
  /\ outcome' = [outcome EXCEPT ![r] = why]

\* XADD of the request; an error goes to the cancelling tail of call, even
\* when the entry was in fact appended.
CallEnqueue(r) ==
  /\ caller[r] = "idle"
  /\ \/ NoFault /\ Append(r)
        /\ caller' = [caller EXCEPT ![r] = "wait"] /\ UNCHANGED outcome
     \/ Fault /\ (Append(r) \/ UNCHANGED streamVars) /\ GiveUp(r, "error")
  /\ UNCHANGED <<expired, keyVars, loopVars, taskVars, stopping>>

\* decodeReply: only an "OK" reply is a success.
BugAnyReplySucceeds(r) == reply[r] # None
Succeeded(r) == reply[r] = "ok"

\* The remaining time is checked after each GET.
TimedOut(r) == reply[r] = None /\ expired[r]

\* A turn of the waiting loop that ends it.  GET of the reply: a success
\* returns, a failure is rethrown through the cancelling tail.  A turn that
\* finds neither a reply nor the deadline passed waits for a notification of
\* the reply topic or the remaining time, and changes nothing.
CallPoll(r) ==
  /\ caller[r] = "wait"
  /\ \/ /\ NoFault
        /\ \/ /\ Succeeded(r)
              /\ caller' = [caller EXCEPT ![r] = "done"]
              /\ outcome' = [outcome EXCEPT ![r] = "ok"]
           \/ reply[r] # None /\ ~Succeeded(r) /\ GiveUp(r, reply[r])
           \/ TimedOut(r) /\ GiveUp(r, "timeout")
     \/ Fault /\ GiveUp(r, "error")
  /\ UNCHANGED <<expired, streamVars, keyVars, loopVars, taskVars, stopping>>

\* The HTTP request is gone: its stop token ends the waiting loop.
CallAbort(r) ==
  /\ caller[r] = "wait"
  /\ GiveUp(r, "cancelled")
  /\ UNCHANGED <<expired, streamVars, keyVars, loopVars, taskVars, stopping,
                 faults>>

\* SET of the cancelled key, whose own failure is swallowed.
CallCancel(r) ==
  /\ caller[r] = "cancel"
  /\ caller' = [caller EXCEPT ![r] = "done"]
  /\ \/ NoFault /\ cancelled' = [cancelled EXCEPT ![r] = TRUE]
     \/ Fault /\ cancelled' \in {cancelled, [cancelled EXCEPT ![r] = TRUE]}
  /\ UNCHANGED <<outcome, expired, streamVars, reply, claim, loopVars,
                 taskVars, stopping>>

Deadline(r) ==
  /\ caller[r] # "idle" /\ ~expired[r]
  /\ expired' = [expired EXCEPT ![r] = TRUE]
  /\ UNCHANGED <<clientVars, streamVars, keyVars, loopVars, taskVars,
                 stopping, faults>>

----------------------------------------------------------------------------
(* RpcConsumerRuntime::run: the consumer loop.                             *)

\* S is what a read of at most BatchSize entries returns from cand.
FirstOf(S, cand) ==
  /\ S \subseteq cand
  /\ Cardinality(S) <= BatchSize
  /\ \A x \in S, y \in cand \ S : entry[x] < entry[y]
  /\ S # cand => Cardinality(S) = BatchSize

Unread == {r \in Request : entry[r] > delivered}

\* XREADGROUP takes effect in Redis: recovery pages through the pending list
\* from recoveryId, normal operation blocks for undelivered entries.
ReadEffect(S) ==
  IF recovering
  THEN /\ FirstOf(S, {r \in pel : entry[r] > recoveryId})
       /\ UNCHANGED streamVars
  ELSE /\ S # {} /\ FirstOf(S, Unread)
       /\ pel' = pel \cup S
       /\ \E last \in S :
            /\ \A x \in S : entry[x] <= entry[last]
            /\ delivered' = entry[last]
       /\ UNCHANGED <<entry, nextId>>

\* A failed turn recovers the pending list from its beginning.
Restart == recovering' = TRUE /\ recoveryId' = 0

\* Back-pressure: no read while MaxPending tasks are in memory.
HasRoom == Cardinality(Pending) < MaxPending

LoopRead ==
  /\ loop = "read" /\ ~stopping
  /\ HasRoom
  /\ \/ /\ NoFault
        /\ \E S \in SUBSET Request : ReadEffect(S) /\ batch' = S
        /\ loop' = "spawn"
        /\ UNCHANGED <<recovering, recoveryId>>
     \/ /\ Fault /\ Restart
        /\ (\E S \in SUBSET Request : ReadEffect(S)) \/ UNCHANGED streamVars
        /\ UNCHANGED <<loop, batch>>
  /\ UNCHANGED <<clientVars, expired, keyVars, taskVars, stopping>>

Spawn(S) ==
  /\ task' = [r \in Request |-> IF r \in S THEN "begin" ELSE task[r]]
  /\ UNCHANGED <<result, stopReq, executed>>

\* The answer of the read is handled without a suspension point: entries that
\* still have a task are skipped, the others get one.  A rejected post throws
\* and restarts the recovery; the entries before it keep their tasks.
LoopSpawn ==
  /\ loop = "spawn"
  /\ loop' = "read" /\ batch' = {}
  /\ \/ /\ NoFault
        /\ Spawn(batch \ Pending)
        /\ IF ~recovering THEN UNCHANGED <<recovering, recoveryId>>
           ELSE IF batch = {} THEN recovering' = FALSE /\ UNCHANGED recoveryId
           ELSE /\ UNCHANGED recovering
                /\ \E last \in batch :
                     /\ \A x \in batch : entry[x] <= entry[last]
                     /\ recoveryId' = entry[last]
     \/ /\ Fault /\ Restart
        /\ \E bad \in batch \ Pending :
             Spawn({m \in batch \ Pending : entry[m] < entry[bad]})
  /\ UNCHANGED <<clientVars, expired, streamVars, keyVars, stopping>>

Stop ==
  /\ ~stopping /\ stopping' = TRUE
  /\ UNCHANGED <<clientVars, expired, streamVars, keyVars, loopVars,
                 taskVars, faults>>

\* The loop sees the stop token, requests the stop of every task and waits
\* for pending_ to empty.
LoopDrain ==
  /\ loop = "read" /\ stopping
  /\ loop' = "drain"
  /\ stopReq' = [r \in Request |-> stopReq[r] \/ r \in Pending]
  /\ UNCHANGED <<clientVars, expired, streamVars, keyVars, batch, recovering,
                 recoveryId, task, result, executed, stopping, faults>>

LoopStopped ==
  /\ loop = "drain" /\ Pending = {}
  /\ loop' = "stopped"
  /\ UNCHANGED <<clientVars, expired, streamVars, keyVars, batch, recovering,
                 recoveryId, taskVars, stopping, faults>>

----------------------------------------------------------------------------
(* RpcConsumerRuntime::process: one task per entry.                        *)


Finish(r, res) ==
  /\ task' = [task EXCEPT ![r] = "save"]
  /\ result' = [result EXCEPT ![r] = res]
  /\ UNCHANGED <<stopReq, executed>>

Goto(r, where) ==
  task' = [task EXCEPT ![r] = where] /\ UNCHANGED <<result, stopReq, executed>>

TaskBegin(r) ==
  /\ task[r] = "begin"
  /\ IF expired[r] THEN Finish(r, "timeout") ELSE Goto(r, "get")
  /\ UNCHANGED <<clientVars, expired, streamVars, keyVars, loopVars, stopping,
                 faults>>

Answered(r) == reply[r] # None

\* GET of the reply key: a request already answered keeps its answer.
TaskGet(r) ==
  /\ task[r] = "get"
  /\ \/ NoFault /\ Answered(r) /\ Finish(r, reply[r])
     \/ NoFault /\ ~Answered(r) /\ Goto(r, "claim")
     \/ Fault /\ Finish(r, "error")
  /\ UNCHANGED <<clientVars, expired, streamVars, keyVars, loopVars, stopping>>

BugClaimIgnored(r) == FALSE
Claimed(r) == claim[r]

\* SET NX of the claim key.
TaskClaim(r) ==
  /\ task[r] = "claim"
  /\ \/ /\ NoFault /\ ~Claimed(r) /\ Goto(r, "exists")
        /\ claim' = [claim EXCEPT ![r] = TRUE]
     \/ NoFault /\ Claimed(r) /\ Finish(r, "interrupted") /\ UNCHANGED claim
     \/ /\ Fault /\ Finish(r, "error")
        /\ claim' \in {claim, [claim EXCEPT ![r] = TRUE]}
  /\ UNCHANGED <<clientVars, expired, streamVars, reply, cancelled, loopVars,
                 stopping>>

BugCancelIgnored(r) == FALSE
Revoked(r) == cancelled[r]

\* EXISTS of the cancelled key, then the lookup of the handler.
TaskExists(r) ==
  /\ task[r] = "exists"
  /\ \/ NoFault /\ Revoked(r) /\ Finish(r, "cancelled")
     \/ NoFault /\ ~Revoked(r) /\ r \notin Handled /\ Finish(r, "unavailable")
     \/ NoFault /\ ~Revoked(r) /\ r \in Handled /\ Goto(r, "invoke")
     \/ Fault /\ Finish(r, "error")
  /\ UNCHANGED <<clientVars, expired, streamVars, keyVars, loopVars, stopping>>

TaskInvoke(r) ==
  /\ task[r] = "invoke"
  /\ task' = [task EXCEPT ![r] = "run"]
  /\ executed' = [executed EXCEPT ![r] = @ + 1]
  /\ UNCHANGED <<clientVars, expired, streamVars, keyVars, loopVars, result,
                 stopReq, stopping, faults>>

\* The handler returns or throws.
TaskReturn(r) ==
  /\ task[r] = "run"
  /\ \E res \in {"ok", "failed"} : Finish(r, res)
  /\ UNCHANGED <<clientVars, expired, streamVars, keyVars, loopVars, stopping,
                 faults>>

\* saveAndAcknowledge: one script sets the reply, publishes the change, and
\* acknowledges and deletes the entry.  Its failure is retried, never the
\* operation, unless the consumer is stopping.
SaveEffect(r) ==
  /\ reply' = [reply EXCEPT ![r] = result[r]]
  /\ pel' = pel \ {r}
  /\ UNCHANGED <<entry, nextId, delivered, claim, cancelled>>

Erase(r) ==
  /\ task' = [task EXCEPT ![r] = "none"]
  /\ result' = [result EXCEPT ![r] = None]
  /\ stopReq' = [stopReq EXCEPT ![r] = FALSE]
  /\ UNCHANGED executed

BugRetryForever == FALSE
StopsRetrying == stopping

TaskSave(r) ==
  /\ task[r] = "save"
  /\ \/ NoFault /\ SaveEffect(r) /\ Erase(r)
     \/ /\ Fault
        /\ SaveEffect(r) \/ UNCHANGED <<streamVars, keyVars>>
        /\ IF StopsRetrying THEN Erase(r) ELSE Goto(r, "backoff")
  /\ UNCHANGED <<clientVars, expired, loopVars, stopping>>

\* The pause before the next attempt; a stop cuts it short.
TaskRetry(r) ==
  /\ task[r] = "backoff" /\ Goto(r, "save")
  /\ UNCHANGED <<clientVars, expired, streamVars, keyVars, loopVars, stopping,
                 faults>>

\* monitor: a task past its deadline or cancelled by its caller is stopped.
Monitor(r) ==
  /\ r \in Pending /\ ~stopReq[r]
  /\ expired[r] \/ cancelled[r] \/ stopping
  /\ stopReq' = [stopReq EXCEPT ![r] = TRUE]
  /\ UNCHANGED <<clientVars, expired, streamVars, keyVars, loopVars, task,
                 result, executed, stopping, faults>>

Call(r) == \/ CallEnqueue(r) \/ CallPoll(r) \/ CallAbort(r) \/ CallCancel(r)
           \/ Deadline(r)

Task(r) == \/ TaskBegin(r) \/ TaskGet(r) \/ TaskClaim(r) \/ TaskExists(r)
           \/ TaskInvoke(r) \/ TaskReturn(r) \/ TaskSave(r)
           \/ TaskRetry(r) \/ Monitor(r)

Loop == LoopRead \/ LoopSpawn \/ Stop \/ LoopDrain \/ LoopStopped

Next == Loop \/ \E r \in Request : Call(r) \/ Task(r)

(***************************************************************************)
(* Fairness.  Coroutines of a worker are resumed, timers fire, the monitor *)
(* runs every 100 ms, and every Redis command ends, in success or failure. *)
(* Nothing forces a failure to happen where the command would have waited. *)
(* A handler is only known to end once its stop token was requested; an    *)
(* idle caller never has to call.                                          *)
(***************************************************************************)
Fairness ==
  /\ WF_vars((recovering \/ Unread # {}) /\ LoopRead) /\ WF_vars(LoopSpawn)
  /\ WF_vars(LoopDrain) /\ WF_vars(LoopStopped)
  /\ \A r \in Request :
       /\ WF_vars(Deadline(r)) /\ WF_vars(Monitor(r))
       /\ WF_vars(TaskBegin(r)) /\ WF_vars(TaskGet(r)) /\ WF_vars(TaskClaim(r))
       /\ WF_vars(TaskExists(r)) /\ WF_vars(TaskInvoke(r))
       /\ WF_vars(stopReq[r] /\ TaskReturn(r))
       /\ WF_vars(TaskSave(r)) /\ WF_vars(TaskRetry(r))
       /\ WF_vars((Answered(r) \/ TimedOut(r)) /\ CallPoll(r))
       /\ WF_vars(CallCancel(r))

Spec == Init /\ [][Next]_vars
FairSpec == Spec /\ Fairness

----------------------------------------------------------------------------

TypeOK ==
  /\ caller \in [Request -> {"idle", "wait", "cancel", "done"}]
  /\ outcome \in [Request -> Result \cup {None}]
  /\ expired \in [Request -> BOOLEAN]
  /\ entry \in [Request -> Nat] /\ nextId \in Nat /\ delivered \in Nat
  /\ pel \subseteq Request
  /\ reply \in [Request -> Result \cup {None}]
  /\ claim \in [Request -> BOOLEAN] /\ cancelled \in [Request -> BOOLEAN]
  /\ loop \in {"read", "spawn", "drain", "stopped"}
  /\ batch \subseteq Request
  /\ recovering \in BOOLEAN /\ recoveryId \in Nat
  /\ task \in [Request -> {"none", "begin", "get", "claim", "exists",
                           "invoke", "run", "save", "backoff"}]
  /\ result \in [Request -> Result \cup {None}]
  /\ stopReq \in [Request -> BOOLEAN] /\ stopping \in BOOLEAN
  /\ executed \in [Request -> Nat] /\ faults \in Nat

\* However often an entry is read again after a failure, its operation is
\* invoked at most once (the claim is taken before, and never given back).
AtMostOnce == \A r \in Request : executed[r] <= 1

\* A caller that is told of success had its operation executed; one told
\* that the component is unavailable had not, whatever was redelivered.
HonestOutcome ==
  \A r \in Request :
    /\ outcome[r] = "ok" => executed[r] = 1
    /\ outcome[r] = "unavailable" => executed[r] = 0

\* No delivered entry is forgotten: until the consumer stops, an entry that is
\* not acknowledged has a task, is in the read being handled, or lies ahead of
\* the recovery cursor.
NothingForgotten ==
  \A r \in pel :
    \/ stopping
    \/ task[r] # "none"
    \/ r \in batch
    \/ recovering /\ entry[r] > recoveryId

\* The tasks in memory stay bounded: a read only starts below MaxPending, so
\* one batch is the most it can be exceeded by.
PendingBound == Cardinality(Pending) <= MaxPending - 1 + BatchSize

\* Before its deadline a successful answer is replaced only when its entry was
\* handled a second time and the GET of that answer itself failed; it never
\* turns into "interrupted", "cancelled" or any other verdict.
SuccessKept ==
  [][\A r \in Request :
       reply[r] = "ok" /\ ~expired[r]
         => \/ reply'[r] = "ok"
            \/ reply'[r] = "error" /\ executed[r] = 1]_vars

\* A request whose cancellation reaches Redis before its task has passed the
\* check is never executed afterwards, however often its entry is read again.
CancelledNeverStarts ==
  [][\A r \in Request :
       cancelled[r] /\ executed[r] = 0 /\ task[r] # "invoke"
         => executed'[r] = 0 /\ task'[r] # "invoke"]_vars

\* Neither a late cancellation nor a repeated delivery changes what has been
\* decided about a request: a success stays, a cancelled request never starts.
DecisionsStand == SuccessKept /\ CancelledNeverStarts

\* Every appended request is answered and acknowledged unless the consumer is
\* stopped.
EveryEntryAnswered ==
  \A r \in Request : entry[r] > 0 ~> (reply[r] # None /\ r \notin pel) \/ stopping

\* stop() returns: every task ends and the loop leaves its draining wait.
StopTerminates == stopping ~> loop = "stopped"

\* A call never hangs: the deadline ends it even when the consumer is gone.
EveryCallReturns ==
  \A r \in Request : caller[r] = "wait" ~> caller[r] = "done"

\* Nothing waits for ever: entries are answered, the consumer stops, calls return.
RpcLiveness == EveryEntryAnswered /\ StopTerminates /\ EveryCallReturns

\* However often an entry is delivered, its handler is invoked once, and no
\* entry is lost between the stream, the tasks and the recovery.
RpcSafety == TypeOK /\ AtMostOnce /\ NothingForgotten
=============================================================================
