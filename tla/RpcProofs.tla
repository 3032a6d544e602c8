----------------------------- MODULE RpcProofs -----------------------------
(* What holds of Rpc for every set of requests, every batch size and limit, *)
(* and any number of failing Redis commands.                                *)
EXTENDS Rpc, FiniteSetTheorems, TLAPS

USE RpcConstants

(* Every variable keeps its type: the state of the model is the state of    *)
(* RpcRequestClient, RpcConsumerRuntime and the four Redis structures.      *)
LEMMA TypeInit == ASSUME Init PROVE TypeOK
  BY DEF Init, TypeOK

LEMMA TypeCall ==
  ASSUME TypeOK, NEW r \in Request, Call(r)
  PROVE  TypeOK'
<1> USE DEF TypeOK, Result, clientVars, streamVars, keyVars, loopVars,
            taskVars, Fault, NoFault
<1>1. CASE CallEnqueue(r)
  BY <1>1 DEF CallEnqueue, Append, GiveUp
<1>2. CASE CallPoll(r)
  BY <1>2 DEF CallPoll, GiveUp, Succeeded, TimedOut
<1>3. CASE CallAbort(r)
  BY <1>3 DEF CallAbort, GiveUp
<1>4. CASE CallCancel(r)
  <2>1. cancelled' \in [Request -> BOOLEAN]
    BY <1>4 DEF CallCancel
  <2>2. faults' \in Nat
    BY <1>4 DEF CallCancel
  <2>3. caller' \in [Request -> {"idle", "wait", "cancel", "done"}]
    BY <1>4 DEF CallCancel
  <2>4. UNCHANGED <<outcome, expired, streamVars, reply, claim, loopVars,
                    taskVars, stopping>>
    BY <1>4 DEF CallCancel
  <2> QED BY <2>1, <2>2, <2>3, <2>4
<1>5. CASE Deadline(r)
  BY <1>5 DEF Deadline
<1> QED BY <1>1, <1>2, <1>3, <1>4, <1>5 DEF Call

LEMMA TypeTask ==
  ASSUME TypeOK, NEW r \in Request, Task(r)
  PROVE  TypeOK'
<1> USE DEF TypeOK, Result, clientVars, streamVars, keyVars, loopVars,
            taskVars, Fault, NoFault
<1>1. CASE TaskBegin(r)
  BY <1>1 DEF TaskBegin, Finish, Goto
<1>2. CASE TaskGet(r)
  BY <1>2 DEF TaskGet, Finish, Goto, Answered
<1>3. CASE TaskClaim(r)
  <2>1. claim' \in [Request -> BOOLEAN]
    BY <1>3 DEF TaskClaim
  <2> QED BY <1>3, <2>1 DEF TaskClaim, Finish, Goto, Claimed
<1>4. CASE TaskExists(r)
  BY <1>4 DEF TaskExists, Finish, Goto, Revoked
<1>5. CASE TaskInvoke(r)
  BY <1>5 DEF TaskInvoke
<1>6. CASE TaskReturn(r)
  BY <1>6 DEF TaskReturn, Finish
<1>7. CASE TaskSave(r)
  <2>1. UNCHANGED <<entry, nextId, delivered, claim, cancelled>>
        /\ pel' \subseteq Request
        /\ reply' \in [Request -> Result \cup {None}]
    BY <1>7 DEF TaskSave, SaveEffect
  <2>2. /\ task' \in [Request -> {"none", "begin", "get", "claim", "exists",
                                   "invoke", "run", "save", "backoff"}]
        /\ result' \in [Request -> Result \cup {None}]
        /\ stopReq' \in [Request -> BOOLEAN] /\ executed' = executed
    BY <1>7 DEF TaskSave, Erase, Goto
  <2> QED BY <1>7, <2>1, <2>2 DEF TaskSave
<1>8. CASE Monitor(r)
  BY <1>8 DEF Monitor
<1>9. CASE TaskRetry(r)
  BY <1>9 DEF TaskRetry, Goto
<1> QED BY <1>1, <1>2, <1>3, <1>4, <1>5, <1>6, <1>7, <1>8, <1>9
       DEF Task

LEMMA TypeLoop ==
  ASSUME TypeOK, Loop
  PROVE  TypeOK'
<1> USE DEF TypeOK, clientVars, streamVars, keyVars, loopVars,
            taskVars, Fault, NoFault
<1>1. CASE LoopRead
  <2>1. ASSUME NEW S \in SUBSET Request, ReadEffect(S)
        PROVE  entry' = entry /\ nextId' = nextId /\ delivered' \in Nat
               /\ pel' \subseteq Request
    BY <2>1 DEF ReadEffect, FirstOf
  <2>2. /\ entry' = entry /\ nextId' = nextId /\ delivered' \in Nat
        /\ pel' \subseteq Request
    BY <1>1, <2>1 DEF LoopRead
  <2>3. batch' \subseteq Request /\ loop' \in {"read", "spawn"}
    BY <1>1 DEF LoopRead
  <2>4. recovering' \in BOOLEAN
    BY <1>1, Zenon DEF LoopRead, Restart
  <2>7. recoveryId' \in Nat
    BY <1>1 DEF LoopRead, Restart
  <2>5. faults' \in Nat
    BY <1>1 DEF LoopRead
  <2>6. UNCHANGED <<clientVars, expired, keyVars, taskVars, stopping>>
    BY <1>1 DEF LoopRead
  <2> QED BY <2>2, <2>3, <2>4, <2>5, <2>6, <2>7
<1>2. CASE LoopSpawn
  <2>1. recovering' \in BOOLEAN
    BY <1>2, Zenon DEF LoopSpawn, Restart
  <2>3. recoveryId' \in Nat
    <3>1. recoveryId' \in {recoveryId, 0} \cup {entry[r] : r \in batch}
      BY <1>2 DEF LoopSpawn, Restart
    <3> QED BY <3>1
  <2>2. /\ task' \in [Request -> {"none", "begin", "get", "claim", "exists",
                                   "invoke", "run", "save", "backoff"}]
        /\ UNCHANGED <<result, stopReq, executed>>
    BY <1>2 DEF LoopSpawn, Spawn
  <2> QED BY <1>2, <2>1, <2>2, <2>3 DEF LoopSpawn
<1>3. CASE Stop
  BY <1>3 DEF Stop
<1>4. CASE LoopDrain
  BY <1>4 DEF LoopDrain, Pending
<1>5. CASE LoopStopped
  BY <1>5 DEF LoopStopped
<1> QED BY <1>1, <1>2, <1>3, <1>4, <1>5 DEF Loop

\* The variables have their types (TypeOK, part of RpcSafety).
THEOREM TypeCorrect == Spec => []TypeOK
<1>1. TypeOK /\ UNCHANGED vars => TypeOK'
  BY DEF TypeOK, vars, clientVars, streamVars, keyVars, loopVars, taskVars
<1>2. TypeOK /\ [Next]_vars => TypeOK'
  BY <1>1, TypeCall, TypeTask, TypeLoop DEF Next
<1> QED BY TypeInit, <1>2, PTL DEF Spec

----------------------------------------------------------------------------
(* The claim is the witness of the execution: it precedes it and is never   *)
(* given back.  AtMostOnce alone is not inductive, since nothing in it      *)
(* excludes a task in front of its invocation of an executed request.       *)
ClaimInv ==
  \A r \in Request :
    /\ executed[r] > 0 \/ task[r] \in {"exists", "invoke", "run"} => claim[r]
    /\ task[r] \in {"exists", "invoke"} => executed[r] = 0
    /\ executed[r] <= 1

LEMMA ClaimTask ==
  ASSUME TypeOK, ClaimInv, NEW r \in Request, Task(r)
  PROVE  ClaimInv'
<1> USE DEF TypeOK, ClaimInv, keyVars, taskVars
<1>1. CASE TaskBegin(r)
  BY <1>1 DEF TaskBegin, Finish, Goto
<1>2. CASE TaskGet(r)
  BY <1>2 DEF TaskGet, Finish, Goto
<1>3. CASE TaskClaim(r)
  <2>1. CASE ~claim[r] /\ Goto(r, "exists") /\ claim' = [claim EXCEPT ![r] = TRUE]
    BY <2>1 DEF Goto
  <2>2. CASE Finish(r, "interrupted") /\ UNCHANGED claim
    BY <2>2 DEF Finish
  <2>3. CASE /\ Finish(r, "error")
             /\ claim' \in {claim, [claim EXCEPT ![r] = TRUE]}
    BY <2>3 DEF Finish
  <2> QED BY <1>3, <2>1, <2>2, <2>3 DEF TaskClaim, Claimed
<1>4. CASE TaskExists(r)
  BY <1>4 DEF TaskExists, Finish, Goto
<1>5. CASE TaskInvoke(r)
  BY <1>5 DEF TaskInvoke
<1>6. CASE TaskReturn(r)
  BY <1>6 DEF TaskReturn, Finish
<1>7. CASE TaskSave(r)
  <2>1. claim' = claim /\ executed' = executed
    BY <1>7 DEF TaskSave, SaveEffect, Erase, Goto
  <2>2. task' \in {[task EXCEPT ![r] = "none"], [task EXCEPT ![r] = "backoff"]}
    BY <1>7 DEF TaskSave, Erase, Goto
  <2> QED BY <2>1, <2>2
<1>8. CASE Monitor(r)
  BY <1>8 DEF Monitor
<1>9. CASE TaskRetry(r)
  BY <1>9 DEF TaskRetry, Goto
<1> QED BY <1>1, <1>2, <1>3, <1>4, <1>5, <1>6, <1>7, <1>8, <1>9
       DEF Task

LEMMA ClaimLoop ==
  ASSUME TypeOK, ClaimInv, Loop
  PROVE  ClaimInv'
<1>1. claim' = claim /\ executed' = executed
  BY DEF Loop, LoopRead, LoopSpawn, Spawn, Stop, LoopDrain, LoopStopped,
         keyVars, taskVars
<1>2. \A r \in Request : task'[r] \in {task[r], "begin"}
  BY DEF Loop, LoopRead, LoopSpawn, Spawn, Stop, LoopDrain, LoopStopped,
         taskVars, TypeOK
<1> QED BY <1>1, <1>2 DEF ClaimInv, TypeOK

LEMMA ClaimCall ==
  ASSUME ClaimInv, NEW r \in Request, Call(r)
  PROVE  ClaimInv'
<1>1. UNCHANGED <<claim, task, executed>>
  BY DEF Call, CallEnqueue, CallPoll, CallAbort, CallCancel, Deadline,
         keyVars, taskVars
<1> QED BY <1>1 DEF ClaimInv

(* However often an entry of the stream is read again, after a lost answer, *)
(* a rejected post or in a recovery, its handler is invoked at most once.   *)
THEOREM ExecutedAtMostOnce == Spec => []AtMostOnce
<1>1. ASSUME Init PROVE ClaimInv
  BY <1>1 DEF Init, ClaimInv
<1>2. ClaimInv /\ UNCHANGED vars => ClaimInv'
  BY DEF ClaimInv, vars, keyVars, taskVars
<1>3. TypeOK /\ ClaimInv /\ [Next]_vars => ClaimInv'
  BY <1>2, ClaimTask, ClaimLoop, ClaimCall DEF Next
<1>4. ClaimInv => AtMostOnce
  BY DEF ClaimInv, AtMostOnce
<1> QED BY TypeCorrect, <1>1, <1>3, <1>4, PTL DEF Spec

----------------------------------------------------------------------------
(* NothingForgotten needs to know what the read in flight has passed over:  *)
(* between LoopRead and LoopSpawn the recovery cursor has not moved yet.    *)
Ahead ==
  \A r \in pel \ batch :
    \/ stopping
    \/ task[r] # "none"
    \/ batch # {} /\ \A x \in batch : entry[x] < entry[r]

RecoveryInv ==
  /\ \A r \in Request : caller[r] = "idle" => entry[r] = 0
  /\ \A r \in pel \cup batch : entry[r] > 0
  /\ loop # "spawn" => batch = {}
  /\ loop = "spawn" /\ recovering => Ahead
  /\ NothingForgotten

LEMMA RecoveryCall ==
  ASSUME TypeOK, RecoveryInv, NEW r \in Request, Call(r)
  PROVE  RecoveryInv'
<1>1. UNCHANGED <<delivered, pel, loopVars, task, stopping>>
  BY DEF Call, CallEnqueue, CallPoll, CallAbort, CallCancel, Deadline, Append,
         loopVars, taskVars, streamVars
<1>2. \A x \in Request : caller'[x] = "idle" => caller[x] = "idle"
  BY DEF Call, CallEnqueue, CallPoll, CallAbort, CallCancel, Deadline, GiveUp,
         clientVars, TypeOK
<1>3. CASE entry' = entry
  BY <1>1, <1>2, <1>3 DEF RecoveryInv, NothingForgotten, Ahead, loopVars
<1>4. CASE /\ caller[r] = "idle" /\ caller'[r] # "idle"
           /\ entry' = [entry EXCEPT ![r] = nextId]
  <2>1. r \notin pel \cup batch
    BY <1>4 DEF RecoveryInv, TypeOK
  <2>2. \A x \in pel \cup batch : entry'[x] = entry[x]
    BY <1>4, <2>1 DEF TypeOK
  <2>3. \A x \in Request : caller'[x] = "idle" => entry'[x] = 0
    BY <1>2, <1>4 DEF RecoveryInv, TypeOK
  <2> QED BY <1>1, <2>2, <2>3 DEF RecoveryInv, NothingForgotten, Ahead, loopVars
<1> QED
  BY <1>3, <1>4 DEF Call, CallEnqueue, CallPoll, CallAbort, CallCancel,
     Deadline,
                    GiveUp, Append, streamVars, TypeOK

LEMMA RecoveryTask ==
  ASSUME TypeOK, RecoveryInv, NEW r \in Request, Task(r)
  PROVE  RecoveryInv'
<1>1. UNCHANGED <<caller, entry, loopVars, stopping>>
  BY DEF Task, TaskBegin, TaskGet, TaskClaim, TaskExists, TaskInvoke,
         TaskReturn, TaskSave, TaskRetry, Monitor, SaveEffect, clientVars, streamVars
<1>2. CASE pel' = pel /\ \A x \in Request : task[x] # "none" => task'[x] # "none"
  BY <1>1, <1>2 DEF RecoveryInv, NothingForgotten, Ahead, loopVars, TypeOK
<1>3. CASE TaskSave(r)
  <2>1. /\ pel' \in {pel, pel \ {r}}
        /\ task' \in {[task EXCEPT ![r] = "none"], [task EXCEPT ![r] = "backoff"]}
        /\ \/ stopping
           \/ pel' = pel \ {r}
           \/ task' = [task EXCEPT ![r] = "backoff"]
    BY <1>3 DEF TaskSave, SaveEffect, Erase, Goto, StopsRetrying, streamVars,
       taskVars
  <2>2. \A x \in pel' : x \in pel /\ (stopping \/ task'[x] = task[x] \/ task'[x] = "backoff")
    BY <2>1 DEF TypeOK
  <2> QED BY <1>1, <2>2 DEF RecoveryInv, NothingForgotten, Ahead, loopVars
<1>4. CASE Task(r) /\ ~TaskSave(r)
  <2>1. pel' = pel
    BY <1>4 DEF Task, TaskBegin, TaskGet, TaskClaim, TaskExists, TaskInvoke,
                TaskReturn, TaskRetry, Monitor, streamVars
  <2>2. \A x \in Request : task[x] # "none" => task'[x] # "none"
    BY <1>4 DEF Task, TaskBegin, TaskGet, TaskClaim, TaskExists, TaskInvoke,
                TaskReturn, TaskRetry, Monitor, Finish, Goto, TypeOK
  <2> QED BY <1>2, <2>1, <2>2
<1> QED BY <1>3, <1>4

LEMMA RecoveryRead ==
  ASSUME TypeOK, RecoveryInv, LoopRead
  PROVE  RecoveryInv'
<1>1. loop = "read" /\ batch = {}
  BY DEF LoopRead, RecoveryInv
<1>2. UNCHANGED <<caller, task, stopping>>
  BY DEF LoopRead, clientVars, taskVars
<1>3. CASE Restart /\ UNCHANGED <<loop, batch>>
  <2>1. /\ entry' = entry /\ pel' \subseteq Request
        /\ \A x \in pel' : x \in pel \/ entry[x] > delivered
    BY <1>1 DEF LoopRead, ReadEffect, FirstOf, Unread, streamVars, TypeOK
  <2>2. \A x \in pel' : entry'[x] > 0
    BY <2>1 DEF RecoveryInv, TypeOK
  <2> QED BY <1>1, <1>2, <1>3, <2>1, <2>2
          DEF RecoveryInv, NothingForgotten, Restart
<1>4. CASE \E S \in SUBSET Request :
             /\ ReadEffect(S) /\ batch' = S /\ loop' = "spawn"
             /\ UNCHANGED <<recovering, recoveryId>>
  <2>1. PICK S \in SUBSET Request :
             /\ ReadEffect(S) /\ batch' = S /\ loop' = "spawn"
             /\ UNCHANGED <<recovering, recoveryId>>
    BY <1>4
  <2>2. CASE recovering
    <3> DEFINE cand == {x \in pel : entry[x] > recoveryId}
    <3>1. FirstOf(S, cand) /\ UNCHANGED streamVars
      BY <2>1, <2>2 DEF ReadEffect
    <3>2. S # cand => S # {}
      BY <3>1, FS_EmptySet DEF FirstOf
    <3>3. \A x \in pel \ S :
            \/ stopping
            \/ task[x] # "none"
            \/ S # {} /\ \A y \in S : entry[y] < entry[x]
      <4>1. \A y \in S, x \in cand \ S : entry[y] < entry[x]
        BY <3>1 DEF FirstOf
      <4>2. \A x \in pel : stopping \/ task[x] # "none" \/ x \in cand
        BY <1>1 DEF RecoveryInv, NothingForgotten
      <4> QED BY <3>2, <4>1, <4>2
    <3>4. S \subseteq pel
      BY <3>1 DEF FirstOf
    <3> QED BY <1>1, <1>2, <2>1, <3>1, <3>3, <3>4
            DEF RecoveryInv, NothingForgotten, Ahead, streamVars
  <2>3. CASE ~recovering
    <3>1. pel' = pel \cup S /\ entry' = entry /\ \A x \in S : entry[x] > delivered
      BY <2>1, <2>3 DEF ReadEffect, FirstOf, Unread
    <3>2. \A x \in pel' \cup batch' : entry'[x] > 0
      BY <2>1, <3>1 DEF RecoveryInv, TypeOK
    <3> QED BY <1>1, <1>2, <2>1, <2>3, <3>1, <3>2
            DEF RecoveryInv, NothingForgotten
  <2> QED BY <2>2, <2>3
<1> QED BY <1>3, <1>4 DEF LoopRead

LEMMA RecoverySpawn ==
  ASSUME TypeOK, RecoveryInv, LoopSpawn
  PROVE  RecoveryInv'
<1>1. /\ UNCHANGED <<caller, entry, pel, stopping>>
      /\ batch' = {} /\ loop' = "read" /\ loop = "spawn"
  BY DEF LoopSpawn, clientVars, streamVars
<1>2. NothingForgotten'
  <2>1. CASE Restart
    BY <1>1, <2>1 DEF Restart, RecoveryInv, NothingForgotten
  <2>2. CASE ~Restart
    <3>1. \A x \in Request : task'[x] = IF x \in batch \ Pending THEN "begin" ELSE task[x]
      BY <2>2 DEF LoopSpawn, Spawn
    <3>2. \A x \in Request : x \in batch \/ task[x] # "none" => task'[x] # "none"
      BY <3>1 DEF Pending
    <3>3. CASE ~recovering
      <4>1. recovering' = recovering
        BY <2>2, <3>3 DEF LoopSpawn
      <4> QED BY <1>1, <3>2, <3>3, <4>1 DEF RecoveryInv, NothingForgotten,
                 TypeOK
    <3>4. CASE recovering /\ batch = {}
      BY <1>1, <3>2, <3>4 DEF RecoveryInv, NothingForgotten, Ahead, TypeOK
    <3>5. CASE recovering /\ batch # {}
      <4>1. recovering' = recovering
            /\ \E last \in batch : recoveryId' = entry[last]
        BY <2>2, <3>5 DEF LoopSpawn
      <4> QED BY <1>1, <3>2, <3>5, <4>1 DEF RecoveryInv, NothingForgotten,
                 Ahead, TypeOK
    <3> QED BY <3>3, <3>4, <3>5
  <2> QED BY <2>1, <2>2
<1>3. \A x \in pel' \cup batch' : entry'[x] > 0
  BY <1>1 DEF RecoveryInv
<1>4. \A x \in Request : caller'[x] = "idle" => entry'[x] = 0
  BY <1>1 DEF RecoveryInv
<1>5. loop' # "spawn" /\ batch' = {}
  BY <1>1
<1> QED BY <1>2, <1>3, <1>4, <1>5 DEF RecoveryInv

(* No entry delivered to the consumer group is lost by the consumer while   *)
(* it runs: it has a task, is being handled, or will be recovered.          *)
THEOREM DeliveredNeverForgotten == Spec => []NothingForgotten
<1>1. ASSUME Init PROVE RecoveryInv
  BY <1>1 DEF Init, RecoveryInv, NothingForgotten
<1>2. RecoveryInv /\ UNCHANGED vars => RecoveryInv'
  BY DEF RecoveryInv, NothingForgotten, Ahead, vars, clientVars, streamVars,
         loopVars, taskVars
<1>3. ASSUME TypeOK, RecoveryInv, Stop \/ LoopDrain \/ LoopStopped
      PROVE  RecoveryInv'
  <2>1. /\ UNCHANGED <<caller, entry, pel, batch, recovering, recoveryId, task>>
        /\ (stopping => stopping') /\ (loop' = "spawn" <=> loop = "spawn")
    BY <1>3 DEF Stop, LoopDrain, LoopStopped, clientVars, streamVars, loopVars,
                taskVars
  <2> QED BY <1>3, <2>1 DEF RecoveryInv, NothingForgotten, Ahead
<1>4. TypeOK /\ RecoveryInv /\ [Next]_vars => RecoveryInv'
  BY <1>2, <1>3, RecoveryCall, RecoveryTask, RecoveryRead, RecoverySpawn
     DEF Next, Loop
<1>5. RecoveryInv => NothingForgotten
  BY DEF RecoveryInv
<1> QED BY TypeCorrect, <1>1, <1>4, <1>5, PTL DEF Spec
----------------------------------------------------------------------------
(* The read of the next batch is what needs the bound: between it and the   *)
(* spawning of its tasks no other task appears.                             *)
BoundInv ==
  /\ PendingBound
  /\ loop = "spawn" => /\ Cardinality(Pending) <= MaxPending - 1
                       /\ Cardinality(batch) <= BatchSize

\* A step that only ends tasks keeps the bound.
LEMMA BoundShrinks ==
  ASSUME IsFiniteSet(Request), BoundInv, Pending' \subseteq Pending,
         loop' = "spawn" => loop = "spawn" /\ batch' = batch
  PROVE  BoundInv'
<1>1. IsFiniteSet(Pending) /\ IsFiniteSet(Pending')
  BY FS_Subset DEF Pending
<1>2. /\ Cardinality(Pending) \in Nat /\ Cardinality(Pending') \in Nat
      /\ Cardinality(Pending') <= Cardinality(Pending)
  BY <1>1, FS_Subset, FS_CardinalityType
<1>3. PendingBound'
  BY <1>2 DEF BoundInv, PendingBound
<1>4. loop' = "spawn" => /\ Cardinality(Pending') <= MaxPending - 1
                         /\ Cardinality(batch') <= BatchSize
  BY <1>2 DEF BoundInv
<1> QED BY <1>3, <1>4 DEF BoundInv

LEMMA TasksOnlyEnd ==
  ASSUME TypeOK, NEW r \in Request, Call(r) \/ Task(r)
  PROVE  Pending' \subseteq Pending /\ UNCHANGED <<loop, batch>>
<1> USE DEF TypeOK, Pending, taskVars, loopVars
<1>1. CASE Call(r)
  BY <1>1 DEF Call, CallEnqueue, CallPoll, CallAbort, CallCancel, Deadline
<1>2. CASE Task(r)
  <2>1. task[r] # "none"
    BY <1>2 DEF Task, TaskBegin, TaskGet, TaskClaim, TaskExists, TaskInvoke,
                TaskReturn, TaskSave, TaskRetry, Monitor
  <2>2. \A q \in Request : q # r => task'[q] = task[q]
    BY <1>2 DEF Task, TaskBegin, TaskGet, TaskClaim, TaskExists, TaskInvoke,
                TaskReturn, TaskSave, TaskRetry, Monitor, Finish, Goto, Erase
  <2>3. UNCHANGED <<loop, batch>>
    BY <1>2 DEF Task, TaskBegin, TaskGet, TaskClaim, TaskExists, TaskInvoke,
                TaskReturn, TaskSave, TaskRetry, Monitor
  <2> QED BY <2>1, <2>2, <2>3
<1> QED BY <1>1, <1>2

LEMMA BoundLoop ==
  ASSUME IsFiniteSet(Request), TypeOK, BoundInv, Loop
  PROVE  BoundInv'
<1>1. CASE LoopRead
  <2>1. Pending' = Pending
    BY <1>1 DEF LoopRead, taskVars, Pending
  <2>2. IsFiniteSet(Pending) /\ Cardinality(Pending) \in Nat
    BY FS_Subset, FS_CardinalityType DEF Pending
  <2>3. Cardinality(Pending) <= MaxPending - 1
    BY <1>1, <2>2 DEF LoopRead, HasRoom
  <2>4. loop' = "spawn" => Cardinality(batch') <= BatchSize
    BY <1>1 DEF LoopRead, ReadEffect, FirstOf
  <2> QED BY <2>1, <2>2, <2>3, <2>4 DEF BoundInv, PendingBound
<1>2. CASE LoopSpawn
  <2>1. Pending' \subseteq Pending \cup batch
    BY <1>2 DEF LoopSpawn, Spawn, Pending, TypeOK
  <2>2. IsFiniteSet(Pending) /\ IsFiniteSet(batch) /\ IsFiniteSet(Pending')
    BY FS_Subset DEF Pending, TypeOK
  <2>3. IsFiniteSet(Pending \cup batch)
        /\ Cardinality(Pending \cup batch)
             = Cardinality(Pending) + Cardinality(batch) - Cardinality(Pending \cap batch)
    BY <2>2, FS_Union
  <2>4. Cardinality(Pending') <= Cardinality(Pending \cup batch)
    BY <2>1, <2>3, FS_Subset
  <2>5. IsFiniteSet(Pending \cap batch)
    BY <2>2, FS_Subset
  <2>6. /\ Cardinality(Pending) \in Nat /\ Cardinality(batch) \in Nat
        /\ Cardinality(Pending') \in Nat /\ Cardinality(Pending \cap batch) \in Nat
    BY <2>2, <2>5, FS_CardinalityType
  <2>7. loop = "spawn" /\ loop' = "read"
    BY <1>2 DEF LoopSpawn
  <2>8. Cardinality(Pending) <= MaxPending - 1 /\ Cardinality(batch) <= BatchSize
    BY <2>7 DEF BoundInv
  <2> QED BY <2>3, <2>4, <2>6, <2>7, <2>8 DEF BoundInv, PendingBound
<1>3. CASE Stop
  BY <1>3, BoundShrinks DEF Stop, taskVars, loopVars, Pending
<1>4. CASE LoopDrain
  BY <1>4, BoundShrinks DEF LoopDrain, Pending
<1>5. CASE LoopStopped
  BY <1>5, BoundShrinks DEF LoopStopped, taskVars, Pending
<1> QED BY <1>1, <1>2, <1>3, <1>4, <1>5 DEF Loop

(* The back-pressure of RpcConsumerRuntime::run is tested before a read and *)
(* not against what the read returns: the tasks in memory exceed MaxPending *)
(* by at most one batch less one.                                           *)
THEOREM TasksAreBounded ==
  ASSUME IsFiniteSet(Request) PROVE Spec => []PendingBound
<1>1. Init => BoundInv
  <2> SUFFICES ASSUME Init PROVE BoundInv
    OBVIOUS
  <2>1. Pending = {}
    BY DEF Init, Pending
  <2> QED BY <2>1, FS_EmptySet DEF Init, BoundInv, PendingBound
<1>2. TypeOK /\ BoundInv /\ [Next]_vars => BoundInv'
  <2> SUFFICES ASSUME TypeOK, BoundInv, [Next]_vars PROVE BoundInv'
    OBVIOUS
  <2>1. CASE Loop
    BY <2>1, BoundLoop
  <2>2. CASE \E r \in Request : Call(r) \/ Task(r)
    BY <2>2, TasksOnlyEnd, BoundShrinks
  <2>3. CASE UNCHANGED vars
    BY <2>3, BoundShrinks DEF vars, taskVars, loopVars, Pending
  <2> QED BY <2>1, <2>2, <2>3 DEF Next
<1>3. BoundInv => PendingBound
  BY DEF BoundInv
<1> QED BY <1>1, <1>2, <1>3, TypeCorrect, PTL DEF Spec

(* What the runs check of deliveries at once: a request is executed at most *)
(* once, and no entry that was delivered is forgotten.                      *)
THEOREM RpcIsSafe == Spec => []RpcSafety
BY TypeCorrect, ExecutedAtMostOnce, DeliveredNeverForgotten, PTL DEF RpcSafety
----------------------------------------------------------------------------
(* What a verdict is worth.  HonestOutcome needs to know where verdicts     *)
(* come from: a handler that has run, or, of "unavailable", the lack of one *)
(* in the registry; the reply key and the result of the task carry it on.   *)
VerdictInv ==
  \A r \in Request :
    /\ task[r] = "run" => executed[r] = 1
    /\ executed[r] > 0 \/ task[r] \in {"invoke", "run"} => r \in Handled
    /\ "ok" \in {result[r], reply[r], outcome[r]} => executed[r] = 1
    /\ "unavailable" \in {result[r], reply[r], outcome[r]} => r \notin Handled

LEMMA VerdictCall ==
  ASSUME TypeOK, VerdictInv, NEW r \in Request, Call(r)
  PROVE  VerdictInv'
<1>1. UNCHANGED <<reply, taskVars>>
  BY DEF Call, CallEnqueue, CallPoll, CallAbort, CallCancel, Deadline, keyVars
<1>2. \A x \in Request : outcome'[x] \in {outcome[x], reply[x], "timeout",
                                          "error", "cancelled"}
  BY DEF Call, CallEnqueue, CallPoll, CallAbort, CallCancel, Deadline, GiveUp,
         Succeeded, clientVars, TypeOK
<1> QED BY <1>1, <1>2 DEF VerdictInv, taskVars

LEMMA VerdictTask ==
  ASSUME TypeOK, ClaimInv, VerdictInv, NEW r \in Request, Task(r)
  PROVE  VerdictInv'
<1>1. outcome' = outcome
  BY DEF Task, TaskBegin, TaskGet, TaskClaim, TaskExists, TaskInvoke,
         TaskReturn, TaskSave, TaskRetry, Monitor, clientVars
<1>2. CASE TaskInvoke(r)
  <2>1. /\ task[r] = "invoke" /\ task' = [task EXCEPT ![r] = "run"]
        /\ executed' = [executed EXCEPT ![r] = @ + 1] /\ UNCHANGED <<reply, result>>
    BY <1>2 DEF TaskInvoke, keyVars
  <2>2. executed[r] = 0
    BY <2>1 DEF ClaimInv
  <2> QED BY <1>1, <2>1, <2>2 DEF VerdictInv, TypeOK
<1>3. CASE TaskSave(r)
  <2>1. /\ reply' \in {reply, [reply EXCEPT ![r] = result[r]]}
        /\ result' \in {result, [result EXCEPT ![r] = None]}
        /\ executed' = executed
        /\ task' \in {[task EXCEPT ![r] = "none"], [task EXCEPT ![r] = "backoff"]}
    BY <1>3 DEF TaskSave, SaveEffect, Erase, Goto, keyVars
  <2> QED BY <1>1, <2>1 DEF VerdictInv, TypeOK, None
<1>4. CASE Task(r) /\ ~TaskInvoke(r) /\ ~TaskSave(r)
  <2>1. UNCHANGED <<reply, executed>>
    BY <1>4 DEF Task, TaskBegin, TaskGet, TaskClaim, TaskExists, TaskReturn,
                TaskRetry, Monitor, Finish, Goto, keyVars
  <2>2. \A x \in Request :
          /\ task'[x] = "run" => task[x] = "run"
          /\ task'[x] = "invoke" => task[x] = "invoke" \/ x \in Handled
          /\ result'[x] = "ok" => result[x] = "ok" \/ reply[x] = "ok"
                                  \/ task[x] = "run"
          /\ result'[x] = "unavailable" => \/ result[x] = "unavailable"
                                           \/ reply[x] = "unavailable"
                                           \/ x \notin Handled
    BY <1>4 DEF Task, TaskBegin, TaskGet, TaskClaim, TaskExists, TaskReturn,
                TaskRetry, Monitor, Finish, Goto, TypeOK
  <2> QED BY <1>1, <2>1, <2>2 DEF VerdictInv
<1> QED BY <1>2, <1>3, <1>4

LEMMA VerdictLoop ==
  ASSUME TypeOK, VerdictInv, Loop
  PROVE  VerdictInv'
<1>1. UNCHANGED <<outcome, reply, result, executed>>
  BY DEF Loop, LoopRead, LoopSpawn, Spawn, Stop, LoopDrain, LoopStopped,
         clientVars, keyVars, taskVars
<1>2. \A r \in Request : task'[r] \in {task[r], "begin"}
  BY DEF Loop, LoopRead, LoopSpawn, Spawn, Stop, LoopDrain, LoopStopped,
         taskVars, TypeOK
<1> QED BY <1>1, <1>2 DEF VerdictInv

(* Where verdicts come from, and that no handler runs twice.                *)
LEMMA VerdictsAreFounded == Spec => [](TypeOK /\ ClaimInv /\ VerdictInv)
<1>1. ASSUME Init PROVE ClaimInv /\ VerdictInv
  BY <1>1 DEF Init, ClaimInv, VerdictInv, None
<1>2. ClaimInv /\ VerdictInv /\ UNCHANGED vars => ClaimInv' /\ VerdictInv'
  BY DEF ClaimInv, VerdictInv, vars, keyVars, taskVars, clientVars
<1>3. TypeOK /\ ClaimInv /\ VerdictInv /\ [Next]_vars => ClaimInv' /\ VerdictInv'
  BY <1>2, ClaimTask, ClaimLoop, ClaimCall, VerdictTask, VerdictLoop,
     VerdictCall
     DEF Next
<1> QED BY TypeCorrect, <1>1, <1>3, PTL DEF Spec

(* A caller is told of success only when its handler has run, and that the  *)
(* component is unavailable only when it never will: also after deliveries  *)
(* that were repeated, lost answers, and late cancellations.                *)
THEOREM VerdictsAreHonest == Spec => []HonestOutcome
<1>1. TypeOK /\ VerdictInv => HonestOutcome
  BY DEF TypeOK, VerdictInv, HonestOutcome
<1> QED BY VerdictsAreFounded, <1>1, PTL

----------------------------------------------------------------------------
(* A successful reply survives because no task of the request is beyond the *)
(* read of that reply unless it has read it, or failed to.                  *)
KeptInv ==
  \A r \in Request :
    reply[r] = "ok" /\ ~expired[r] =>
      \/ task[r] \in {"none", "begin", "get"}
      \/ task[r] \in {"save", "backoff"} /\ result[r] \in {"ok", "error"}

LEMMA KeptTask ==
  ASSUME TypeOK, KeptInv, NEW r \in Request, Task(r)
  PROVE  KeptInv'
<1>1. expired' = expired
  BY DEF Task, TaskBegin, TaskGet, TaskClaim, TaskExists, TaskInvoke,
         TaskReturn, TaskSave, TaskRetry, Monitor
<1>2. CASE TaskSave(r)
  <2>1. CASE SaveEffect(r) /\ Erase(r)
    BY <1>1, <2>1 DEF KeptInv, SaveEffect, Erase, TypeOK
  <2>2. CASE SaveEffect(r) /\ Goto(r, "backoff")
    BY <1>1, <2>2 DEF KeptInv, SaveEffect, Goto, TypeOK
  <2>3. CASE reply' = reply /\ (Erase(r) \/ Goto(r, "backoff"))
    BY <1>1, <1>2, <2>3 DEF KeptInv, TaskSave, Erase, Goto, TypeOK
  <2> QED BY <1>2, <2>1, <2>2, <2>3 DEF TaskSave, keyVars
<1>3. CASE Task(r) /\ ~TaskSave(r)
  <2>1. reply' = reply
    BY <1>3 DEF Task, TaskBegin, TaskGet, TaskClaim, TaskExists, TaskInvoke,
                TaskReturn, TaskRetry, Monitor, keyVars
  <2>2. \A x \in Request : x # r => task'[x] = task[x] /\ result'[x] = result[x]
    BY <1>3 DEF Task, TaskBegin, TaskGet, TaskClaim, TaskExists, TaskInvoke,
                TaskReturn, TaskRetry, Monitor, Finish, Goto, TypeOK
  <2>3. reply[r] = "ok" /\ ~expired[r] =>
          \/ task'[r] \in {"none", "begin", "get"}
          \/ task'[r] \in {"save", "backoff"} /\ result'[r] \in {"ok", "error"}
    BY <1>3 DEF KeptInv, Task, TaskBegin, TaskGet, TaskClaim, TaskExists,
                TaskInvoke, TaskReturn, TaskRetry, Monitor, Finish, Goto,
                Answered, TypeOK, None
  <2> QED BY <1>1, <2>1, <2>2, <2>3 DEF KeptInv
<1> QED BY <1>2, <1>3

LEMMA KeptLoopAndCall ==
  ASSUME TypeOK, KeptInv, Loop \/ \E r \in Request : Call(r)
  PROVE  KeptInv'
<1>1. UNCHANGED <<reply, result>>
  BY DEF Loop, LoopRead, LoopSpawn, Spawn, Stop, LoopDrain, LoopStopped, Call,
         CallEnqueue, CallPoll, CallAbort, CallCancel, Deadline, keyVars, taskVars
<1>2. \A r \in Request : task'[r] \in {task[r], "begin"}
  BY DEF Loop, LoopRead, LoopSpawn, Spawn, Stop, LoopDrain, LoopStopped, Call,
         CallEnqueue, CallPoll, CallAbort, CallCancel, Deadline, taskVars, TypeOK
<1>3. \A r \in Request : expired[r] => expired'[r]
  BY DEF Loop, LoopRead, LoopSpawn, Stop, LoopDrain, LoopStopped, Call,
         CallEnqueue, CallPoll, CallAbort, CallCancel, Deadline, TypeOK
<1> QED BY <1>1, <1>2, <1>3 DEF KeptInv

LEMMA SuccessStays ==
  ASSUME TypeOK, VerdictInv, KeptInv, NEW r \in Request, Task(r),
         NEW x \in Request, reply[x] = "ok", ~expired[x]
  PROVE  reply'[x] = "ok" \/ (reply'[x] = "error" /\ executed[x] = 1)
<1>1. executed[x] = 1
  BY DEF VerdictInv
<1>2. CASE TaskSave(r)
  <2>1. reply' \in {reply, [reply EXCEPT ![r] = result[r]]} /\ task[r] = "save"
    BY <1>2 DEF TaskSave, SaveEffect, keyVars
  <2> QED BY <1>1, <2>1 DEF KeptInv, TypeOK
<1>3. CASE ~TaskSave(r)
  BY <1>3 DEF Task, TaskBegin, TaskGet, TaskClaim, TaskExists, TaskInvoke,
              TaskReturn, TaskRetry, Monitor, keyVars
<1> QED BY <1>2, <1>3

(* Neither a repeated delivery nor a late cancellation undoes a decision: a *)
(* success stays until the deadline unless the read of it fails, and a      *)
(* request whose cancellation is in Redis before its check never starts.    *)
THEOREM DecisionsAreFinal == Spec => DecisionsStand
<1>1. ASSUME Init PROVE KeptInv
  BY <1>1 DEF Init, KeptInv
<1>2. KeptInv /\ UNCHANGED vars => KeptInv'
  BY DEF KeptInv, vars, keyVars, taskVars
<1>3. TypeOK /\ KeptInv /\ [Next]_vars => KeptInv'
  BY <1>2, KeptTask, KeptLoopAndCall DEF Next
<1>4. TypeOK /\ VerdictInv /\ KeptInv /\ [Next]_vars
        => \/ \A r \in Request :
                reply[r] = "ok" /\ ~expired[r]
                  => \/ reply'[r] = "ok"
                     \/ reply'[r] = "error" /\ executed[r] = 1
           \/ UNCHANGED vars
  <2>1. ASSUME Loop \/ \E r \in Request : Call(r) PROVE reply' = reply
    BY <2>1 DEF Loop, LoopRead, LoopSpawn, Stop, LoopDrain, LoopStopped, Call,
           CallEnqueue, CallPoll, CallAbort, CallCancel, Deadline, keyVars
  <2> QED BY <2>1, SuccessStays DEF Next
<1>5. TypeOK /\ [Next]_vars
        => \/ \A r \in Request :
                cancelled[r] /\ executed[r] = 0 /\ task[r] # "invoke"
                  => executed'[r] = 0 /\ task'[r] # "invoke"
           \/ UNCHANGED vars
  <2>1. ASSUME TypeOK, NEW r \in Request, Task(r), NEW x \in Request,
               cancelled[x], executed[x] = 0, task[x] # "invoke"
        PROVE  executed'[x] = 0 /\ task'[x] # "invoke"
    BY <2>1 DEF TypeOK, Task, TaskBegin, TaskGet, TaskClaim, TaskExists,
                TaskInvoke, TaskReturn, TaskSave, TaskRetry, Monitor, Finish,
                Goto, Erase, Revoked
  <2>2. ASSUME TypeOK, Loop \/ \E r \in Request : Call(r), NEW x \in Request
        PROVE  executed' = executed /\ task'[x] \in {task[x], "begin"}
    BY <2>2 DEF TypeOK, Loop, LoopRead, LoopSpawn, Spawn, Stop, LoopDrain,
                LoopStopped, Call, CallEnqueue, CallPoll, CallAbort, CallCancel,
                Deadline, taskVars
  <2> QED BY <2>1, <2>2 DEF Next
<1>6. Spec => SuccessKept
  BY VerdictsAreFounded, <1>1, <1>3, <1>4, PTL DEF Spec, SuccessKept
<1>7. Spec => CancelledNeverStarts
  BY TypeCorrect, <1>5, PTL DEF Spec, CancelledNeverStarts
<1> QED BY <1>6, <1>7 DEF DecisionsStand
=============================================================================
