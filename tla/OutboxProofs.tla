---------------------------- MODULE OutboxProofs ----------------------------
(* What holds of Outbox for every set of events and workers, every batch    *)
(* limit and any number of failures.                                        *)
EXTENDS Outbox, Delivery, WellFoundedInduction, TLAPS

USE OutboxConstants DEF None, rowVars, txVars, loopVars, Fault, NoFault

(* TypeOK says more than types: it rests on Rollback resetting everything   *)
(* that a transaction remembers.                                            *)
LEMMA TypeInit == ASSUME Init PROVE TypeOK
  BY DEF Init, TypeOK

LEMMA TypeEvent ==
  ASSUME TypeOK, NEW e \in Event, Record(e) \/ Backoff(e)
  PROVE  TypeOK'
<1>1. CASE Record(e)
  <2>1. hint' \in [Worker -> BOOLEAN]
    <3>1. hint' = [x \in Worker |-> hint[x] \/ listening[x]]
      BY <1>1 DEF Record, Notify
    <3> QED BY <3>1, Zenon
  <2>2. row' \in [Event -> {"absent", "waiting", "published", "dead"}]
        /\ due' \in [Event -> BOOLEAN]
    BY <1>1 DEF Record, TypeOK
  <2> QED BY <1>1, <2>1, <2>2 DEF Record, TypeOK
<1>2. CASE Backoff(e)
  BY <1>2 DEF Backoff, TypeOK
<1> QED BY <1>1, <1>2

LEMMA TypeNotify == ASSUME TypeOK, Notify PROVE hint' \in [Worker -> BOOLEAN]
  BY Zenon DEF Notify

LEMMA TypeApply ==
  ASSUME TypeOK, NEW w \in Worker, Apply(w)
  PROVE  /\ row' \in [Event -> {"absent", "waiting", "published", "dead"}]
         /\ due' \in [Event -> BOOLEAN]
         /\ attempts' \in [Event -> Nat]
<1>1. row' \in [Event -> {"absent", "waiting", "published", "dead"}]
  BY DEF Apply, TypeOK
<1>2. due' \in [Event -> BOOLEAN]
  BY Zenon DEF Apply
<1>3. attempts' \in [Event -> Nat]
  BY DEF Apply, TypeOK
<1> QED BY <1>1, <1>2, <1>3

\* What the end of a transaction leaves of it.
LEMMA RollbackEffect ==
  ASSUME TypeOK, NEW w \in Worker, Rollback(w)
  PROVE  \A v \in Worker : /\ tx'[v] = IF v = w THEN "idle" ELSE tx[v]
                           /\ batch'[v] = IF v = w THEN {} ELSE batch[v]
                           /\ done'[v] = IF v = w THEN {} ELSE done[v]
                           /\ failed'[v] = IF v = w THEN None ELSE failed[v]
  BY DEF Rollback, TypeOK

LEMMA TypeRun ==
  ASSUME TypeOK, NEW w \in Worker, Run(w)
  PROVE  TypeOK'
<1>1. CASE Dispatch(w)
  <2>1. CASE faults' = faults + 1 /\ UNCHANGED <<tx, batch>>
    BY <1>1, <2>1 DEF Dispatch, TypeOK
  <2>2. CASE faults' = faults /\ UNCHANGED next
    <3>1. PICK S \in SUBSET Event :
            /\ batch' = [batch EXCEPT ![w] = S]
            /\ tx' = [tx EXCEPT ![w] = IF S = {} THEN "available" ELSE "publish"]
      BY <1>1, <2>2 DEF Dispatch, TypeOK
    <3>2. /\ tx[w] = "idle"
          /\ UNCHANGED <<rowVars, sent, done, failed, hint, listening>>
      BY <1>1 DEF Dispatch
    <3>3. /\ batch' \in [Worker -> SUBSET Event]
          /\ tx' \in [Worker -> {"idle", "available", "publish", "commit"}]
      BY <3>1 DEF TypeOK
    <3>4. \A v \in Worker : /\ v # w => tx'[v] = tx[v] /\ batch'[v] = batch[v]
                            /\ tx'[w] = "available" => batch'[w] = {}
                            /\ tx'[w] # "idle"
      BY <3>1 DEF TypeOK
    <3>5. batch[w] = {} /\ done[w] = {} /\ failed[w] = None
      BY <3>2 DEF TypeOK
    <3> QED BY <2>2, <3>2, <3>3, <3>4, <3>5 DEF TypeOK
  <2> QED BY <1>1, <2>1, <2>2 DEF Dispatch
<1>2. CASE Publish(w)
  BY <1>2 DEF Publish, TypeOK
<1>3. CASE Commit(w)
  <2>1. \/ Apply(w) \/ UNCHANGED <<row, due, attempts>>
    BY <1>3 DEF Commit
  <2>2. hint' \in [Worker -> BOOLEAN]
    <3>1. Notify \/ UNCHANGED hint
      BY <1>3 DEF Commit
    <3> QED BY <3>1, TypeNotify DEF TypeOK
  <2>3. /\ row' \in [Event -> {"absent", "waiting", "published", "dead"}]
        /\ due' \in [Event -> BOOLEAN]
        /\ attempts' \in [Event -> Nat]
    BY <2>1, TypeApply DEF TypeOK
  <2>4. /\ next' \in [Worker -> {"now", "timer", "never"}]
        /\ faults' \in Nat /\ UNCHANGED <<sent, listening>>
    BY <1>3 DEF Commit, TypeOK
  <2>5. Rollback(w)
    BY <1>3 DEF Commit
  <2> QED BY <2>2, <2>3, <2>4, <2>5 DEF Rollback, TypeOK
<1>4. CASE Abort(w) \/ Restart(w)
  <2>1. /\ Rollback(w) /\ faults' \in Nat /\ UNCHANGED <<row, due, attempts, sent>>
        /\ next' \in [Worker -> {"now", "timer", "never"}]
    BY <1>4 DEF Abort, Restart, TypeOK
  <2>2. hint' \in [Worker -> BOOLEAN] /\ listening' \in [Worker -> BOOLEAN]
    <3>1. CASE Abort(w)
      BY <3>1 DEF Abort, TypeOK
    <3>2. CASE Restart(w)
      BY <3>2 DEF Restart, TypeOK
    <3> QED BY <1>4, <3>1, <3>2
  <2> QED BY <2>1, <2>2 DEF Rollback, TypeOK
<1>5. CASE NextAvailable(w)
  <2>1. /\ next' \in [Worker -> {"now", "timer", "never"}] /\ faults' \in Nat
        /\ tx[w] = "available" /\ tx' = [tx EXCEPT ![w] = "idle"]
        /\ UNCHANGED <<rowVars, sent, batch, done, failed, hint, listening>>
    BY <1>5 DEF NextAvailable, TypeOK
  <2>2. /\ tx' \in [Worker -> {"idle", "available", "publish", "commit"}]
        /\ \A v \in Worker : tx'[v] = IF v = w THEN "idle" ELSE tx[v]
    BY <2>1 DEF TypeOK
  <2> QED BY <2>1, <2>2 DEF TypeOK
<1>7. CASE Timer(w)
  BY <1>7 DEF Timer, TypeOK
<1>9. CASE Disconnect(w)
  BY <1>9 DEF Disconnect, TypeOK
<1>8. CASE Wake(w)
  BY <1>8 DEF Wake, TypeOK
<1>6. CASE Connect(w)
  BY <1>6 DEF Connect, CatchUp, TypeOK
<1> QED BY <1>1, <1>2, <1>3, <1>4, <1>5, <1>6, <1>7, <1>8, <1>9 DEF Run

(* Every variable of Outbox keeps its type, and a worker outside a          *)
(* transaction of OutboxService::dispatch holds no lock.                    *)
THEOREM TypeCorrect == Spec => []TypeOK
<1>1. TypeOK /\ UNCHANGED vars => TypeOK'
  BY DEF TypeOK, vars
<1>2. TypeOK /\ [Next]_vars => TypeOK'
  BY <1>1, TypeEvent, TypeRun DEF Next
<1> QED BY TypeInit, <1>2, PTL DEF Spec

----------------------------------------------------------------------------
(* Row locks are exclusive, a locked row is still to be published, and an   *)
(* append that no fault pays for belongs to a row that is published, or is  *)
(* about to be by the one worker that holds its lock.                       *)
LockInv ==
  /\ \A w \in Worker : /\ batch[w] \subseteq Waiting /\ done[w] \subseteq batch[w]
                       /\ failed[w] \in (batch[w] \ done[w]) \cup {None}
  /\ \A v, w \in Worker : v # w => batch[v] \cap batch[w] = {}

SentInv ==
  \A e \in Event :
    /\ sent[e] <= 1 + faults
    /\ sent[e] <= faults \/ row[e] = "published" \/ \E w \in Worker : e \in done[w]
    /\ row[e] = "published" \/ (\E w \in Worker : e \in done[w]) => sent[e] > 0

LEMMA LockStep ==
  ASSUME TypeOK, LockInv, [Next]_vars
  PROVE  LockInv'
<1> USE DEF LockInv, Waiting
<1>1. ASSUME NEW e \in Event, Record(e) \/ Backoff(e) PROVE LockInv'
  BY <1>1, ZenonT(40) DEF Record, Backoff, TypeOK
<1>2. ASSUME NEW w \in Worker, Dispatch(w) PROVE LockInv'
  <2>1. CASE UNCHANGED <<row, batch, done, failed>>
    BY <2>1
  <2>2. ASSUME NEW S \in SUBSET Event, Selected(S),
               batch' = [batch EXCEPT ![w] = S], UNCHANGED <<row, done, failed>>,
               batch[w] = {}, failed[w] = None
        PROVE  LockInv'
    <3>0. S \subseteq {e \in Waiting : due[e]} \ Locked
      BY <2>2 DEF Selected
    <3>1. \A v \in Worker : v # w => S \cap batch[v] = {}
      <4>1. \A v \in Worker : batch[v] \subseteq Locked
        <5>1. ASSUME NEW v \in Worker, NEW e \in batch[v] PROVE e \in Locked
          <6>1. batch[v] \in {batch[u] : u \in Worker}
            BY Zenon
          <6> QED BY <6>1, Zenon DEF Locked
        <5> QED BY <5>1
      <4> QED BY <3>0, <4>1
    <3>2. S \subseteq Waiting
      BY <3>0
    <3>3. \A v \in Worker : batch'[v] = IF v = w THEN S ELSE batch[v]
      BY <2>2 DEF TypeOK
    <3>4. /\ \A v \in Worker : done'[v] = done[v] /\ failed'[v] = failed[v]
          /\ \A e \in Event : row'[e] = row[e]
      BY <2>2
    <3>5. done[w] = {}
      BY <2>2
    <3>6. ASSUME NEW v \in Worker
          PROVE  /\ batch'[v] \subseteq Waiting' /\ done'[v] \subseteq batch'[v]
                 /\ failed'[v] \in (batch'[v] \ done'[v]) \cup {None}
      <4>1. CASE v = w
        <5>1. done'[v] = {} /\ failed'[v] = None /\ batch'[v] = S
          BY <2>2, <3>3, <3>4, <3>5, <4>1
        <5>2. \A e \in S : e \in Waiting'
          BY <3>2, <3>4
        <5> QED BY <5>1, <5>2
      <4>2. CASE v # w
        BY <3>3, <3>4, <4>2
      <4> QED BY <4>1, <4>2
    <3>7. \A u, v \in Worker : u # v => batch'[u] \cap batch'[v] = {}
      BY <3>1, <3>3
    <3> QED BY <3>6, <3>7
  <2>3. tx[w] = "idle"
    BY <1>2 DEF Dispatch
  <2> QED BY <1>2, <2>1, <2>2, <2>3 DEF Dispatch, TypeOK
<1>3. ASSUME NEW w \in Worker, Publish(w) PROVE LockInv'
  BY <1>3 DEF Publish, TypeOK
<1>4. ASSUME NEW w \in Worker, Commit(w) PROVE LockInv'
  <2>1. Rollback(w)
    BY <1>4 DEF Commit
  <2>2. \A e \in Event : e \notin done[w] /\ e # failed[w] => row'[e] = row[e]
    BY <1>4 DEF Commit, Apply, TypeOK
  <2>3. \A v \in Worker : v # w => \A e \in batch[v] : row'[e] = row[e]
    BY <2>2 DEF TypeOK
  <2>4. ASSUME NEW v \in Worker
        PROVE  /\ batch'[v] \subseteq Waiting' /\ done'[v] \subseteq batch'[v]
               /\ failed'[v] \in (batch'[v] \ done'[v]) \cup {None}
    <3>1. CASE v = w
      BY <2>1, <3>1, RollbackEffect
    <3>2. CASE v # w
      BY <2>1, <2>3, <3>2, RollbackEffect
    <3> QED BY <3>1, <3>2
  <2>5. \A u, v \in Worker : u # v => batch'[u] \cap batch'[v] = {}
    BY <2>1, RollbackEffect
  <2> QED BY <2>4, <2>5
<1>5. ASSUME NEW w \in Worker, Abort(w) \/ Restart(w) PROVE LockInv'
  <2>1. Rollback(w) /\ UNCHANGED row
    BY <1>5 DEF Abort, Restart
  <2> QED BY <2>1, RollbackEffect
<1>6. ASSUME NEW w \in Worker,
             NextAvailable(w) \/ Timer(w) \/ Wake(w) \/ Connect(w) \/ Disconnect(w)
      PROVE LockInv'
  BY <1>6 DEF NextAvailable, Timer, Wake, Connect, Disconnect
<1>7. CASE UNCHANGED vars
  BY <1>7 DEF vars
<1> QED BY <1>1, <1>2, <1>3, <1>4, <1>5, <1>6, <1>7 DEF Next, Run

LEMMA SentStep ==
  ASSUME TypeOK, LockInv, SentInv, [Next]_vars
  PROVE  SentInv'
<1>1. ASSUME NEW e \in Event, Record(e) \/ Backoff(e) PROVE SentInv'
  BY <1>1 DEF Record, Backoff, TypeOK, SentInv
<1>2. ASSUME NEW w \in Worker, Publish(w) PROVE SentInv'
  <2>1. PICK e \in batch[w] \ done[w] :
          \/ /\ faults' = faults /\ sent' = [sent EXCEPT ![e] = @ + 1]
             /\ done' = [done EXCEPT ![w] = @ \cup {e}]
          \/ /\ faults' = faults + 1 /\ UNCHANGED done
             /\ \/ sent' = [sent EXCEPT ![e] = @ + 1]
                \/ UNCHANGED sent
    BY <1>2 DEF Publish
  <2>2. row' = row
    BY <1>2 DEF Publish
  <2>3. \A v \in Worker : e \notin done[v]
    BY DEF LockInv
  <2>4. e \in Event /\ row[e] = "waiting" /\ sent[e] <= faults
    BY <2>3 DEF LockInv, Waiting, SentInv
  <2>5. CASE faults' = faults /\ sent' = [sent EXCEPT ![e] = @ + 1]
             /\ done' = [done EXCEPT ![w] = @ \cup {e}]
    <3>1. \A v \in Worker : done[v] \subseteq done'[v]
      BY <2>5 DEF TypeOK
    <3>2. e \in done'[w] /\ sent'[e] = sent[e] + 1
      BY <2>4, <2>5 DEF TypeOK
    <3>3. \A x \in Event : x # e =>
            /\ sent'[x] = sent[x]
            /\ \A v \in Worker : x \in done'[v] => x \in done[v]
      BY <2>5 DEF TypeOK
    <3> QED BY <2>2, <2>4, <2>5, <3>1, <3>2, <3>3 DEF SentInv, TypeOK
  <2>6. CASE faults' = faults + 1 /\ UNCHANGED done
             /\ (sent' = [sent EXCEPT ![e] = @ + 1] \/ UNCHANGED sent)
    <3>1. \A x \in Event : sent'[x] \in Nat /\ sent[x] <= sent'[x]
                          /\ (x # e => sent'[x] = sent[x])
                          /\ sent'[e] <= sent[e] + 1
      BY <2>4, <2>6 DEF TypeOK
    <3> QED BY <2>2, <2>4, <2>6, <3>1 DEF SentInv, TypeOK
  <2> QED BY <2>1, <2>5, <2>6
<1>3. ASSUME NEW w \in Worker, Commit(w) PROVE SentInv'
  <2>1. Rollback(w) /\ UNCHANGED sent
    BY <1>3 DEF Commit
  <2>2. CASE Apply(w) /\ faults' \in {faults, faults + 1}
    <3>1. \A e \in done[w] : row'[e] = "published"
      BY <2>2 DEF Apply, TypeOK
    <3>2. \A e \in Event : row[e] = "published" => row'[e] = "published"
      <4>1. failed[w] = None \/ row[failed[w]] = "waiting"
        BY DEF LockInv, Waiting
      <4> QED BY <2>2, <4>1 DEF Apply, TypeOK
    <3>3. \A e \in Event : row'[e] = "published" => row[e] = "published" \/ e \in done[w]
      BY <2>2 DEF Apply, TypeOK
    <3> QED BY <2>1, <2>2, <3>1, <3>2, <3>3, RollbackEffect DEF SentInv, TypeOK
  <2>3. CASE UNCHANGED row /\ faults' = faults + 1
    BY <2>1, <2>3, RollbackEffect DEF SentInv, TypeOK
  <2> QED BY <1>3, <2>2, <2>3 DEF Commit
<1>4. ASSUME NEW w \in Worker, Abort(w) \/ Restart(w) PROVE SentInv'
  <2>1. Rollback(w) /\ UNCHANGED <<row, sent>> /\ faults' = faults + 1
    BY <1>4 DEF Abort, Restart
  <2> QED BY <2>1, RollbackEffect DEF SentInv, TypeOK
<1>5. ASSUME NEW w \in Worker,
             \/ Dispatch(w) \/ NextAvailable(w) \/ Timer(w) \/ Wake(w)
             \/ Connect(w) \/ Disconnect(w)
      PROVE SentInv'
  <2>1. UNCHANGED <<row, sent, done>> /\ faults' \in {faults, faults + 1}
    BY <1>5 DEF Dispatch, NextAvailable, Timer, Wake, Connect, Disconnect
  <2> QED BY <2>1 DEF SentInv, TypeOK
<1>6. CASE UNCHANGED vars
  BY <1>6 DEF vars, SentInv
<1> QED BY <1>1, <1>2, <1>3, <1>4, <1>5, <1>6 DEF Next, Run

LEMMA SentInit == ASSUME Init PROVE LockInv /\ SentInv
  BY DEF Init, LockInv, SentInv, Waiting

(* At least once: OutboxService::dispatch marks a row published only if its *)
(* event was appended, whatever happens to the rest of its batch.           *)
THEOREM PublishedRowsWereSent == Spec => []PublishedWasSent
<1>1. SentInv => PublishedWasSent
  BY DEF SentInv, PublishedWasSent
<1> QED BY <1>1, TypeCorrect, SentInit, LockStep, SentStep, PTL DEF Spec

(* Any number of workers append an event once between them, and once more   *)
(* at most for every failure.                                               *)
THEOREM DuplicatesArePaidFor == Spec => []DuplicatesAreFaults
<1>1. SentInv => DuplicatesAreFaults
  BY DEF SentInv, DuplicatesAreFaults
<1> QED BY <1>1, TypeCorrect, SentInit, LockStep, SentStep, PTL DEF Spec

----------------------------------------------------------------------------
(* A loop that has no timer is outside a transaction, and stays there until *)
(* it is woken.                                                             *)
WakeInv ==
  \A w \in Worker : next[w] = "never" => Waiting = {} \/ hint[w] \/ ~listening[w]

LEMMA WakeNotified ==
  ASSUME TypeOK, WakeInv, Notify, UNCHANGED <<next, listening>>
  PROVE  WakeInv'
<1>1. \A w \in Worker : hint'[w] = (hint[w] \/ listening[w])
  BY Zenon DEF Notify
<1> QED BY <1>1 DEF WakeInv

(* No lost wake-up: an outbox loop without a timer has nothing to publish,  *)
(* or is about to be woken by a notification or by its listener.            *)
THEOREM WakeupsAreNotLost == Spec => []NoLostWakeup
<1>1. ASSUME Init PROVE WakeInv
  BY <1>1 DEF Init, WakeInv
<1>2. ASSUME TypeOK, WakeInv, NEW e \in Event, Record(e) \/ Backoff(e)
      PROVE  WakeInv'
  <2>1. CASE Record(e)
    BY <1>2, <2>1, WakeNotified DEF Record
  <2>2. CASE Backoff(e)
    BY <1>2, <2>2 DEF Backoff, WakeInv, Waiting
  <2> QED BY <1>2, <2>1, <2>2
<1>3. ASSUME TypeOK, WakeInv, LockInv, NEW w \in Worker, Commit(w)
      PROVE  WakeInv'
  <2>1. Waiting' \subseteq Waiting
    <3>1. CASE Apply(w)
      <4>1. \A e \in Event : row'[e] = "waiting" => row[e] = "waiting"
        BY <1>3, <3>1 DEF Apply, TypeOK
      <4> QED BY <4>1 DEF Waiting
    <3>2. CASE UNCHANGED row
      BY <3>2 DEF Waiting
    <3> QED BY <1>3, <3>1, <3>2 DEF Commit
  <2>2. \A v \in Worker : next'[v] = "never" => next[v] = "never"
    BY <1>3 DEF Commit, TypeOK
  <2>3. \A v \in Worker : hint[v] => hint'[v]
    <3>1. CASE Notify
      BY <3>1, Zenon DEF Notify
    <3>2. CASE UNCHANGED hint
      BY <3>2
    <3> QED BY <1>3, <3>1, <3>2 DEF Commit
  <2>4. UNCHANGED listening
    BY <1>3 DEF Commit
  <2> QED BY <1>3, <2>1, <2>2, <2>3, <2>4 DEF WakeInv
<1>4. ASSUME TypeOK, WakeInv, NEW w \in Worker,
             \/ Dispatch(w) \/ Publish(w) \/ Abort(w) \/ Restart(w) \/ Timer(w)
      PROVE  WakeInv'
  <2>1. UNCHANGED row
    BY <1>4 DEF Dispatch, Publish, Abort, Restart, Timer
  <2>2. \A v \in Worker : next'[v] = "never" =>
          /\ next[v] = "never"
          /\ hint'[v] = hint[v] /\ listening'[v] = listening[v]
    <3>1. CASE Dispatch(w) \/ Publish(w)
      BY <1>4, <3>1 DEF Dispatch, Publish, TypeOK
    <3>2. CASE Abort(w) \/ Timer(w)
      BY <1>4, <3>2 DEF Abort, Timer, TypeOK
    <3>3. CASE Restart(w)
      BY <1>4, <3>3 DEF Restart, TypeOK
    <3> QED BY <1>4, <3>1, <3>2, <3>3
  <2> QED BY <1>4, <2>1, <2>2 DEF WakeInv, Waiting
<1>5. ASSUME TypeOK, WakeInv, NEW w \in Worker, NextAvailable(w)
      PROVE  WakeInv'
  <2>1. UNCHANGED <<row, hint, listening>>
    BY <1>5 DEF NextAvailable
  <2>2. next'[w] = "never" => Waiting = {}
    BY <1>5 DEF NextAvailable, Remaining, TypeOK
  <2>3. \A v \in Worker : v # w => next'[v] = next[v]
    BY <1>5 DEF NextAvailable, TypeOK
  <2> QED BY <1>5, <2>1, <2>2, <2>3 DEF WakeInv, Waiting
<1>6. ASSUME TypeOK, WakeInv, NEW w \in Worker, Wake(w) PROVE WakeInv'
  <2>1. UNCHANGED <<row, listening>> /\ next'[w] = "now"
    BY <1>6 DEF Wake, TypeOK
  <2>2. \A v \in Worker : v # w => next'[v] = next[v] /\ hint'[v] = hint[v]
    BY <1>6 DEF Wake, TypeOK
  <2> QED BY <1>6, <2>1, <2>2 DEF WakeInv, Waiting
<1>7. ASSUME TypeOK, WakeInv, NEW w \in Worker, Connect(w) \/ Disconnect(w)
      PROVE  WakeInv'
  <2>1. UNCHANGED <<row, next>>
    BY <1>7 DEF Connect, Disconnect
  <2>2. hint'[w] \/ ~listening'[w]
    BY <1>7 DEF Connect, Disconnect, CatchUp, TypeOK
  <2>3. \A v \in Worker : v # w =>
          hint'[v] = hint[v] /\ listening'[v] = listening[v]
    BY <1>7 DEF Connect, Disconnect, TypeOK
  <2> QED BY <1>7, <2>1, <2>2, <2>3 DEF WakeInv, Waiting
<1>8. WakeInv /\ UNCHANGED vars => WakeInv'
  BY DEF WakeInv, Waiting, vars
<1>9. TypeOK /\ LockInv /\ WakeInv /\ [Next]_vars => WakeInv'
  BY <1>2, <1>3, <1>4, <1>5, <1>6, <1>7, <1>8 DEF Next, Run
<1>10. WakeInv => NoLostWakeup
  BY DEF WakeInv, NoLostWakeup
<1> QED BY <1>1, <1>9, <1>10, TypeCorrect, SentInit, LockStep, PTL DEF Spec

(* What the runs check of the outbox at once: no event is lost, none is     *)
(* repeated without a failure, and no loop sleeps while one is left.        *)
THEOREM OutboxIsSafe == Spec => []OutboxSafety
BY TypeCorrect, PublishedRowsWereSent, DuplicatesArePaidFor, WakeupsAreNotLost,
   PTL
   DEF OutboxSafety

----------------------------------------------------------------------------
(* The delivery to webhooks and brokers                                     *)

LEMMA LeastNat ==
  ASSUME NEW S \in SUBSET Nat, S # {}
  PROVE  \E x \in S : \A y \in S : x <= y
<1> DEFINE R == OpToRel(<, Nat)
<1>1. IsWellFoundedOn(R, Nat)
  BY NatLessThanWellFounded
<1>2. \A x, y \in Nat : x < y => <<x, y>> \in R
  BY DEF OpToRel
<1> HIDE DEF R
<1>3. PICK x \in S : \A y \in S : ~ (<<y, x>> \in R)
  BY <1>1, WFMin
<1>4. \A y \in S : ~ (y < x)
  BY <1>2, <1>3, Zenon
<1> QED BY <1>4

Try == {"none", "post", "good", "bad", "sent", "failed"}
JobType == [batch : SUBSET Events, done : SUBSET Events, stuck : SUBSET DevicesOf(Events),
            tries : [Events -> [Target -> Try]]]
IsNew(e) == e \in queue /\ \A h \in Holder : e \notin held[h]
SameDevice(e, f) == DeviceOf[e] = DeviceOf[f]

\* What the stream and the pending lists hold: events are taken in the order of
\* their publication, each is pending for one worker at most, and a worker at
\* work has nothing pending outside its batch.
StreamInv ==
  /\ fresh \cap queue = {}
  /\ \A e \in fresh, f \in Events \ fresh : f < e
  /\ \A h \in Holder : held[h] \subseteq queue
  /\ \A h, k \in Holder : h # k => held[h] \cap held[k] = {}
  /\ \A e \in Events : IsNew(e) =>
       /\ \A h \in Holder : \A f \in held[h] : f < e
       /\ \A w \in Deliverer : \A f \in work[w].batch : f < e
  /\ \A w \in Deliverer : /\ Busy(w) => held[w] \subseteq work[w].batch
                          /\ work[w].batch \cap fresh = {}

\* Whose event it is: a worker that lost an event it works on may post it again,
\* and shares the events of its device with another.
OwnInv ==
  /\ \A w \in Deliverer : \A e \in work[w].batch :
       e \in held[w] \/ (DeviceOf[e] \in split /\ \A t \in Target : <<e, t>> \in doubt)
  /\ \A h, k \in Holder : h # k =>
       \A e \in held[h], f \in held[k] : SameDevice(e, f) => DeviceOf[e] \in split

\* Attempts are made at events of the batch, after those before them were
\* delivered.
TryInv ==
  \A w \in Deliverer :
    /\ \A e \in Events : work[w].tries[e] # Untried =>
         /\ e \in work[w].batch \ work[w].done
         /\ \A f \in work[w].batch : SameDevice(f, e) /\ f < e => f \in work[w].done
    /\ \A e \in work[w].done : Served(e)
    /\ \A e \in Events, t \in Target :
         LET try == work[w].tries[e][t]
         IN  /\ try = "sent" => t \in progress[e]
             /\ try = "good" => posts[e][t] > 0
             /\ try = "bad" => <<e, t>> \in doubt
             /\ try = "post" /\ <<e, t>> \notin doubt => posts[e][t] = 0 /\ t \notin progress[e]

PostInv ==
  /\ posts \in [Events -> [Target -> Nat]]
  /\ \A e \in Events, t \in Target :
       /\ t \in Mqtt /\ t \in progress[e] => posts[e][t] > 0
       /\ posts[e][t] > 0 /\ <<e, t>> \notin doubt =>
            t \in progress[e] \/ \E w \in Deliverer : work[w].tries[e][t] = "good"

\* What arrived after an event of its device came after that event is done with.
OrderInv ==
  /\ arrived \in [Target -> Seq(Events)]
  /\ \A t \in Target : \A i \in DOMAIN arrived[t] : \A f \in Events :
       LET e == arrived[t][i]
       IN  f < e /\ SameDevice(f, e) /\ DeviceOf[f] \notin split =>
             t \in progress[f] /\ \A w \in Deliverer : work[w].tries[f][t] # "post"

DeliveryInv ==
  /\ DeliveryTypeOK /\ GoneMeansDelivered /\ PostedOnce /\ ArriveInOrder
  /\ StreamInv /\ OwnInv /\ TryInv /\ PostInv /\ OrderInv

LEMMA NoBatchType ==
  /\ \A S \in SUBSET Events : /\ Begun(S) \in JobType /\ Begun(S).batch = S
                             /\ Begun(S).done = {} /\ Begun(S).tries = [e \in Events |-> Untried]
  /\ Untried \in [Target -> Try] /\ \A t \in Target : Untried[t] = "none"
  BY DEF Begun, Job, JobType, Untried, Try

LEMMA NewOnes == ASSUME DeliveryTypeOK PROVE NewEvents = {e \in Events : IsNew(e)}
  BY DEF NewEvents, IsNew, DeliveryTypeOK

LEMMA DeliveryInit == ASSUME InitDelivery PROVE DeliveryInv
<1> USE DeliveryConstants DEF InitDelivery
<1>1. /\ work = [w \in Deliverer |-> NoBatch] /\ NoBatch \in JobType
      /\ NoBatch.batch = {} /\ NoBatch.done = {}
      /\ NoBatch.tries = [e \in Events |-> Untried]
  BY NoBatchType DEF NoBatch
<1>2. DeliveryTypeOK
  BY <1>1 DEF DeliveryTypeOK, JobType, Try
<1>3. GoneMeansDelivered /\ PostedOnce /\ ArriveInOrder
  BY DEF GoneMeansDelivered, PostedOnce, ArriveInOrder
<1>4. StreamInv
  BY <1>1 DEF StreamInv, IsNew, Busy
<1>5. OwnInv
  BY <1>1 DEF OwnInv
<1>6. TryInv
  BY <1>1, NoBatchType DEF TryInv
<1>7. PostInv /\ OrderInv
  BY DEF PostInv, OrderInv
<1> QED BY <1>2, <1>3, <1>4, <1>5, <1>6, <1>7 DEF DeliveryInv

LEMMA PublishEventStep == ASSUME DeliveryInv, PublishEvent PROVE DeliveryInv'
<1> USE DeliveryConstants
<1> DEFINE e == CHOOSE x \in fresh : \A y \in fresh : x <= y
<1>1. e \in fresh /\ \A y \in fresh : e <= y
  <2>1. fresh \in SUBSET Nat /\ fresh # {}
    BY DEF DeliveryInv, DeliveryTypeOK, PublishEvent
  <2> QED BY <2>1, LeastNat
<1>2. /\ fresh' = fresh \ {e} /\ queue' = queue \cup {e}
      /\ UNCHANGED <<held, work, progress, arrived, posts, doubt, split, dfaults>>
  BY DEF PublishEvent
<1> HIDE DEF e
<1>3. DeliveryTypeOK'
  BY <1>1, <1>2 DEF DeliveryInv, DeliveryTypeOK
<1>4. StreamInv'
  <2>1. e \in Events /\ fresh \subseteq Events /\ queue \subseteq Events
    BY <1>1 DEF DeliveryInv, DeliveryTypeOK
  <2>2. \A f \in Events \ fresh : f < e
    BY <1>1 DEF DeliveryInv, StreamInv
  <2>3. \A f \in fresh \ {e} : e < f
    BY <1>1, <2>1
  <2>4. \A h \in Holder : held[h] \subseteq Events \ fresh
    BY <2>1 DEF DeliveryInv, StreamInv
  <2>5. \A w \in Deliverer : work[w].batch \subseteq Events \ fresh
    BY DEF DeliveryInv, DeliveryTypeOK, StreamInv
  <2> QED BY <1>1, <1>2, <2>1, <2>2, <2>3, <2>4, <2>5 DEF DeliveryInv,
             StreamInv, IsNew, Busy
<1>5. GoneMeansDelivered' /\ PostedOnce' /\ ArriveInOrder' /\ OwnInv' /\ TryInv' /\ PostInv' /\ OrderInv'
  BY <1>1, <1>2 DEF DeliveryInv, GoneMeansDelivered, PostedOnce, ArriveInOrder,
     OwnInv, TryInv,
    PostInv, OrderInv, Served, SameDevice
<1> QED BY <1>3, <1>4, <1>5 DEF DeliveryInv

\* A worker that begins a batch or gives one up forgets its attempts: no harm if
\* what arrived, and was not recorded, is in doubt.
LEMMA FreshBatch ==
  ASSUME DeliveryInv, NEW w \in Deliverer, NEW S, S \in SUBSET Events,
         work' = [work EXCEPT ![w] = Begun(S)],
         UNCHANGED <<fresh, progress, arrived, posts>>,
         doubt \subseteq doubt', doubt' \subseteq Events \X Target, split \subseteq split',
         \A e \in Events, t \in Target : work[w].tries[e][t] = "good" => <<e, t>> \in doubt'
  PROVE  /\ work' \in [Deliverer -> JobType]
         /\ work'[w].batch = S /\ work'[w].done = {}
         /\ \A v \in Deliverer \ {w} : work'[v] = work[v]
         /\ PostedOnce' /\ ArriveInOrder' /\ TryInv' /\ PostInv' /\ OrderInv'
<1> USE DeliveryConstants
<1>1. work \in [Deliverer -> JobType]
  BY DEF DeliveryInv, DeliveryTypeOK, JobType, Try
<1>2. /\ Begun(S) \in JobType /\ Begun(S).batch = S /\ Begun(S).done = {}
      /\ \A e \in Events : Begun(S).tries[e] = Untried
      /\ \A t \in Target : Untried[t] = "none"
  BY NoBatchType
<1>3. /\ work' \in [Deliverer -> JobType] /\ work'[w] = Begun(S)
      /\ \A v \in Deliverer \ {w} : work'[v] = work[v]
  BY <1>1, <1>2
<1>4. \A e \in Events, t \in Target : work'[w].tries[e] = Untried /\ work'[w].tries[e][t] = "none"
  BY <1>2, <1>3
<1>5. PostedOnce' /\ ArriveInOrder'
  BY DEF DeliveryInv, PostedOnce, ArriveInOrder
<1>6. TryInv'
  <2> SUFFICES ASSUME NEW v \in Deliverer
               PROVE  /\ \A e \in Events : work'[v].tries[e] # Untried =>
                         /\ e \in work'[v].batch \ work'[v].done
                         /\ \A f \in work'[v].batch : SameDevice(f, e) /\ f < e => f \in work'[v].done
                      /\ \A e \in work'[v].done : Served(e)'
                      /\ \A e \in Events, t \in Target :
                           LET try == work'[v].tries[e][t]
                           IN  /\ try = "sent" => t \in progress'[e]
                               /\ try = "good" => posts'[e][t] > 0
                               /\ try = "bad" => <<e, t>> \in doubt'
                               /\ try = "post" /\ <<e, t>> \notin doubt' =>
                                    posts'[e][t] = 0 /\ t \notin progress'[e]
    BY DEF TryInv, SameDevice
  <2>1. CASE v = w
    BY <2>1, <1>2, <1>3, <1>4
  <2>2. CASE v # w
    <3>1. work'[v] = work[v]
      BY <2>2, <1>3
    <3>2. \A e : Served(e) => Served(e)'
      BY DEF Served
    <3> QED BY <3>1, <3>2 DEF DeliveryInv, TryInv
  <2> QED BY <2>1, <2>2
<1>7. PostInv'
  <2> SUFFICES ASSUME NEW e \in Events, NEW t \in Target, posts[e][t] > 0, <<e, t>> \notin doubt',
                      t \notin progress[e]
               PROVE  \E v \in Deliverer : work'[v].tries[e][t] = "good"
    BY DEF DeliveryInv, PostInv
  <2>1. PICK v \in Deliverer : work[v].tries[e][t] = "good"
    BY DEF DeliveryInv, PostInv
  <2>2. v # w
    BY <2>1
  <2> QED BY <2>1, <2>2, <1>3
<1>8. OrderInv'
  <2>1. \A v \in Deliverer, f \in Events, t \in Target :
          work'[v].tries[f][t] = "post" => work[v].tries[f][t] = "post"
    BY <1>3, <1>4
  <2> QED BY <2>1 DEF DeliveryInv, OrderInv, SameDevice
<1> QED BY <1>2, <1>3, <1>5, <1>6, <1>7, <1>8

\* Reading: own entries, new ones, those of the dead or those of a slow worker.
LEMMA TakeStep ==
  ASSUME DeliveryInv, NEW w \in Deliverer, NEW S, TakeBatch(w, S), S \in SUBSET queue,
         \/ S = held[w]
         \/ held[w] = {} /\ (S = NewEvents \/ \E h \in Holder \ {w} : S = held[h]),
         \A v \in Deliverer \ {w} : \A e \in S \cap held[v] : \A t \in Target : <<e, t>> \in doubt',
         doubt \subseteq doubt', doubt' \subseteq Events \X Target,
         dfaults' \in 0 .. MaxDeliveryFaults
  PROVE  DeliveryInv'
<1> USE DeliveryConstants
<1>1. S \in SUBSET Events /\ w \in Holder
  BY DEF DeliveryInv, DeliveryTypeOK, Holder
<1>2. /\ work' = [work EXCEPT ![w] = Begun(S)]
      /\ UNCHANGED <<fresh, queue, progress, arrived, posts>>
      /\ held' = [h \in Holder |-> IF h = w THEN held[w] \cup S ELSE held[h] \ S]
      /\ work[w].batch = {} /\ S # {}
  BY DEF TakeBatch, Busy
<1>3. /\ split \subseteq split' /\ split' \subseteq split \cup DevicesOf(S)
      /\ \A h \in Holder \ {w} : \A e \in S, f \in held'[h] :
           SameDevice(e, f) => DeviceOf[e] \in split'
      /\ \A v \in Deliverer \ {w} : \A e \in S : \A f \in work[v].batch :
           SameDevice(e, f) => DeviceOf[e] \in split'
  BY DEF TakeBatch, DevicesOf, SameDevice
<1>4. \A e \in Events, t \in Target : work[w].tries[e][t] # "good"
  <2>1. \A e \in Events : work[w].tries[e] = Untried
    BY <1>2 DEF DeliveryInv, TryInv
  <2> QED BY <2>1, NoBatchType
<1>5. /\ work' \in [Deliverer -> JobType]
      /\ work'[w].batch = S /\ work'[w].done = {}
      /\ \A v \in Deliverer \ {w} : work'[v] = work[v]
      /\ PostedOnce' /\ ArriveInOrder' /\ TryInv' /\ PostInv' /\ OrderInv'
  BY <1>1, <1>2, <1>3, <1>4, FreshBatch
<1>6. DeliveryTypeOK'
  <2>1. split' \subseteq DevicesOf(Events)
    <3>1. DevicesOf(S) \subseteq DevicesOf(Events)
      BY <1>1 DEF DevicesOf
    <3> QED BY <3>1, <1>3 DEF DeliveryInv, DeliveryTypeOK
  <2>2. held' \in [Holder -> SUBSET Events]
    BY <1>1, <1>2 DEF DeliveryInv, DeliveryTypeOK
  <2>3. \A v \in Deliverer : work'[v].done \subseteq work'[v].batch
    BY <1>5 DEF DeliveryInv, DeliveryTypeOK
  <2> QED BY <1>2, <1>5, <2>1, <2>2, <2>3 DEF DeliveryInv, DeliveryTypeOK,
             JobType, Try
<1>7. GoneMeansDelivered'
  BY <1>2 DEF DeliveryInv, GoneMeansDelivered, Served
<1>8. held'[w] = S /\ \A h \in Holder \ {w} : held'[h] = held[h] \ S
  BY <1>1, <1>2
<1>9. StreamInv'
  <2>1. \A e \in Events : IsNew(e)' => IsNew(e) /\ e \notin S
    BY <1>1, <1>2 DEF IsNew
  <2>2. \A h \in Holder : held'[h] \subseteq queue
    BY <1>8, <1>2 DEF DeliveryInv, StreamInv
  <2>3. \A h, k \in Holder : h # k => held'[h] \cap held'[k] = {}
    BY <1>8 DEF DeliveryInv, StreamInv
  <2>4. \A e \in Events : IsNew(e)' => \A f \in S : f < e
    <3>1. CASE S = NewEvents
      BY <3>1, <2>1, NewOnes DEF DeliveryInv
    <3>2. CASE \E h \in Holder : S = held[h]
      BY <3>2, <2>1 DEF DeliveryInv, StreamInv
    <3> QED BY <3>1, <3>2, <1>1
  <2>5. \A e \in Events : IsNew(e)' =>
          /\ \A h \in Holder : \A f \in held'[h] : f < e
          /\ \A v \in Deliverer : \A f \in work'[v].batch : f < e
    <3> SUFFICES ASSUME NEW e \in Events, IsNew(e)'
                 PROVE  /\ \A h \in Holder : \A f \in held'[h] : f < e
                        /\ \A v \in Deliverer : \A f \in work'[v].batch : f < e
      OBVIOUS
    <3>1. /\ \A h \in Holder : \A f \in held[h] : f < e
          /\ \A v \in Deliverer : \A f \in work[v].batch : f < e
      BY <2>1 DEF DeliveryInv, StreamInv
    <3> QED BY <3>1, <2>4, <1>8, <1>5
  <2>6. \A v \in Deliverer : /\ Busy(v)' => held'[v] \subseteq work'[v].batch
                             /\ work'[v].batch \cap fresh' = {}
    <3>1. /\ S \cap fresh = {}
          /\ \A v \in Deliverer : /\ Busy(v) => held[v] \subseteq work[v].batch
                                  /\ work[v].batch \cap fresh = {}
      BY DEF DeliveryInv, StreamInv
    <3> QED BY <3>1, <1>2, <1>5, <1>8 DEF Busy, Holder
  <2> QED BY <1>2, <2>2, <2>3, <2>5, <2>6 DEF DeliveryInv, StreamInv
<1>10. OwnInv'
  <2>1. ASSUME NEW v \in Deliverer, NEW e \in work'[v].batch
        PROVE  e \in held'[v] \/ (DeviceOf[e] \in split' /\ \A t \in Target : <<e, t>> \in doubt')
    <3>1. CASE v = w
      BY <3>1, <1>5, <1>8
    <3>2. CASE v # w
      <4>1. e \in work[v].batch /\ v \in Holder \ {w}
        BY <3>2, <1>5 DEF Holder
      <4>2. e \in held[v] \/ (DeviceOf[e] \in split /\ \A t \in Target : <<e, t>> \in doubt)
        BY <4>1 DEF DeliveryInv, OwnInv
      <4>3. CASE e \in held[v] \cap S
        BY <4>3, <4>1, <1>3 DEF SameDevice
      <4> QED BY <4>1, <4>2, <4>3, <1>3, <1>8
    <3> QED BY <3>1, <3>2
  <2>2. ASSUME NEW h \in Holder, NEW k \in Holder, h # k, NEW e \in held'[h], NEW f \in held'[k],
               SameDevice(e, f)
        PROVE  DeviceOf[e] \in split'
    <3>1. CASE h = w
      BY <2>2, <3>1, <1>3, <1>8
    <3>2. CASE k = w
      BY <2>2, <3>2, <1>3, <1>8 DEF SameDevice
    <3>3. CASE h # w /\ k # w
      BY <2>2, <3>3, <1>3, <1>8 DEF DeliveryInv, OwnInv
    <3> QED BY <3>1, <3>2, <3>3
  <2> QED BY <2>1, <2>2 DEF OwnInv, SameDevice
<1> QED BY <1>5, <1>6, <1>7, <1>9, <1>10 DEF DeliveryInv

LEMMA ReadStep ==
  ASSUME DeliveryInv, NEW w \in Deliverer,
         TakeOwn(w) \/ TakeNew(w) \/ TakeOver(w) \/ TakeFromSlow(w)
  PROVE  DeliveryInv'
<1> USE DeliveryConstants
<1>1. /\ doubt \subseteq Events \X Target /\ dfaults \in 0 .. MaxDeliveryFaults
      /\ \A h \in Holder : held[h] \subseteq queue /\ held[h] \subseteq Events
      /\ NewEvents \subseteq queue
      /\ w \in Holder /\ Gone \in Holder \ {w} /\ Deliverer \subseteq Holder
      /\ \A h, k \in Holder : h # k => held[h] \cap held[k] = {}
  BY DEF DeliveryInv, DeliveryTypeOK, StreamInv, NewEvents, Holder
<1>2. CASE TakeOwn(w)
  <2>1. /\ TakeBatch(w, held[w]) /\ doubt' = doubt /\ dfaults' = dfaults
    BY <1>2 DEF TakeOwn, NoNewFault
  <2>2. \A v \in Deliverer \ {w} : held[w] \cap held[v] = {}
    BY <1>1
  <2> QED BY <1>1, <2>1, <2>2, TakeStep
<1>3. CASE TakeNew(w)
  <2>1. /\ held[w] = {} /\ TakeBatch(w, NewEvents) /\ doubt' = doubt /\ dfaults' = dfaults
    BY <1>3 DEF TakeNew, NoNewFault
  <2>2. \A v \in Deliverer \ {w} : NewEvents \cap held[v] = {}
    BY <1>1 DEF NewEvents
  <2> QED BY <1>1, <2>1, <2>2, TakeStep
<1>4. CASE TakeOver(w)
  <2>1. /\ held[w] = {} /\ TakeBatch(w, held[Gone]) /\ doubt' = doubt /\ dfaults' = dfaults
    BY <1>4 DEF TakeOver, NoNewFault
  <2>2. \A v \in Deliverer \ {w} : held[Gone] \cap held[v] = {}
    BY <1>1
  <2> QED BY <1>1, <2>1, <2>2, TakeStep
<1>5. CASE TakeFromSlow(w)
  <2>1. PICK v \in Deliverer \ {w} :
          /\ held[w] = {} /\ TakeBatch(w, held[v])
          /\ doubt' = doubt \cup (held[v] \X Target)
          /\ dfaults < MaxDeliveryFaults /\ dfaults' = dfaults + 1
    BY <1>5 DEF TakeFromSlow, OneMoreFault
  <2>2. /\ v \in Holder \ {w} /\ doubt \subseteq doubt' /\ doubt' \subseteq Events \X Target
        /\ \A e \in held[v] : \A t \in Target : <<e, t>> \in doubt'
        /\ dfaults' \in 0 .. MaxDeliveryFaults
    BY <1>1, <2>1
  <2> QED BY <1>1, <2>1, <2>2, TakeStep
<1> QED BY <1>2, <1>3, <1>4, <1>5

\* Only the attempts of one worker at one event change.
LEMMA SetTriesEffect ==
  ASSUME DeliveryTypeOK, NEW w \in Deliverer, NEW e \in Events, NEW tries \in [Target -> Try],
         SetTries(w, e, tries)
  PROVE  /\ work' \in [Deliverer -> JobType]
         /\ \A v \in Deliverer : /\ work'[v].batch = work[v].batch
                                 /\ work'[v].done = work[v].done
         /\ \A v \in Deliverer, f \in Events :
              work'[v].tries[f] = IF v = w /\ f = e THEN tries ELSE work[v].tries[f]
<1>1. work \in [Deliverer -> JobType] /\ work[w] \in JobType
  BY DEF DeliveryTypeOK, JobType, Try
<1> DEFINE j == Job(work[w].batch, work[w].done, work[w].stuck, [work[w].tries EXCEPT ![e] = tries])
<1>2. /\ j \in JobType /\ j.batch = work[w].batch /\ j.done = work[w].done
      /\ j.tries = [work[w].tries EXCEPT ![e] = tries]
  BY <1>1 DEF Job, JobType
<1>3. work' = [work EXCEPT ![w] = j]
  BY DEF SetTries
<1> HIDE DEF j
<1>4. work' \in [Deliverer -> JobType] /\ work'[w] = j /\ \A v \in Deliverer \ {w} : work'[v] = work[v]
  BY <1>1, <1>2, <1>3
<1>5. work[w].tries \in [Events -> [Target -> Try]]
  BY <1>1 DEF JobType
<1>6. \A f \in Events : j.tries[f] = IF f = e THEN tries ELSE work[w].tries[f]
  BY <1>2, <1>5
<1> QED BY <1>2, <1>4, <1>6

LEMMA SetTryEffect ==
  ASSUME DeliveryTypeOK, NEW w \in Deliverer, NEW e \in Events, NEW t \in Target, NEW state \in Try,
         SetTry(w, e, t, state)
  PROVE  /\ work' \in [Deliverer -> JobType]
         /\ \A v \in Deliverer : /\ work'[v].batch = work[v].batch
                                 /\ work'[v].done = work[v].done
         /\ \A v \in Deliverer, f \in Events, u \in Target :
              work'[v].tries[f][u] =
                IF v = w /\ f = e /\ u = t THEN state ELSE work[v].tries[f][u]
         /\ \A v \in Deliverer, f \in Events :
              (v = w /\ f = e) \/ work'[v].tries[f] = work[v].tries[f]
<1> DEFINE tries == [work[w].tries[e] EXCEPT ![t] = state]
<1>1. work[w].tries[e] \in [Target -> Try]
  BY DEF DeliveryTypeOK, Try
<1>2. /\ tries \in [Target -> Try] /\ SetTries(w, e, tries)
      /\ \A u \in Target : tries[u] = IF u = t THEN state ELSE work[w].tries[e][u]
  BY <1>1 DEF SetTry
<1> HIDE DEF tries
<1> QED BY <1>2, SetTriesEffect

\* Two workers have an event only if it is in doubt, and its device is split.
LEMMA SoleOwner ==
  ASSUME DeliveryInv, NEW v \in Deliverer, NEW w \in Deliverer, v # w,
         NEW e \in work[v].batch, e \in work[w].batch
  PROVE  DeviceOf[e] \in split /\ \A t \in Target : <<e, t>> \in doubt
<1>1. ~(e \in held[v] /\ e \in held[w])
  BY DEF DeliveryInv, StreamInv, Holder
<1> QED BY <1>1 DEF DeliveryInv, OwnInv

LEMMA TriedIsInBatch ==
  ASSUME DeliveryInv, NEW w \in Deliverer, NEW e \in Events, NEW t \in Target,
         work[w].tries[e][t] # "none"
  PROVE  e \in work[w].batch /\ e \notin work[w].done
<1>1. work[w].tries[e] # Untried
  BY NoBatchType
<1> QED BY <1>1 DEF DeliveryInv, TryInv

LEMMA StartEventStep ==
  ASSUME DeliveryInv, NEW w \in Deliverer, NEW e \in Events, StartEvent(w, e)
  PROVE  DeliveryInv'
<1> USE DeliveryConstants
<1> DEFINE tries == [t \in Target |-> IF t \in TargetsLeft(e) THEN "post" ELSE "sent"]
<1>1. /\ tries \in [Target -> Try] /\ SetTries(w, e, tries) /\ DeliveryTypeOK
      /\ \A t \in Target : tries[t] = IF t \in progress[e] THEN "sent" ELSE "post"
      /\ work[w].tries[e] = Untried /\ IsNext(w, e)
      /\ UNCHANGED <<fresh, queue, held, progress, arrived, posts, doubt, split, dfaults>>
  BY DEF StartEvent, TargetsLeft, Try, DeliveryInv
<1> HIDE DEF tries
<1>2. /\ work' \in [Deliverer -> JobType]
      /\ \A v \in Deliverer : /\ work'[v].batch = work[v].batch
                              /\ work'[v].done = work[v].done
      /\ \A v \in Deliverer, f \in Events :
           work'[v].tries[f] = IF v = w /\ f = e THEN tries ELSE work[v].tries[f]
  BY <1>1, SetTriesEffect
<1>3. /\ e \in work[w].batch \ work[w].done
      /\ \A f \in work[w].batch : SameDevice(f, e) /\ f < e => f \in work[w].done
  BY <1>1 DEF IsNext, SameDevice, DeliveryInv, DeliveryTypeOK
<1>4. \A t \in Target : work[w].tries[e][t] = "none"
  BY <1>1, NoBatchType
<1>5. DeliveryTypeOK'
  BY <1>1, <1>2 DEF DeliveryTypeOK, JobType, Try
<1>6. GoneMeansDelivered' /\ PostedOnce' /\ ArriveInOrder' /\ OwnInv' /\ StreamInv'
  BY <1>1, <1>2 DEF DeliveryInv, GoneMeansDelivered, PostedOnce, ArriveInOrder,
     OwnInv, StreamInv,
    Served, SameDevice, Busy, IsNew
<1>7. TryInv'
  <2>1. ASSUME NEW t \in Target, t \notin progress[e], <<e, t>> \notin doubt
        PROVE  posts[e][t] = 0
    <3>1. \A v \in Deliverer : work[v].tries[e][t] # "good"
      BY <2>1, <1>3, <1>4, TriedIsInBatch, SoleOwner
    <3> QED BY <2>1, <3>1 DEF DeliveryInv, PostInv
  <2>2. ASSUME NEW v \in Deliverer, NEW f \in Events, work'[v].tries[f] # Untried
        PROVE  /\ f \in work'[v].batch \ work'[v].done
               /\ \A g \in work'[v].batch : SameDevice(g, f) /\ g < f => g \in work'[v].done
    BY <2>2, <1>2, <1>3 DEF DeliveryInv, TryInv
  <2>3. ASSUME NEW v \in Deliverer, NEW f \in work'[v].done
        PROVE  Served(f)'
    BY <1>1, <1>2 DEF DeliveryInv, TryInv, Served
  <2>4. ASSUME NEW v \in Deliverer, NEW f \in Events, NEW t \in Target
        PROVE  LET try == work'[v].tries[f][t]
               IN  /\ try = "sent" => t \in progress'[f]
                   /\ try = "good" => posts'[f][t] > 0
                   /\ try = "bad" => <<f, t>> \in doubt'
                   /\ try = "post" /\ <<f, t>> \notin doubt' => posts'[f][t] = 0 /\ t \notin progress'[f]
    <3>1. CASE v = w /\ f = e
      BY <3>1, <1>1, <1>2, <2>1
    <3>2. CASE ~(v = w /\ f = e)
      <4>1. work'[v].tries[f] = work[v].tries[f]
        BY <3>2, <1>2
      <4> QED BY <4>1, <1>1 DEF DeliveryInv, TryInv
    <3> QED BY <3>1, <3>2
  <2> QED BY <2>2, <2>3, <2>4 DEF TryInv, SameDevice
<1>8. PostInv'
  <2>1. \A v \in Deliverer, f \in Events, t \in Target :
          work[v].tries[f][t] = "good" => work'[v].tries[f][t] = "good"
    BY <1>2, <1>4
  <2> QED BY <2>1, <1>1 DEF DeliveryInv, PostInv
<1>9. OrderInv'
  <2>1. ASSUME NEW t \in Target, NEW i \in DOMAIN arrived[t], NEW f \in Events,
               f < arrived[t][i], SameDevice(f, arrived[t][i]), DeviceOf[f] \notin split
        PROVE  t \in progress[f] /\ \A v \in Deliverer : work'[v].tries[f][t] # "post"
    <3>1. t \in progress[f] /\ \A v \in Deliverer : work[v].tries[f][t] # "post"
      BY <2>1 DEF DeliveryInv, OrderInv
    <3>2. tries[t] # "post" \/ f # e
      BY <3>1, <1>1
    <3> QED BY <3>1, <3>2, <1>2
  <2> QED BY <2>1, <1>1 DEF DeliveryInv, OrderInv, SameDevice
<1> QED BY <1>5, <1>6, <1>7, <1>8, <1>9 DEF DeliveryInv

\* The event that arrives at a target: those of its device before it are done
\* with, unless two workers share them.
LEMMA BeforeIsDone ==
  ASSUME DeliveryInv, NEW w \in Deliverer, NEW e \in Events, NEW t \in Target,
         work[w].tries[e][t] # "none",
         NEW f \in Events, f < e, SameDevice(f, e), DeviceOf[f] \notin split
  PROVE  t \in progress[f] /\ \A v \in Deliverer : work[v].tries[f][t] # "post"
<1> USE DeliveryConstants
<1>1. e \in work[w].batch /\ work[w].tries[e] # Untried
  BY TriedIsInBatch, NoBatchType
<1>2. DeviceOf[e] \notin split
  BY DEF SameDevice
<1>3. /\ e \in held[w] /\ w \in Holder /\ held[w] \subseteq work[w].batch
      /\ work[w].batch \cap fresh = {} /\ held[w] \subseteq queue
  BY <1>1, <1>2 DEF DeliveryInv, OwnInv, StreamInv, Holder, Busy
<1>4. f \notin fresh
  <2>1. f \in fresh => e < f
    BY <1>1, <1>3 DEF DeliveryInv, StreamInv
  <2> QED BY <2>1
<1>5. \A v \in Deliverer : work[v].tries[f][t] # "none" => f \in held[v] /\ f \notin work[v].done
  BY TriedIsInBatch DEF DeliveryInv, OwnInv
<1>6. CASE f \in queue
  <2>1. ~IsNew(f)
    <3> SUFFICES ASSUME IsNew(f) PROVE FALSE
      OBVIOUS
    <3>1. e < f
      BY <1>3 DEF DeliveryInv, StreamInv
    <3> QED BY <3>1
  <2>2. PICK h \in Holder : f \in held[h]
    BY <2>1, <1>6 DEF IsNew
  <2>3. h = w
    BY <2>2, <1>3 DEF DeliveryInv, OwnInv
  <2>4. f \in work[w].done
    BY <2>2, <2>3, <1>1, <1>3 DEF DeliveryInv, TryInv
  <2>5. t \in progress[f]
    BY <2>4 DEF DeliveryInv, TryInv, Served
  <2>6. \A v \in Deliverer : f \in held[v] => v = w
    BY <2>2, <2>3 DEF DeliveryInv, StreamInv, Holder
  <2> QED BY <2>4, <2>5, <2>6, <1>5
<1>7. CASE f \notin queue
  <2>1. t \in progress[f]
    BY <1>4, <1>7 DEF DeliveryInv, GoneMeansDelivered, Served
  <2>2. \A v \in Deliverer : f \notin held[v]
    BY <1>7 DEF DeliveryInv, StreamInv, Holder
  <2> QED BY <2>1, <2>2, <1>5
<1> QED BY <1>6, <1>7

\* What arrives is counted, and keeps its place when it arrives again.
LEMMA ArriveEffect ==
  ASSUME DeliveryInv, NEW w \in Deliverer, NEW e \in Events, NEW t \in Target,
         work[w].tries[e][t] = "post",
         Arrive(e, t) \/ UNCHANGED <<arrived, posts>>, UNCHANGED split
  PROVE  /\ posts' \in [Events -> [Target -> Nat]]
         /\ \A f \in Events, u \in Target : posts[f][u] <= posts'[f][u]
         /\ \A f \in Events, u \in Target : (f = e /\ u = t) \/ posts'[f][u] = posts[f][u]
         /\ posts'[e][t] <= posts[e][t] + 1
         /\ ArriveInOrder'
         /\ arrived' \in [Target -> Seq(Events)]
         /\ \A u \in Target : \A i \in DOMAIN arrived'[u] : \A f \in Events :
              LET x == arrived'[u][i]
              IN  f < x /\ SameDevice(f, x) /\ DeviceOf[f] \notin split =>
                    u \in progress[f] /\ \A v \in Deliverer : work[v].tries[f][u] # "post"
<1> USE DeliveryConstants
<1> DEFINE Behind(f, u) == u \in progress[f] /\ \A v \in Deliverer : work[v].tries[f][u] # "post"
<1>1. /\ posts \in [Events -> [Target -> Nat]] /\ arrived \in [Target -> Seq(Events)]
      /\ \A u \in Target : \A i \in DOMAIN arrived[u] : \A f \in Events :
           f < arrived[u][i] /\ SameDevice(f, arrived[u][i]) /\ DeviceOf[f] \notin split => Behind(f, u)
      /\ ArriveInOrder
  BY DEF DeliveryInv, PostInv, OrderInv
<1>2. ~Behind(e, t)
  OBVIOUS
<1>3. \A f \in Events : f < e /\ SameDevice(f, e) /\ DeviceOf[f] \notin split => Behind(f, t)
  BY BeforeIsDone
<1> HIDE DEF Behind
<1>4. CASE UNCHANGED <<arrived, posts>>
  <2>1. ArriveInOrder'
    BY <1>1, <1>4 DEF ArriveInOrder
  <2> QED BY <1>1, <1>4, <2>1 DEF Behind
<1>5. CASE Arrive(e, t)
  <2>1. /\ posts' \in [Events -> [Target -> Nat]]
        /\ \A f \in Events, u \in Target : posts[f][u] <= posts'[f][u]
        /\ \A f \in Events, u \in Target : (f = e /\ u = t) \/ posts'[f][u] = posts[f][u]
        /\ posts'[e][t] <= posts[e][t] + 1
    BY <1>1, <1>5 DEF Arrive
  <2>2. CASE Contains(arrived[t], e)
    <3>1. arrived' = arrived
      BY <2>2, <1>1, <1>5 DEF Arrive
    <3>2. ArriveInOrder'
      BY <1>1, <3>1 DEF ArriveInOrder
    <3> QED BY <1>1, <2>1, <3>1, <3>2 DEF Behind
  <2>3. CASE ~Contains(arrived[t], e)
    <3>1. arrived' = [arrived EXCEPT ![t] = Append(arrived[t], e)]
      BY <2>3, <1>5 DEF Arrive
    <3>2. /\ arrived' \in [Target -> Seq(Events)]
          /\ \A u \in Target \ {t} : arrived'[u] = arrived[u]
          /\ arrived'[t] = Append(arrived[t], e)
      BY <1>1, <3>1
    <3> DEFINE n == Len(arrived[t])
    <3>3. /\ n \in Nat /\ DOMAIN arrived'[t] = 1 .. n + 1 /\ DOMAIN arrived[t] = 1 .. n
          /\ arrived'[t][n + 1] = e /\ \A i \in 1 .. n : arrived'[t][i] = arrived[t][i] /\ arrived[t][i] \in Events
      BY <1>1, <3>2
    <3>4. \A i \in 1 .. n : arrived[t][i] # e
      BY <2>3, <3>3 DEF Contains
    <3> HIDE DEF n
    <3>5. \A u \in Target : \A i \in DOMAIN arrived'[u] : \A f \in Events :
            f < arrived'[u][i] /\ SameDevice(f, arrived'[u][i]) /\ DeviceOf[f] \notin split => Behind(f, u)
      <4> SUFFICES ASSUME NEW u \in Target, NEW i \in DOMAIN arrived'[u], NEW f \in Events,
                          f < arrived'[u][i], SameDevice(f, arrived'[u][i]), DeviceOf[f] \notin split
                   PROVE  Behind(f, u)
        OBVIOUS
      <4>1. CASE u # t
        BY <4>1, <3>2, <1>1
      <4>2. CASE u = t /\ i = n + 1
        BY <4>2, <3>3, <1>3
      <4>3. CASE u = t /\ i \in 1 .. n
        BY <4>3, <3>3, <1>1
      <4> QED BY <4>1, <4>2, <4>3, <3>3
    <3>6. ArriveInOrder'
      <4> SUFFICES ASSUME NEW u \in Target, NEW i \in DOMAIN arrived'[u], NEW j \in DOMAIN arrived'[u],
                          i < j, DeviceOf[arrived'[u][i]] = DeviceOf[arrived'[u][j]],
                          DeviceOf[arrived'[u][i]] \notin split
                   PROVE  arrived'[u][i] < arrived'[u][j]
        BY DEF ArriveInOrder
      <4>1. CASE u # t
        BY <4>1, <3>2, <1>1 DEF ArriveInOrder
      <4>2. CASE u = t /\ j \in 1 .. n
        <5>1. i \in 1 .. n
          BY <4>2, <3>3
        <5> QED BY <4>2, <5>1, <3>3, <1>1 DEF ArriveInOrder
      <4>3. CASE u = t /\ j = n + 1
        <5>1. i \in 1 .. n
          BY <4>3, <3>3
        <5>2. ~(e < arrived[t][i])
          BY <5>1, <4>3, <3>3, <1>1, <1>2 DEF SameDevice
        <5>3. arrived[t][i] \in Nat /\ e \in Nat /\ arrived[t][i] # e
          BY <5>1, <3>3, <3>4
        <5>4. arrived[t][i] < e
          BY <5>2, <5>3
        <5>5. arrived'[u][i] = arrived[t][i] /\ arrived'[u][j] = e
          BY <5>1, <4>3, <3>3
        <5> QED BY <5>4, <5>5
      <4> QED BY <4>1, <4>2, <4>3, <3>3
    <3> QED BY <2>1, <3>2, <3>5, <3>6 DEF Behind
  <2> QED BY <2>2, <2>3
<1> QED BY <1>4, <1>5

LEMMA PostStep ==
  ASSUME DeliveryInv, NEW w \in Deliverer, NEW e \in Events, NEW t \in Target, Post(w, e, t)
  PROVE  DeliveryInv'
<1> USE DeliveryConstants
<1>1. PICK s \in {"good", "bad"} :
        /\ SetTry(w, e, t, s)
        /\ s = "good" => Arrive(e, t) /\ UNCHANGED doubt /\ dfaults' = dfaults
        /\ s = "bad" => /\ Arrive(e, t) \/ UNCHANGED <<arrived, posts>>
                        /\ doubt' = doubt \cup {<<e, t>>}
                        /\ dfaults < MaxDeliveryFaults /\ dfaults' = dfaults + 1
  BY DEF Post, NoNewFault, OneMoreFault
<1>2. /\ work[w].tries[e][t] = "post" /\ DeliveryTypeOK
      /\ UNCHANGED <<fresh, queue, held, progress, split>>
  BY DEF Post, DeliveryInv
<1>3. /\ work' \in [Deliverer -> JobType]
      /\ \A v \in Deliverer : /\ work'[v].batch = work[v].batch
                              /\ work'[v].done = work[v].done
      /\ \A v \in Deliverer, f \in Events, u \in Target :
           work'[v].tries[f][u] = IF v = w /\ f = e /\ u = t THEN s ELSE work[v].tries[f][u]
      /\ \A v \in Deliverer, f \in Events :
           (v = w /\ f = e) \/ work'[v].tries[f] = work[v].tries[f]
  BY <1>1, <1>2, SetTryEffect DEF Try
<1>4. /\ posts' \in [Events -> [Target -> Nat]]
      /\ \A f \in Events, u \in Target : posts[f][u] <= posts'[f][u]
      /\ \A f \in Events, u \in Target : (f = e /\ u = t) \/ posts'[f][u] = posts[f][u]
      /\ posts'[e][t] <= posts[e][t] + 1
      /\ ArriveInOrder'
      /\ arrived' \in [Target -> Seq(Events)]
      /\ \A u \in Target : \A i \in DOMAIN arrived'[u] : \A f \in Events :
           LET x == arrived'[u][i]
           IN  f < x /\ SameDevice(f, x) /\ DeviceOf[f] \notin split =>
                 u \in progress[f] /\ \A v \in Deliverer : work[v].tries[f][u] # "post"
  BY <1>1, <1>2, ArriveEffect
<1>5. /\ posts \in [Events -> [Target -> Nat]]
      /\ s = "good" => posts'[e][t] > 0
  BY <1>1 DEF DeliveryInv, PostInv, Arrive
<1>6. /\ doubt \subseteq doubt' /\ doubt' \subseteq doubt \cup {<<e, t>>}
      /\ s = "bad" => <<e, t>> \in doubt'
      /\ dfaults' \in 0 .. MaxDeliveryFaults
  BY <1>1, <1>2 DEF DeliveryTypeOK
<1>7. e \in work[w].batch \ work[w].done
  BY <1>2, TriedIsInBatch
<1>8. DeliveryTypeOK'
  BY <1>2, <1>3, <1>6 DEF DeliveryTypeOK, JobType, Try
<1>9. \A f \in Events : Served(f) => Served(f)'
  BY <1>2, <1>4, <1>5 DEF Served, DeliveryConstants
<1>10. GoneMeansDelivered'
  BY <1>2, <1>9 DEF DeliveryInv, GoneMeansDelivered
<1>11. PostedOnce'
  <2> SUFFICES ASSUME NEW f \in Events, NEW u \in Target, <<f, u>> \notin doubt'
               PROVE  posts'[f][u] <= 1
    BY DEF PostedOnce
  <2>1. CASE f = e /\ u = t
    <3>1. posts[e][t] = 0
      BY <2>1, <1>2, <1>6 DEF DeliveryInv, TryInv
    <3> QED BY <2>1, <3>1, <1>4
  <2>2. CASE ~(f = e /\ u = t)
    BY <2>2, <1>4, <1>6 DEF DeliveryInv, PostedOnce
  <2> QED BY <2>1, <2>2
<1>12. StreamInv' /\ OwnInv'
  BY <1>2, <1>3, <1>6 DEF DeliveryInv, StreamInv, OwnInv, IsNew, Busy,
     SameDevice
<1>13. TryInv'
  <2>1. ASSUME NEW v \in Deliverer, NEW f \in Events, work'[v].tries[f] # Untried
        PROVE  /\ f \in work'[v].batch \ work'[v].done
               /\ \A g \in work'[v].batch : SameDevice(g, f) /\ g < f => g \in work'[v].done
    <3>1. work[v].tries[f] # Untried
      BY <2>1, <1>2, <1>3, NoBatchType
    <3> QED BY <3>1, <1>3 DEF DeliveryInv, TryInv
  <2>2. ASSUME NEW v \in Deliverer, NEW f \in work'[v].done
        PROVE  Served(f)'
    <3>1. f \in work[v].done /\ f \in Events
      BY <2>2, <1>2, <1>3 DEF DeliveryTypeOK
    <3> QED BY <3>1, <1>9 DEF DeliveryInv, TryInv
  <2>3. ASSUME NEW v \in Deliverer, NEW f \in Events, NEW u \in Target
        PROVE  LET try == work'[v].tries[f][u]
               IN  /\ try = "sent" => u \in progress'[f]
                   /\ try = "good" => posts'[f][u] > 0
                   /\ try = "bad" => <<f, u>> \in doubt'
                   /\ try = "post" /\ <<f, u>> \notin doubt' => posts'[f][u] = 0 /\ u \notin progress'[f]
    <3>1. CASE v = w /\ f = e /\ u = t
      BY <3>1, <1>1, <1>3, <1>5, <1>6
    <3>2. CASE ~(v = w /\ f = e /\ u = t)
      <4>1. work'[v].tries[f][u] = work[v].tries[f][u]
        BY <3>2, <1>3
      <4>2. /\ work[v].tries[f][u] = "sent" => u \in progress[f]
            /\ work[v].tries[f][u] = "good" => posts[f][u] > 0
            /\ work[v].tries[f][u] = "bad" => <<f, u>> \in doubt
            /\ work[v].tries[f][u] = "post" /\ <<f, u>> \notin doubt => posts[f][u] = 0 /\ u \notin progress[f]
        BY DEF DeliveryInv, TryInv
      <4>3. work[v].tries[f][u] = "post" /\ f = e /\ u = t => <<f, u>> \in doubt
        BY <3>2, <1>7, TriedIsInBatch, SoleOwner
      <4> QED BY <4>1, <4>2, <4>3, <1>2, <1>4, <1>5, <1>6
    <3> QED BY <3>1, <3>2
  <2> QED BY <2>1, <2>2, <2>3 DEF TryInv, SameDevice
<1>14. PostInv'
  <2>1. ASSUME NEW f \in Events, NEW u \in Target, u \in Mqtt, u \in progress'[f]
        PROVE  posts'[f][u] > 0
    <3>1. posts[f][u] > 0
      BY <2>1, <1>2 DEF DeliveryInv, PostInv
    <3> QED BY <3>1, <1>4, <1>5
  <2>2. ASSUME NEW f \in Events, NEW u \in Target, posts'[f][u] > 0, <<f, u>> \notin doubt'
        PROVE  u \in progress'[f] \/ \E v \in Deliverer : work'[v].tries[f][u] = "good"
    <3>1. CASE f = e /\ u = t
      BY <2>2, <3>1, <1>1, <1>3, <1>6
    <3>2. CASE ~(f = e /\ u = t)
      <4>1. u \in progress[f] \/ \E v \in Deliverer : work[v].tries[f][u] = "good"
        BY <2>2, <3>2, <1>4, <1>6 DEF DeliveryInv, PostInv
      <4> QED BY <4>1, <3>2, <1>2, <1>3
    <3> QED BY <3>1, <3>2
  <2> QED BY <2>1, <2>2, <1>4 DEF PostInv
<1>15. OrderInv'
  <2>1. \A v \in Deliverer, f \in Events, u \in Target :
          work'[v].tries[f][u] = "post" => work[v].tries[f][u] = "post"
    BY <1>2, <1>3
  <2>2. ASSUME NEW u \in Target, NEW i \in DOMAIN arrived'[u], NEW f \in Events,
               f < arrived'[u][i], SameDevice(f, arrived'[u][i]), DeviceOf[f] \notin split
        PROVE  u \in progress[f] /\ \A v \in Deliverer : work'[v].tries[f][u] # "post"
    <3>1. u \in progress[f] /\ \A v \in Deliverer : work[v].tries[f][u] # "post"
      BY <2>2, <1>4, Zenon
    <3> QED BY <2>1, <3>1
  <2> QED BY <2>2, <1>2, <1>4 DEF OrderInv, SameDevice
<1> QED BY <1>4, <1>8, <1>10, <1>11, <1>12, <1>13, <1>14, <1>15 DEF DeliveryInv

\* Events are done with for good, and nobody posts what was not being posted.
LEMMA OrderKept ==
  ASSUME DeliveryInv, UNCHANGED <<arrived, split>>,
         \A f \in Events : progress[f] \subseteq progress'[f],
         \A v \in Deliverer, f \in Events, u \in Target :
           work'[v].tries[f][u] = "post" => work[v].tries[f][u] = "post"
  PROVE  OrderInv'
<1>1. ASSUME NEW u \in Target, NEW i \in DOMAIN arrived[u], NEW f \in Events,
             f < arrived[u][i], SameDevice(f, arrived[u][i]), DeviceOf[f] \notin split
      PROVE  u \in progress'[f] /\ \A v \in Deliverer : work'[v].tries[f][u] # "post"
  <2>1. u \in progress[f] /\ \A v \in Deliverer : work[v].tries[f][u] # "post"
    BY <1>1 DEF DeliveryInv, OrderInv
  <2> QED BY <2>1
<1> QED BY <1>1 DEF DeliveryInv, OrderInv, SameDevice

LEMMA RecordResultStep ==
  ASSUME DeliveryInv, NEW w \in Deliverer, NEW e \in Events, NEW t \in Target, RecordResult(w, e, t)
  PROVE  DeliveryInv'
<1> USE DeliveryConstants
<1>1. PICK s \in {"sent", "failed"} :
        /\ SetTry(w, e, t, s)
        /\ s = "sent" => Settled(w, e, t) /\ t \in progress'[e]
        /\ \/ progress' = [progress EXCEPT ![e] = @ \cup {t}] /\ Settled(w, e, t)
           \/ progress' = progress
        /\ doubt' = doubt \/ doubt' = doubt \cup {<<e, t>>}
        /\ dfaults' = dfaults \/ (dfaults < MaxDeliveryFaults /\ dfaults' = dfaults + 1)
        /\ t \in progress'[e] \/ <<e, t>> \in doubt' \/ ~Settled(w, e, t)
  <2>0. progress \in [Events -> SUBSET Target]
    BY DEF DeliveryInv, DeliveryTypeOK
  <2>1. CASE /\ progress' = [progress EXCEPT ![e] = IF Settled(w, e, t) THEN @ \cup {t} ELSE @]
             /\ SetTry(w, e, t, IF Settled(w, e, t) THEN "sent" ELSE "failed")
             /\ dfaults' = dfaults /\ doubt' = doubt
    <3>1. CASE Settled(w, e, t)
      <4>1. SetTry(w, e, t, "sent") /\ progress' = [progress EXCEPT ![e] = @ \cup {t}]
        BY <2>1, <3>1
      <4>2. t \in progress'[e]
        BY <2>0, <4>1
      <4> QED BY <2>1, <3>1, <4>1, <4>2
    <3>2. CASE ~Settled(w, e, t)
      <4>1. SetTry(w, e, t, "failed") /\ progress' = progress
        BY <2>0, <2>1, <3>2
      <4> QED BY <2>1, <3>2, <4>1
    <3> QED BY <3>1, <3>2
  <2>2. CASE /\ dfaults < MaxDeliveryFaults /\ dfaults' = dfaults + 1 /\ UNCHANGED progress
             /\ doubt' = doubt \cup {<<e, t>>}
             /\ SetTry(w, e, t, "failed")
    BY <2>2
  <2> QED BY <2>1, <2>2 DEF RecordResult, NoNewFault, OneMoreFault
<1>2. /\ work[w].tries[e][t] \in {"good", "bad"} /\ DeliveryTypeOK
      /\ UNCHANGED <<fresh, queue, held, arrived, posts, split>>
  BY DEF RecordResult, DeliveryInv
<1>3. /\ work' \in [Deliverer -> JobType]
      /\ \A v \in Deliverer : /\ work'[v].batch = work[v].batch
                              /\ work'[v].done = work[v].done
      /\ \A v \in Deliverer, f \in Events, u \in Target :
           work'[v].tries[f][u] = IF v = w /\ f = e /\ u = t THEN s ELSE work[v].tries[f][u]
  BY <1>1, <1>2, SetTryEffect DEF Try
<1>4. /\ progress' \in [Events -> SUBSET Target]
      /\ \A f \in Events : progress[f] \subseteq progress'[f]
      /\ \A f \in Events, u \in Target :
           u \in progress'[f] => u \in progress[f] \/ (f = e /\ u = t /\ Settled(w, e, t))
  <2>0. progress \in [Events -> SUBSET Target]
    BY <1>2 DEF DeliveryTypeOK
  <2>1. CASE progress' = progress
    BY <2>0, <2>1
  <2>2. CASE progress' = [progress EXCEPT ![e] = @ \cup {t}] /\ Settled(w, e, t)
    BY <2>0, <2>2
  <2> QED BY <1>1, <2>1, <2>2
<1>5. /\ doubt \subseteq doubt' /\ doubt' \subseteq Events \X Target
      /\ dfaults' \in 0 .. MaxDeliveryFaults
  BY <1>1, <1>2 DEF DeliveryTypeOK
<1>6. /\ work[w].tries[e][t] = "good" => posts[e][t] > 0
      /\ e \in work[w].batch \ work[w].done
  BY <1>2, TriedIsInBatch DEF DeliveryInv, TryInv
<1>7. DeliveryTypeOK'
  BY <1>2, <1>3, <1>4, <1>5 DEF DeliveryTypeOK, JobType, Try
<1>8. \A f \in Events : Served(f) => Served(f)'
  BY <1>2, <1>4 DEF Served
<1>9. GoneMeansDelivered' /\ PostedOnce' /\ ArriveInOrder'
  BY <1>2, <1>5, <1>8 DEF DeliveryInv, GoneMeansDelivered, PostedOnce,
     ArriveInOrder
<1>10. StreamInv' /\ OwnInv'
  BY <1>2, <1>3, <1>5 DEF DeliveryInv, StreamInv, OwnInv, IsNew, Busy,
     SameDevice
<1>11. TryInv'
  <2>1. ASSUME NEW v \in Deliverer, NEW f \in Events, work'[v].tries[f] # Untried
        PROVE  /\ f \in work'[v].batch \ work'[v].done
               /\ \A g \in work'[v].batch : SameDevice(g, f) /\ g < f => g \in work'[v].done
    <3>1. work'[v].tries[f] \in [Target -> Try]
      BY <1>3 DEF JobType
    <3>2. PICK u \in Target : work'[v].tries[f][u] # "none"
      BY <2>1, <3>1 DEF Untried
    <3>3. work[v].tries[f][u] # "none"
      BY <3>2, <1>2, <1>3
    <3>4. work[v].tries[f] # Untried
      BY <3>3, NoBatchType
    <3> QED BY <3>4, <1>3 DEF DeliveryInv, TryInv
  <2>2. ASSUME NEW v \in Deliverer, NEW f \in work'[v].done
        PROVE  Served(f)'
    <3>1. f \in work[v].done /\ f \in Events
      BY <2>2, <1>2, <1>3 DEF DeliveryTypeOK
    <3> QED BY <3>1, <1>8 DEF DeliveryInv, TryInv
  <2>3. ASSUME NEW v \in Deliverer, NEW f \in Events, NEW u \in Target
        PROVE  LET try == work'[v].tries[f][u]
               IN  /\ try = "sent" => u \in progress'[f]
                   /\ try = "good" => posts'[f][u] > 0
                   /\ try = "bad" => <<f, u>> \in doubt'
                   /\ try = "post" /\ <<f, u>> \notin doubt' => posts'[f][u] = 0 /\ u \notin progress'[f]
    <3>1. CASE v = w /\ f = e /\ u = t
      BY <3>1, <1>1, <1>3
    <3>2. CASE ~(v = w /\ f = e /\ u = t)
      <4>1. work'[v].tries[f][u] = work[v].tries[f][u]
        BY <3>2, <1>3
      <4>2. /\ work[v].tries[f][u] = "sent" => u \in progress[f]
            /\ work[v].tries[f][u] = "good" => posts[f][u] > 0
            /\ work[v].tries[f][u] = "bad" => <<f, u>> \in doubt
            /\ work[v].tries[f][u] = "post" /\ <<f, u>> \notin doubt => posts[f][u] = 0 /\ u \notin progress[f]
        BY DEF DeliveryInv, TryInv
      <4>3. work[v].tries[f][u] = "post" /\ f = e /\ u = t => <<f, u>> \in doubt
        BY <3>2, <1>6, TriedIsInBatch, SoleOwner
      <4> QED BY <4>1, <4>2, <4>3, <1>2, <1>4, <1>5
    <3> QED BY <3>1, <3>2
  <2> QED BY <2>1, <2>2, <2>3 DEF TryInv, SameDevice
<1>12. PostInv'
  <2>1. ASSUME NEW f \in Events, NEW u \in Target, u \in Mqtt, u \in progress'[f]
        PROVE  posts'[f][u] > 0
    <3>1. CASE u \in progress[f]
      BY <2>1, <3>1, <1>2 DEF DeliveryInv, PostInv
    <3>2. CASE f = e /\ u = t /\ Settled(w, e, t)
      BY <2>1, <3>2, <1>2, <1>6 DEF Settled
    <3> QED BY <2>1, <3>1, <3>2, <1>4
  <2>2. ASSUME NEW f \in Events, NEW u \in Target, posts'[f][u] > 0, <<f, u>> \notin doubt'
        PROVE  u \in progress'[f] \/ \E v \in Deliverer : work'[v].tries[f][u] = "good"
    <3>1. u \in progress[f] \/ \E v \in Deliverer : work[v].tries[f][u] = "good"
      BY <2>2, <1>2, <1>5 DEF DeliveryInv, PostInv
    <3>2. CASE f = e /\ u = t /\ work[w].tries[e][t] = "good"
      BY <2>2, <3>2, <1>1 DEF Settled
    <3>3. CASE ~(f = e /\ u = t /\ work[w].tries[e][t] = "good")
      BY <3>1, <3>3, <1>3, <1>4
    <3> QED BY <3>2, <3>3
  <2>3. posts' \in [Events -> [Target -> Nat]]
    BY <1>2 DEF DeliveryInv, PostInv
  <2> QED BY <2>1, <2>2, <2>3 DEF PostInv
<1>13. OrderInv'
  <2>1. \A v \in Deliverer, f \in Events, u \in Target :
          work'[v].tries[f][u] = "post" => work[v].tries[f][u] = "post"
    BY <1>2, <1>3
  <2> QED BY <2>1, <1>2, <1>4, OrderKept
<1> QED BY <1>7, <1>9, <1>10, <1>11, <1>12, <1>13 DEF DeliveryInv

LEMMA EndEventStep ==
  ASSUME DeliveryInv, NEW w \in Deliverer, NEW e \in Events, EndEvent(w, e)
  PROVE  DeliveryInv'
<1> USE DeliveryConstants
<1> DEFINE over == [work[w].tries EXCEPT ![e] = Untried]
           gained == IF Delivered(w, e) THEN {e} ELSE {}
           blocked == IF Delivered(w, e) THEN {} ELSE {DeviceOf[e]}
           j == Job(work[w].batch, work[w].done \cup gained, work[w].stuck \cup blocked, over)
<1>1. /\ work \in [Deliverer -> JobType] /\ work[w] \in JobType /\ DeliveryTypeOK
      /\ Untried \in [Target -> Try] /\ e \in work[w].batch \ work[w].done
      /\ \A t \in Target : work[w].tries[e][t] \in {"sent", "failed"}
      /\ UNCHANGED <<fresh, queue, held, progress, arrived, posts, doubt, split, dfaults>>
  BY NoBatchType DEF DeliveryInv, DeliveryTypeOK, JobType, Try, EndEvent
<1>2. work' = [work EXCEPT ![w] = j]
  <2>1. CASE Delivered(w, e)
    <3>1. j = Job(work[w].batch, work[w].done \cup {e}, work[w].stuck, over)
      BY <2>1
    <3> QED BY <2>1, <3>1, <1>1 DEF EndEvent
  <2>2. CASE ~Delivered(w, e)
    <3>1. j = Job(work[w].batch, work[w].done, work[w].stuck \cup {DeviceOf[e]}, over)
      BY <2>2
    <3> QED BY <2>2, <3>1, <1>1 DEF EndEvent
  <2> QED BY <2>1, <2>2
<1>3. gained \subseteq {e} /\ blocked \subseteq DevicesOf(Events)
  BY DEF DevicesOf
<1>4. e \in gained => Served(e)
  <2> SUFFICES ASSUME Delivered(w, e) PROVE Served(e)
    OBVIOUS
  <2>1. \A t \in Target : t \in progress[e]
    BY DEF Delivered, DeliveryInv, TryInv
  <2>2. progress[e] = Target
    BY <2>1, <1>1 DEF DeliveryTypeOK
  <2> QED BY <2>1, <2>2 DEF Served, DeliveryInv, PostInv
<1> HIDE DEF gained, blocked
<1>5. /\ j \in JobType /\ j.batch = work[w].batch /\ j.done = work[w].done \cup gained
      /\ j.tries = over /\ over \in [Events -> [Target -> Try]]
      /\ \A f \in Events : over[f] = IF f = e THEN Untried ELSE work[w].tries[f]
  BY <1>1, <1>3 DEF Job, JobType
<1> HIDE DEF j, over
<1>6. /\ work' \in [Deliverer -> JobType] /\ work'[w] = j
      /\ \A v \in Deliverer \ {w} : work'[v] = work[v]
  BY <1>1, <1>2, <1>5
<1>7. \A v \in Deliverer : /\ work'[v].batch = work[v].batch
                           /\ work[v].done \subseteq work'[v].done
                           /\ work'[v].done \subseteq work[v].done \cup IF v = w THEN gained ELSE {}
  BY <1>5, <1>6
<1>8. \A v \in Deliverer, f \in Events :
        work'[v].tries[f] = IF v = w /\ f = e THEN Untried ELSE work[v].tries[f]
  BY <1>5, <1>6
<1>9. DeliveryTypeOK'
  <2>1. \A v \in Deliverer : work'[v].done \subseteq work'[v].batch
    BY <1>1, <1>3, <1>7 DEF DeliveryTypeOK
  <2> QED BY <2>1, <1>1, <1>6 DEF DeliveryTypeOK, JobType, Try
<1>10. GoneMeansDelivered' /\ PostedOnce' /\ ArriveInOrder'
  BY <1>1 DEF DeliveryInv, GoneMeansDelivered, PostedOnce, ArriveInOrder, Served
<1>11. StreamInv' /\ OwnInv'
  BY <1>1, <1>7 DEF DeliveryInv, StreamInv, OwnInv, IsNew, Busy, SameDevice
<1>12. TryInv'
  <2>1. ASSUME NEW v \in Deliverer, NEW f \in Events, work'[v].tries[f] # Untried
        PROVE  /\ f \in work'[v].batch \ work'[v].done
               /\ \A g \in work'[v].batch : SameDevice(g, f) /\ g < f => g \in work'[v].done
    <3>1. ~(v = w /\ f = e) /\ work[v].tries[f] # Untried
      BY <2>1, <1>8
    <3>2. /\ f \in work[v].batch \ work[v].done
          /\ \A g \in work[v].batch : SameDevice(g, f) /\ g < f => g \in work[v].done
      BY <3>1 DEF DeliveryInv, TryInv
    <3> QED BY <3>1, <3>2, <1>3, <1>7
  <2>2. ASSUME NEW v \in Deliverer, NEW f \in work'[v].done
        PROVE  Served(f)'
    <3>1. Served(f)
      <4>1. CASE f \in work[v].done
        BY <4>1 DEF DeliveryInv, TryInv
      <4>2. CASE f \in gained
        BY <4>2, <1>3, <1>4
      <4> QED BY <2>2, <4>1, <4>2, <1>7
    <3> QED BY <3>1, <1>1 DEF Served
  <2>3. ASSUME NEW v \in Deliverer, NEW f \in Events, NEW u \in Target
        PROVE  LET try == work'[v].tries[f][u]
               IN  /\ try = "sent" => u \in progress'[f]
                   /\ try = "good" => posts'[f][u] > 0
                   /\ try = "bad" => <<f, u>> \in doubt'
                   /\ try = "post" /\ <<f, u>> \notin doubt' => posts'[f][u] = 0 /\ u \notin progress'[f]
    <3>1. CASE v = w /\ f = e
      BY <3>1, <1>8, NoBatchType
    <3>2. CASE ~(v = w /\ f = e)
      <4>1. work'[v].tries[f] = work[v].tries[f]
        BY <3>2, <1>8
      <4> QED BY <4>1, <1>1 DEF DeliveryInv, TryInv
    <3> QED BY <3>1, <3>2
  <2> QED BY <2>1, <2>2, <2>3 DEF TryInv, SameDevice
<1>13. PostInv'
  <2>1. \A v \in Deliverer, f \in Events, t \in Target :
          work[v].tries[f][t] = "good" => work'[v].tries[f][t] = "good"
    BY <1>1, <1>8
  <2> QED BY <2>1, <1>1 DEF DeliveryInv, PostInv
<1>14. OrderInv'
  <2>1. \A v \in Deliverer, f \in Events, u \in Target :
          work'[v].tries[f][u] = "post" => work[v].tries[f][u] = "post"
    <3>1. \A t \in Target : Untried[t] # "post"
      BY NoBatchType
    <3> QED BY <3>1, <1>8
  <2> QED BY <2>1, <1>1, OrderKept
<1> QED BY <1>9, <1>10, <1>11, <1>12, <1>13, <1>14 DEF DeliveryInv

LEMMA EndBatchStep ==
  ASSUME DeliveryInv, NEW w \in Deliverer, EndBatch(w)
  PROVE  DeliveryInv'
<1> USE DeliveryConstants
<1> DEFINE S == work[w].done
<1>1. /\ work' = [work EXCEPT ![w] = Begun({})] /\ BatchOver(w)
      /\ queue' = queue \ S /\ held' = [h \in Holder |-> held[h] \ S]
      /\ UNCHANGED <<fresh, progress, arrived, posts, doubt, split, dfaults>>
  BY DEF EndBatch, Forget, NoBatch
<1>2. /\ DeliveryTypeOK /\ S \subseteq work[w].batch /\ doubt \subseteq Events \X Target
      /\ \A e \in S : Served(e)
  BY DEF DeliveryInv, DeliveryTypeOK, TryInv
<1>3. \A e \in Events, t \in Target : work[w].tries[e][t] # "good"
  <2>1. work[w].tries = [e \in Events |-> Untried]
    BY <1>1, NoBatchType DEF BatchOver, NoBatch
  <2> QED BY <2>1, NoBatchType
<1> HIDE DEF S
<1>4. /\ work' \in [Deliverer -> JobType]
      /\ work'[w].batch = {} /\ work'[w].done = {}
      /\ \A v \in Deliverer \ {w} : work'[v] = work[v]
      /\ PostedOnce' /\ ArriveInOrder' /\ TryInv' /\ PostInv' /\ OrderInv'
  <2>1. {} \in SUBSET Events /\ doubt \subseteq doubt' /\ split \subseteq split'
    BY <1>1
  <2>2. doubt' \subseteq Events \X Target /\ UNCHANGED <<fresh, progress, arrived, posts>>
    BY <1>1, <1>2
  <2>3. \A e \in Events, t \in Target : work[w].tries[e][t] = "good" => <<e, t>> \in doubt'
    BY <1>3
  <2> QED BY <1>1, <2>1, <2>2, <2>3, FreshBatch
<1>5. \A v \in Deliverer : work'[v].batch = IF v = w THEN {} ELSE work[v].batch
  BY <1>4
<1>6. DeliveryTypeOK'
  <2>1. \A v \in Deliverer : work'[v].done \subseteq work'[v].batch
    BY <1>2, <1>4 DEF DeliveryTypeOK
  <2>2. queue' \subseteq Events /\ held' \in [Holder -> SUBSET Events]
    BY <1>1, <1>2 DEF DeliveryTypeOK
  <2> QED BY <1>1, <1>2, <1>4, <2>1, <2>2 DEF DeliveryTypeOK, JobType, Try
<1>7. GoneMeansDelivered'
  BY <1>1, <1>2 DEF DeliveryInv, GoneMeansDelivered, Served
<1>8. \A h \in Holder : held'[h] = held[h] \ S
  BY <1>1
<1>9. StreamInv'
  <2>1. \A e \in Events : IsNew(e)' => IsNew(e)
    BY <1>1, <1>8 DEF IsNew
  <2>2. \A e \in Events : IsNew(e)' =>
          /\ \A h \in Holder : \A f \in held'[h] : f < e
          /\ \A v \in Deliverer : \A f \in work'[v].batch : f < e
    BY <2>1, <1>5, <1>8 DEF DeliveryInv, StreamInv
  <2>3. /\ fresh' \cap queue' = {} /\ \A e \in fresh', f \in Events \ fresh' : f < e
        /\ \A h \in Holder : held'[h] \subseteq queue'
        /\ \A h, k \in Holder : h # k => held'[h] \cap held'[k] = {}
    BY <1>1, <1>8 DEF DeliveryInv, StreamInv
  <2>4. \A v \in Deliverer : /\ Busy(v)' => held'[v] \subseteq work'[v].batch
                             /\ work'[v].batch \cap fresh' = {}
    BY <1>1, <1>5, <1>8 DEF DeliveryInv, StreamInv, Busy, Holder
  <2> QED BY <2>2, <2>3, <2>4 DEF StreamInv
<1>10. OwnInv'
  <2>1. ASSUME NEW v \in Deliverer, NEW e \in work'[v].batch
        PROVE  e \in held'[v] \/ (DeviceOf[e] \in split' /\ \A t \in Target : <<e, t>> \in doubt')
    <3>1. v # w /\ e \in work[v].batch /\ v \in Holder
      BY <1>5 DEF Holder
    <3>2. CASE e \in S
      BY <3>1, <3>2, <1>1, <1>2, SoleOwner
    <3>3. CASE e \notin S
      BY <3>1, <3>3, <1>1, <1>8 DEF DeliveryInv, OwnInv
    <3> QED BY <3>2, <3>3
  <2>2. \A h, k \in Holder : h # k =>
          \A e \in held'[h], f \in held'[k] : SameDevice(e, f) => DeviceOf[e] \in split'
    BY <1>1, <1>8 DEF DeliveryInv, OwnInv
  <2> QED BY <2>1, <2>2 DEF OwnInv, SameDevice
<1> QED BY <1>4, <1>6, <1>7, <1>9, <1>10 DEF DeliveryInv

\* The entries stay pending: for the worker that could not acknowledge them, or
\* for nobody when it died.
LEMMA GiveUpStep ==
  ASSUME DeliveryInv, NEW w \in Deliverer, FailEnd(w) \/ CrashDeliverer(w)
  PROVE  DeliveryInv'
<1> USE DeliveryConstants
<1>1. /\ work' = [work EXCEPT ![w] = Begun({})]
      /\ UNCHANGED <<fresh, queue, progress, arrived, posts, split>>
      /\ dfaults < MaxDeliveryFaults /\ dfaults' = dfaults + 1 /\ DeliveryTypeOK
  BY DEF FailEnd, CrashDeliverer, OneMoreFault, NoBatch, DeliveryInv
<1>2. /\ w \in Holder /\ Gone \in Holder /\ w # Gone
      /\ held \in [Holder -> SUBSET Events] /\ doubt \subseteq Events \X Target
  BY <1>1 DEF Holder, DeliveryTypeOK
<1>3. /\ doubt \subseteq doubt' /\ doubt' \subseteq Events \X Target
      /\ \A e \in Events, t \in Target : work[w].tries[e][t] = "good" => <<e, t>> \in doubt'
  <2>1. CASE FailEnd(w)
    <3>1. work[w].tries = [e \in Events |-> Untried] /\ doubt' = doubt
      BY <2>1, NoBatchType DEF FailEnd, BatchOver, NoBatch
    <3>2. \A e \in Events, t \in Target : work[w].tries[e][t] # "good"
      BY <3>1, NoBatchType
    <3> QED BY <3>1, <3>2, <1>2
  <2>2. CASE CrashDeliverer(w)
    <3> DEFINE lost == {p \in work[w].batch \X Target :
                          work[w].tries[p[1]][p[2]] \in {"post", "good", "bad"}}
    <3>1. doubt' = doubt \cup lost
      BY <2>2 DEF CrashDeliverer
    <3>2. work[w].batch \subseteq Events
      BY <1>1 DEF DeliveryTypeOK
    <3>3. lost \subseteq Events \X Target
      BY <3>2
    <3>4. \A e \in Events, t \in Target : work[w].tries[e][t] = "good" => <<e, t>> \in lost
      BY TriedIsInBatch
    <3> HIDE DEF lost
    <3> QED BY <3>1, <3>3, <3>4, <1>2
  <2> QED BY <2>1, <2>2
<1>4. /\ work' \in [Deliverer -> JobType]
      /\ work'[w].batch = {} /\ work'[w].done = {}
      /\ \A v \in Deliverer \ {w} : work'[v] = work[v]
      /\ PostedOnce' /\ ArriveInOrder' /\ TryInv' /\ PostInv' /\ OrderInv'
  <2>1. {} \in SUBSET Events /\ split \subseteq split'
    BY <1>1
  <2>2. UNCHANGED <<fresh, progress, arrived, posts>>
    BY <1>1
  <2> QED BY <1>1, <1>3, <2>1, <2>2, FreshBatch
<1>5. \A v \in Deliverer : work'[v].batch = IF v = w THEN {} ELSE work[v].batch
  BY <1>4
<1>6. \/ held' = held
      \/ /\ held' \in [Holder -> SUBSET Events]
         /\ held'[w] = {} /\ held'[Gone] = held[Gone] \cup held[w]
         /\ \A h \in Holder \ {w, Gone} : held'[h] = held[h]
  BY <1>2 DEF FailEnd, CrashDeliverer
<1>7. /\ held' \in [Holder -> SUBSET Events]
      /\ \A h \in Holder : \A e \in held'[h] : \E k \in Holder : e \in held[k]
      /\ \A h \in Holder : \A e \in held[h] : \E k \in Holder : e \in held'[k]
      /\ \A h \in Holder \ {w, Gone} : held'[h] = held[h]
      /\ held'[w] \subseteq held[w]
  BY <1>2, <1>6
<1>8. DeliveryTypeOK'
  <2>1. \A v \in Deliverer : work'[v].done \subseteq work'[v].batch
    BY <1>1, <1>4 DEF DeliveryTypeOK
  <2>2. dfaults' \in 0 .. MaxDeliveryFaults
    BY <1>1 DEF DeliveryTypeOK
  <2> QED BY <1>1, <1>3, <1>4, <1>7, <2>1, <2>2 DEF DeliveryTypeOK, JobType, Try
<1>9. GoneMeansDelivered'
  BY <1>1 DEF DeliveryInv, GoneMeansDelivered, Served
<1>10. StreamInv'
  <2>1. \A e \in Events : IsNew(e)' => IsNew(e)
    BY <1>1, <1>7 DEF IsNew
  <2>2. ASSUME NEW e \in Events, IsNew(e)'
        PROVE  /\ \A h \in Holder : \A f \in held'[h] : f < e
               /\ \A v \in Deliverer : \A f \in work'[v].batch : f < e
    <3>1. /\ \A h \in Holder : \A f \in held[h] : f < e
          /\ \A v \in Deliverer : \A f \in work[v].batch : f < e
      BY <2>1, <2>2 DEF DeliveryInv, StreamInv
    <3> QED BY <3>1, <1>5, <1>7
  <2>3. /\ fresh' \cap queue' = {} /\ \A e \in fresh', f \in Events \ fresh' : f < e
        /\ \A h \in Holder : held'[h] \subseteq queue'
    BY <1>1, <1>7 DEF DeliveryInv, StreamInv
  <2>4. \A h, k \in Holder : h # k => held'[h] \cap held'[k] = {}
    <3>1. \A h, k \in Holder : h # k => held[h] \cap held[k] = {}
      BY DEF DeliveryInv, StreamInv
    <3> QED BY <3>1, <1>2, <1>6
  <2>5. \A v \in Deliverer : /\ Busy(v)' => held'[v] \subseteq work'[v].batch
                             /\ work'[v].batch \cap fresh' = {}
    <3>1. \A v \in Deliverer : /\ Busy(v) => held[v] \subseteq work[v].batch
                               /\ work[v].batch \cap fresh = {}
      BY DEF DeliveryInv, StreamInv
    <3>2. \A v \in Deliverer : v \in Holder /\ v # Gone
      BY DEF Holder
    <3> QED BY <3>1, <3>2, <1>1, <1>5, <1>7 DEF Busy
  <2> QED BY <2>2, <2>3, <2>4, <2>5 DEF StreamInv
<1>11. OwnInv'
  <2>1. ASSUME NEW v \in Deliverer, NEW e \in work'[v].batch
        PROVE  e \in held'[v] \/ (DeviceOf[e] \in split' /\ \A t \in Target : <<e, t>> \in doubt')
    <3>1. v # w /\ e \in work[v].batch /\ v \in Holder \ {w, Gone}
      BY <1>5 DEF Holder
    <3> QED BY <3>1, <1>1, <1>3, <1>7 DEF DeliveryInv, OwnInv
  <2>2. ASSUME NEW h \in Holder, NEW k \in Holder, h # k, NEW e \in held'[h], NEW f \in held'[k],
               SameDevice(e, f)
        PROVE  DeviceOf[e] \in split'
    <3>1. \A m, n \in Holder : m # n /\ e \in held[m] /\ f \in held[n] => DeviceOf[e] \in split
      BY <2>2 DEF DeliveryInv, OwnInv
    <3> QED BY <2>2, <3>1, <1>1, <1>2, <1>6
  <2> QED BY <2>1, <2>2 DEF OwnInv, SameDevice
<1> QED BY <1>4, <1>8, <1>9, <1>10, <1>11 DEF DeliveryInv

\* Whatever loops, workers and targets do, an event leaves the stream only when
\* every broker has acknowledged it and every webhook was tried, a target that
\* answered is not asked again, and the events of a device keep their order.
THEOREM DeliveriesAreSafe == SpecDelivery => []DeliverySafety
<1>1. InitDelivery => DeliveryInv
  BY DeliveryInit
<1>2. DeliveryInv /\ [NextDelivery]_deliveryVars => DeliveryInv'
  <2> SUFFICES ASSUME DeliveryInv, [NextDelivery]_deliveryVars PROVE DeliveryInv'
    OBVIOUS
  <2>1. CASE PublishEvent
    BY <2>1, PublishEventStep
  <2>2. ASSUME NEW w \in Deliverer, NEW e \in Events,
               StartEvent(w, e) \/ EndEvent(w, e) \/ \E t \in Target : Post(w, e, t) \/ RecordResult(w, e, t)
        PROVE  DeliveryInv'
    BY <2>2, StartEventStep, EndEventStep, PostStep, RecordResultStep
  <2>3. ASSUME NEW w \in Deliverer,
               \/ TakeOwn(w) \/ TakeNew(w) \/ TakeOver(w) \/ TakeFromSlow(w)
               \/ EndBatch(w) \/ FailEnd(w) \/ CrashDeliverer(w)
        PROVE  DeliveryInv'
    BY <2>3, ReadStep, EndBatchStep, GiveUpStep
  <2>4. CASE UNCHANGED deliveryVars
    <3>1. UNCHANGED <<fresh, queue, held, work, progress, arrived, posts, doubt, split, dfaults>>
      BY <2>4 DEF deliveryVars
    <3>2. DeliveryTypeOK' /\ GoneMeansDelivered' /\ PostedOnce' /\ ArriveInOrder'
      BY <3>1 DEF DeliveryInv, DeliveryTypeOK, GoneMeansDelivered, PostedOnce,
         ArriveInOrder, Served
    <3>3. StreamInv' /\ OwnInv'
      BY <3>1 DEF DeliveryInv, StreamInv, OwnInv, SameDevice, Busy, IsNew
    <3>4. TryInv' /\ PostInv'
      BY <3>1 DEF DeliveryInv, TryInv, PostInv, Served, SameDevice
    <3>5. OrderInv'
      BY <3>1, OrderKept
    <3> QED BY <3>2, <3>3, <3>4, <3>5 DEF DeliveryInv
  <2> QED BY <2>1, <2>2, <2>3, <2>4 DEF NextDelivery, DeliveryStep
<1>3. DeliveryInv => DeliverySafety
  BY DEF DeliveryInv, DeliverySafety
<1> QED BY <1>1, <1>2, <1>3, PTL DEF SpecDelivery
=============================================================================
