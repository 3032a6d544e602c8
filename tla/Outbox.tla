------------------------------- MODULE Outbox -------------------------------
(***************************************************************************)
(* The transactional outbox.  Every Service Worker runs an OutboxRuntime   *)
(* that selects committed outbox rows under row locks, publishes them to   *)
(* Redis one by one inside the same transaction, and records the outcome   *)
(* when the transaction commits.  Its loop sleeps without a periodic scan: *)
(* it is woken by PostgreSQL notifications, by the reconnection of its     *)
(* listener, or by a timer armed from what is still to be published.       *)
(*                                                                         *)
(* Rows and locks live in PostgreSQL, "sent" counts appends to the Redis   *)
(* streams, the rest is the memory of one worker.                          *)
(***************************************************************************)
EXTENDS Naturals, FiniteSets

CONSTANTS
  Event,         \* the events API transactions may record, numbered in the
                 \* order of occurred_at (commits may come in another order)
  Worker,        \* the Service Workers
  BatchLimit,    \* rows selected by one dispatch (100 in the code)
  MaxAttempts,   \* attempts before a row is dead-lettered (20 in the code)
  MaxFaults      \* bound on failures of Redis, PostgreSQL and workers

ASSUME OutboxConstants ==
  /\ Event \subseteq Nat \ {0}
  /\ BatchLimit \in Nat \ {0}
  /\ MaxAttempts \in Nat \ {0}
  /\ MaxFaults \in Nat

None == 0

VARIABLES
  row,        \* published_at and dead_lettered_at of a row
  due,        \* available_at of the row has passed
  attempts,   \* attempts of the row
  sent,       \* history: appends of the event to Redis
  tx,         \* where the dispatch of each worker is
  batch,      \* rows the transaction of the worker has locked
  done,       \* rows of the batch that are published
  failed,     \* the row whose publication failed
  next,       \* nextDispatch of the loop
  hint,       \* the wake channel holds a message
  listening,  \* the LISTEN connection is up
  faults

rowVars  == <<row, due, attempts>>
txVars   == <<tx, batch, done, failed>>
loopVars == <<next, hint, listening>>
vars == <<rowVars, sent, txVars, loopVars, faults>>

Fault == faults < MaxFaults /\ faults' = faults + 1
NoFault == UNCHANGED faults

Waiting == {e \in Event : row[e] = "waiting"}
Locked == UNION {batch[w] : w \in Worker}

Init ==
  /\ row = [e \in Event |-> "absent"]
  /\ due = [e \in Event |-> FALSE]
  /\ attempts = [e \in Event |-> 0]
  /\ sent = [e \in Event |-> 0]
  /\ tx = [w \in Worker |-> "idle"]
  /\ batch = [w \in Worker |-> {}]
  /\ done = [w \in Worker |-> {}]
  /\ failed = [w \in Worker |-> None]
  /\ next = [w \in Worker |-> "now"]
  /\ hint = [w \in Worker |-> FALSE]
  /\ listening = [w \in Worker |-> FALSE]
  /\ faults = 0

\* The trigger of the outbox table: the commit notifies every session that
\* listens; what is sent while a listener is away is lost to it.
Notify == hint' = [w \in Worker |-> hint[w] \/ listening[w]]

\* An API transaction commits a change together with its event.
Record(e) ==
  /\ row[e] = "absent"
  /\ row' = [row EXCEPT ![e] = "waiting"]
  /\ due' = [due EXCEPT ![e] = TRUE]
  /\ Notify
  /\ UNCHANGED <<attempts, sent, txVars, next, listening, faults>>

\* The next attempt of a failed row becomes due.
Backoff(e) ==
  /\ row[e] = "waiting" /\ ~due[e]
  /\ due' = [due EXCEPT ![e] = TRUE]
  /\ UNCHANGED <<row, attempts, sent, txVars, loopVars, faults>>

----------------------------------------------------------------------------
(* OutboxService::dispatch                                                 *)

\* SELECT ... ORDER BY occurred_at FOR UPDATE SKIP LOCKED LIMIT.
Selected(S) ==
  LET cand == {e \in Waiting : due[e]} \ Locked
  IN  /\ S \subseteq cand /\ Cardinality(S) <= BatchLimit
      /\ \A x \in S, y \in cand \ S : x < y
      /\ S # cand => Cardinality(S) = BatchLimit

\* The turn of the loop that dispatches: an empty selection ends in
\* nextAvailable, any failure in another try after 250 ms.
Dispatch(w) ==
  /\ tx[w] = "idle" /\ next[w] = "now"
  /\ \/ /\ NoFault
        /\ \E S \in SUBSET Event :
             /\ Selected(S)
             /\ batch' = [batch EXCEPT ![w] = S]
             /\ tx' = [tx EXCEPT ![w] = IF S = {} THEN "available" ELSE "publish"]
        /\ UNCHANGED next
     \/ /\ Fault
        /\ next' = [next EXCEPT ![w] = "timer"]
        /\ UNCHANGED <<tx, batch>>
  /\ UNCHANGED <<rowVars, sent, done, failed, hint, listening>>

\* One event, the oldest of the batch that is left, goes to its streams in one
\* pipeline.  A failure, whose commands may have taken effect all the same,
\* ends the batch there.
Publish(w) ==
  /\ tx[w] = "publish"
  /\ \E e \in batch[w] \ done[w] :
       /\ \A x \in batch[w] \ done[w] : e <= x
       /\ \/ /\ NoFault
             /\ sent' = [sent EXCEPT ![e] = @ + 1]
             /\ done' = [done EXCEPT ![w] = @ \cup {e}]
             /\ tx' = [tx EXCEPT ![w] =
                         IF batch[w] = done[w] \cup {e} THEN "commit" ELSE @]
             /\ UNCHANGED failed
          \/ /\ Fault
             /\ \/ sent' = [sent EXCEPT ![e] = @ + 1]
                \/ UNCHANGED sent
             /\ failed' = [failed EXCEPT ![w] = e]
             /\ tx' = [tx EXCEPT ![w] = "commit"]
             /\ UNCHANGED done
  /\ UNCHANGED <<rowVars, batch, loopVars>>

Rollback(w) ==
  /\ tx' = [tx EXCEPT ![w] = "idle"]
  /\ batch' = [batch EXCEPT ![w] = {}]
  /\ done' = [done EXCEPT ![w] = {}]
  /\ failed' = [failed EXCEPT ![w] = None]

\* The updates of the transaction: published rows are published, the failed
\* one backs off or is dead-lettered.
BugFailureMarksAll(w) ==
  /\ row' = [e \in Event |-> IF e \in batch[w] THEN "published" ELSE row[e]]
  /\ attempts' = [e \in Event |-> IF e \in batch[w] THEN attempts[e] + 1
                                                    ELSE attempts[e]]
  /\ UNCHANGED due
Apply(w) ==
  LET dead(e) == attempts[e] + 1 >= MaxAttempts
  IN  /\ row' = [e \in Event |->
                   IF e \in done[w] THEN "published"
                   ELSE IF e = failed[w] /\ dead(e) THEN "dead" ELSE row[e]]
      /\ attempts' = [e \in Event |->
                        IF e \in done[w] \cup {failed[w]} THEN attempts[e] + 1
                                                          ELSE attempts[e]]
      /\ due' = [e \in Event |-> due[e] /\ e # failed[w]]

\* A commit that fails rolls the transaction back, or took effect and only
\* its answer was lost.  Rescheduling a row notifies.
Commit(w) ==
  /\ tx[w] = "commit"
  /\ Rollback(w)
  /\ \/ /\ NoFault /\ Apply(w)
        /\ IF failed[w] = None THEN UNCHANGED hint ELSE Notify
        /\ UNCHANGED next
     \/ /\ Fault
        /\ next' = [next EXCEPT ![w] = "timer"]
        /\ \/ Apply(w) /\ IF failed[w] = None THEN UNCHANGED hint ELSE Notify
           \/ UNCHANGED <<rowVars, hint>>
  /\ UNCHANGED <<sent, listening>>

\* A statement of the transaction fails between two publications.
Abort(w) ==
  /\ tx[w] \in {"publish", "commit"}
  /\ Fault
  /\ Rollback(w)
  /\ next' = [next EXCEPT ![w] = "timer"]
  /\ UNCHANGED <<rowVars, sent, hint, listening>>

----------------------------------------------------------------------------
(* OutboxRuntime::run                                                      *)

\* nextAvailable: a timer only if a row is still to be published, due later
\* or locked by another dispatcher; otherwise nothing but a wake-up.
BugTimerIgnoresDeferred == \E e \in Waiting : due[e]
Remaining == Waiting # {}

NextAvailable(w) ==
  /\ tx[w] = "available"
  /\ tx' = [tx EXCEPT ![w] = "idle"]
  /\ \/ NoFault /\ next' = [next EXCEPT ![w] = IF Remaining THEN "timer" ELSE "never"]
     \/ Fault /\ next' = [next EXCEPT ![w] = "timer"]
  /\ UNCHANGED <<rowVars, sent, batch, done, failed, hint, listening>>

Timer(w) ==
  /\ tx[w] = "idle" /\ next[w] = "timer"
  /\ next' = [next EXCEPT ![w] = "now"]
  /\ UNCHANGED <<rowVars, sent, txVars, hint, listening, faults>>

Wake(w) ==
  /\ tx[w] = "idle" /\ next[w] # "now" /\ hint[w]
  /\ next' = [next EXCEPT ![w] = "now"]
  /\ hint' = [hint EXCEPT ![w] = FALSE]
  /\ UNCHANGED <<rowVars, sent, txVars, listening, faults>>

\* The listener of a worker: LISTEN first, then a wake-up to catch up.
CatchUp(w) == TRUE

Connect(w) ==
  /\ ~listening[w]
  /\ listening' = [listening EXCEPT ![w] = TRUE]
  /\ hint' = [hint EXCEPT ![w] = @ \/ CatchUp(w)]
  /\ UNCHANGED <<rowVars, sent, txVars, next, faults>>

Disconnect(w) ==
  /\ listening[w] /\ Fault
  /\ listening' = [listening EXCEPT ![w] = FALSE]
  /\ UNCHANGED <<rowVars, sent, txVars, next, hint>>

\* The process of the worker dies and starts again.
Restart(w) ==
  /\ Fault /\ Rollback(w)
  /\ next' = [next EXCEPT ![w] = "now"]
  /\ hint' = [hint EXCEPT ![w] = FALSE]
  /\ listening' = [listening EXCEPT ![w] = FALSE]
  /\ UNCHANGED <<rowVars, sent>>

Run(w) ==
  \/ Dispatch(w) \/ Publish(w) \/ Commit(w) \/ Abort(w) \/ NextAvailable(w)
  \/ Timer(w) \/ Wake(w) \/ Connect(w) \/ Disconnect(w) \/ Restart(w)

Next == (\E e \in Event : Record(e) \/ Backoff(e)) \/ (\E w \in Worker : Run(w))

(***************************************************************************)
(* Fairness: the loop of a worker keeps running, its statements end in     *)
(* success or failure, timers fire, and listeners reconnect.  Nobody has   *)
(* to record an event.                                                     *)
(***************************************************************************)
Fairness ==
  /\ \A e \in Event : WF_vars(Backoff(e))
  /\ \A w \in Worker :
       /\ WF_vars(Dispatch(w)) /\ WF_vars(Publish(w)) /\ WF_vars(Commit(w))
       /\ WF_vars(NextAvailable(w)) /\ WF_vars(Timer(w)) /\ WF_vars(Wake(w))
       /\ WF_vars(Connect(w))

Spec == Init /\ [][Next]_vars
FairSpec == Spec /\ Fairness

----------------------------------------------------------------------------

\* Types; and a worker outside its transaction holds no lock and remembers
\* nothing of the batch.
TypeOK ==
  /\ row \in [Event -> {"absent", "waiting", "published", "dead"}]
  /\ due \in [Event -> BOOLEAN]
  /\ attempts \in [Event -> Nat]
  /\ sent \in [Event -> Nat]
  /\ tx \in [Worker -> {"idle", "available", "publish", "commit"}]
  /\ batch \in [Worker -> SUBSET Event]
  /\ done \in [Worker -> SUBSET Event]
  /\ failed \in [Worker -> Event \cup {None}]
  /\ next \in [Worker -> {"now", "timer", "never"}]
  /\ hint \in [Worker -> BOOLEAN]
  /\ listening \in [Worker -> BOOLEAN]
  /\ faults \in Nat
  /\ \A w \in Worker :
       /\ tx[w] \in {"idle", "available"} => batch[w] = {}
       /\ tx[w] # "commit" => failed[w] = None
       /\ done[w] \subseteq batch[w]

\* At least once: a row is marked published only if its event was appended,
\* whatever happened to the rows before and after it in its batch.
PublishedWasSent == \A e \in Event : row[e] = "published" => sent[e] > 0

\* Two workers never publish the same event twice on their own account: every
\* extra append is paid for by a failure.
DuplicatesAreFaults == \A e \in Event : sent[e] <= 1 + faults

\* The loop sleeps without a timer only when nothing is left, or when a
\* wake-up is under way: one in the channel, or the catch-up of a listener.
NoLostWakeup ==
  \A w \in Worker :
    tx[w] = "idle" /\ next[w] = "never" =>
      Waiting = {} \/ hint[w] \/ ~listening[w]

\* No row is left behind: it ends published or dead-lettered, even when its
\* batch fails on another row, a worker dies or a notification is lost.
EveryEventSettles ==
  \A e \in Event : row[e] = "waiting" ~> row[e] \in {"published", "dead"}

\* Workers neither lose an event nor repeat each other's work, and none sleeps
\* while there is something to do.
OutboxSafety ==
  TypeOK /\ PublishedWasSent /\ DuplicatesAreFaults /\ NoLostWakeup
=============================================================================
