----------------------------- MODULE Reconciler -----------------------------
(***************************************************************************)
(* The configuration reconciler.  Every Service Worker runs one; together  *)
(* they are the consumers of one Redis stream, fed by the outbox with an   *)
(* event for every configuration change.  A worker that reads events which *)
(* have no receipt in PostgreSQL projects the whole configuration: under a *)
(* transaction-scoped advisory lock it loads the database and switches the *)
(* active snapshot of Redis, and only then writes the receipts and removes *)
(* the entries.                                                            *)
(*                                                                         *)
(* A configuration is the number of changes it contains, so that the       *)
(* snapshot a projection loads is the value of db at that moment.          *)
(***************************************************************************)
EXTENDS Naturals, FiniteSets, Sequences

CONSTANTS
  Worker,          \* the Service Workers of all running instances
  MaxChanges,      \* bound on the configuration changes
  Batch,           \* entries one command reads (256 in the code)
  CoalesceLimit,   \* entries one projection serves (4096 in the code)
  MaxFaults,       \* bound on failing commands and dying processes
  MaxLost          \* bound on PostgreSQL sessions lost in a projection

None == "none"

ASSUME ReconcilerConstants ==
  /\ None \notin Worker
  /\ MaxChanges \in Nat /\ MaxFaults \in Nat /\ MaxLost \in Nat
  /\ Batch \in Nat \ {0} /\ CoalesceLimit \in Nat \ {0}

VARIABLES
  db,          \* changes committed in PostgreSQL
  outbox,      \* changes whose event is not published yet
  receipts,    \* changes whose event has a receipt of the reconciler group
  lock,        \* the session that holds the advisory lock
  stream,      \* the entries of the change stream, in order
  active,      \* the configuration of the active snapshot
  pc,          \* where the loop of each worker is
  recovering,  \* the loop replays what was delivered before
  batch,       \* entries the worker is handling
  count,       \* messageCount of the coalescing loop
  snap,        \* the configuration its projection loaded
  faults,
  lost

busVars  == <<db, outbox, receipts, stream>>
loopVars == <<pc, recovering, batch, count, snap>>
vars == <<busVars, lock, active, loopVars, faults, lost>>

Fault == faults < MaxFaults /\ faults' = faults + 1
NoFault == UNCHANGED faults

\* An entry of the stream: the change it announces, whether it is unread,
\* pending for its owner or deleted, and whether it is idle long enough to be
\* claimed by another consumer.
Entry == [change : 1 .. MaxChanges, state : {"unread", "pending", "gone"},
          owner : Worker \cup {None}, stale : BOOLEAN]

\* Every worker projects the configuration before its loop starts.
Init ==
  /\ db = 0 /\ outbox = {} /\ receipts = {} /\ stream = <<>>
  /\ lock = None /\ active = 0
  /\ pc = [w \in Worker |-> "lock"]
  /\ recovering = [w \in Worker |-> TRUE]
  /\ batch = [w \in Worker |-> {}]
  /\ count = [w \in Worker |-> 0]
  /\ snap = [w \in Worker |-> 0]
  /\ faults = 0 /\ lost = 0

----------------------------------------------------------------------------
(* The producers                                                           *)

\* A configuration change and its outbox event commit together.
Change ==
  /\ db < MaxChanges
  /\ db' = db + 1
  /\ outbox' = outbox \cup {db + 1}
  /\ UNCHANGED <<receipts, stream, lock, active, loopVars, faults, lost>>

\* The outbox appends the event; a failure may leave it to be appended again.
Publish(c) ==
  /\ c \in outbox
  /\ stream' = Append(stream, [change |-> c, state |-> "unread",
                               owner |-> None, stale |-> FALSE])
  /\ \/ NoFault /\ outbox' = outbox \ {c}
     \/ Fault /\ UNCHANGED outbox
  /\ UNCHANGED <<db, receipts, lock, active, loopVars, lost>>

\* A minute passes since an entry was last delivered.
Age(i) ==
  /\ stream[i].state = "pending" /\ ~stream[i].stale
  /\ stream' = [stream EXCEPT ![i].stale = TRUE]
  /\ UNCHANGED <<db, outbox, receipts, lock, active, loopVars, faults, lost>>

----------------------------------------------------------------------------
(* Reading: claimGroupMany and readGroupMany                               *)

FirstOf(S, n) ==
  {i \in S : Cardinality({j \in S : j < i}) < n}

Unread == {i \in DOMAIN stream : stream[i].state = "unread"}
Own(w) == {i \in DOMAIN stream : stream[i].state = "pending" /\ stream[i].owner = w}
Orphans(w) == {i \in DOMAIN stream : stream[i].state = "pending"
                                     /\ stream[i].owner # w /\ stream[i].stale}

\* Own pending entries first, then those that were left by others.
BugOwnOnly(w) == Own(w)
Claimable(w) == IF Own(w) # {} THEN Own(w) ELSE Orphans(w)

\* New entries, and what can be claimed when there are none.
Readable(w) == IF Unread # {} THEN Unread ELSE Claimable(w)

Deliver(w, S) ==
  stream' = [i \in DOMAIN stream |->
    IF i \in S THEN [stream[i] EXCEPT !.state = "pending", !.owner = w, !.stale = FALSE]
               ELSE stream[i]]

\* The catch of the loop: what was delivered before will be read again.  A
\* projection without a batch is that of the startup: the process ends, and
\* is started again.
Recover(w) ==
  /\ pc' = [pc EXCEPT ![w] = IF batch[w] = {} THEN "lock" ELSE "loop"]
  /\ batch' = [batch EXCEPT ![w] = {}]
  /\ count' = [count EXCEPT ![w] = 0]
  /\ recovering' = [recovering EXCEPT ![w] = TRUE]
  /\ UNCHANGED snap

Goto(w, label) == pc' = [pc EXCEPT ![w] = label]

\* One turn of the loop: recovery, and now and then a sweep, claim; the rest
\* reads.  Nothing to claim ends the recovery.
Read(w) ==
  /\ pc[w] = "loop"
  /\ \E src \in {Claimable(w)} \cup (IF recovering[w] THEN {} ELSE {Readable(w)}) :
       LET S == FirstOf(src, Batch)
       IN  \/ /\ S = {} /\ recovering[w]
              /\ recovering' = [recovering EXCEPT ![w] = FALSE]
              /\ NoFault
              /\ UNCHANGED <<pc, batch, count, stream>>
           \/ /\ S # {} /\ NoFault
              /\ Deliver(w, S)
              /\ batch' = [batch EXCEPT ![w] = S]
              /\ count' = [count EXCEPT ![w] = Cardinality(S)]
              /\ Goto(w, IF recovering[w] THEN "pending" ELSE "coalesce")
              /\ UNCHANGED recovering
           \/ /\ Fault
              /\ Deliver(w, S) \/ UNCHANGED stream
              /\ recovering' = [recovering EXCEPT ![w] = TRUE]
              /\ UNCHANGED <<pc, batch, count>>
  /\ UNCHANGED <<db, outbox, receipts, lock, active, snap, lost>>

\* The burst that is still arriving joins the batch.  Reading nothing new
\* falls back to claiming, which returns the batch itself.
Coalesce(w) ==
  /\ pc[w] = "coalesce"
  /\ LET room == CoalesceLimit - count[w]
         S == IF count[w] >= CoalesceLimit THEN {}
              ELSE FirstOf(Readable(w), IF room < Batch THEN room ELSE Batch)
     IN  \/ /\ S = {}
            /\ Goto(w, "pending")
            /\ UNCHANGED <<stream, batch, count>>
         \/ /\ S # {}
            /\ Deliver(w, S)
            /\ batch' = [batch EXCEPT ![w] = @ \cup S]
            /\ count' = [count EXCEPT ![w] = @ + Cardinality(S)]
            /\ UNCHANGED pc
  /\ UNCHANGED <<db, outbox, receipts, lock, active, recovering, snap, faults, lost>>

----------------------------------------------------------------------------
(* Handling a batch                                                        *)

Changes(S) == {stream[i].change : i \in S}

\* idempotency::pending: a batch whose events all have receipts needs no
\* projection.
BugAnyServed(S) == Changes(S) \cap receipts # {}
Served(S) == Changes(S) \subseteq receipts

Pending(w) ==
  /\ pc[w] = "pending"
  /\ Goto(w, IF Served(batch[w]) THEN "mark" ELSE "lock")
  /\ UNCHANGED <<busVars, lock, active, recovering, batch, count, snap, faults, lost>>

\* ConfigurationService::project waits for the advisory lock ...
BugNoLock == TRUE
LockFree == lock = None

Lock(w) ==
  /\ pc[w] = "lock" /\ LockFree
  /\ lock' = w
  /\ Goto(w, "load")
  /\ UNCHANGED <<busVars, active, recovering, batch, count, snap, faults, lost>>

\* ... loads the database ...
Load(w) ==
  /\ pc[w] = "load" /\ lock = w
  /\ snap' = [snap EXCEPT ![w] = db]
  /\ Goto(w, "activate")
  /\ UNCHANGED <<busVars, lock, active, recovering, batch, count, faults, lost>>

\* ... writes the snapshot and switches the active pointer to it, unless the
\* active one is the same.  The reply of Redis may be lost.
Activate(w) ==
  /\ pc[w] = "activate"
  /\ active' = snap[w]
  /\ \/ NoFault /\ Goto(w, "commit") /\ UNCHANGED <<lock, recovering, batch, count>>
     \/ /\ Fault /\ Recover(w)
        /\ lock' = IF lock = w THEN None ELSE lock
  /\ UNCHANGED <<busVars, snap, lost>>

\* The commit releases the lock.  It fails if the session is gone.
Commit(w) ==
  /\ pc[w] = "commit" /\ lock = w
  /\ lock' = None
  /\ Goto(w, "mark")
  /\ UNCHANGED <<busVars, active, recovering, batch, count, snap, faults, lost>>

NoSession(w) ==
  /\ pc[w] \in {"load", "commit"} /\ lock # w
  /\ Recover(w)
  /\ UNCHANGED <<busVars, lock, active, faults, lost>>

\* markProcessed writes the receipts.
Mark(w) ==
  /\ pc[w] = "mark"
  /\ receipts' = receipts \cup Changes(batch[w])
  /\ \/ NoFault /\ Goto(w, "ack") /\ UNCHANGED <<recovering, batch, count>>
     \/ Fault /\ Recover(w)
  /\ UNCHANGED <<db, outbox, stream, lock, active, snap, lost>>

\* The entries are acknowledged and deleted.
Ack(w) ==
  /\ pc[w] = "ack"
  /\ stream' = [i \in DOMAIN stream |->
       IF i \in batch[w] THEN [stream[i] EXCEPT !.state = "gone"] ELSE stream[i]]
  /\ batch' = [batch EXCEPT ![w] = {}]
  /\ count' = [count EXCEPT ![w] = 0]
  /\ Goto(w, "loop")
  /\ NoFault
  /\ UNCHANGED <<db, outbox, receipts, lock, active, recovering, snap, lost>>

\* A command fails without effect.
Fail(w) ==
  /\ pc[w] # "loop" /\ Fault
  /\ Recover(w)
  /\ lock' = IF lock = w THEN None ELSE lock
  /\ UNCHANGED <<busVars, active, lost>>

\* PostgreSQL ends the session of a projection, which is told of it only by
\* its next statement.
LoseSession(w) ==
  /\ lock = w /\ lost < MaxLost
  /\ lost' = lost + 1
  /\ lock' = None
  /\ UNCHANGED <<busVars, active, loopVars, faults>>

\* The process dies.  The consumer that starts instead of it has a new name,
\* and a projection of its own to do; what was pending is left to be claimed.
Restart(w) ==
  /\ Fault
  /\ pc' = [pc EXCEPT ![w] = "lock"]
  /\ batch' = [batch EXCEPT ![w] = {}]
  /\ count' = [count EXCEPT ![w] = 0]
  /\ recovering' = [recovering EXCEPT ![w] = TRUE]
  /\ lock' = IF lock = w THEN None ELSE lock
  /\ stream' = [i \in DOMAIN stream |->
       IF stream[i].owner = w THEN [stream[i] EXCEPT !.owner = None] ELSE stream[i]]
  /\ UNCHANGED <<db, outbox, receipts, active, snap, lost>>

Step(w) ==
  \/ Read(w) \/ Coalesce(w) \/ Pending(w) \/ Lock(w) \/ Load(w)
  \/ Activate(w) \/ Commit(w) \/ NoSession(w) \/ Mark(w) \/ Ack(w)

Next ==
  \/ Change
  \/ \E c \in outbox : Publish(c)
  \/ \E i \in DOMAIN stream : Age(i)
  \/ \E w \in Worker : Step(w) \/ Fail(w) \/ LoseSession(w) \/ Restart(w)

(***************************************************************************)
(* Fairness: the outbox publishes (see Outbox), entries grow old, and the  *)
(* loop of every worker goes on: each of its statements ends, and the      *)
(* advisory lock is granted to a session that keeps waiting for it.  No    *)
(* failure is ever due: a read that finds nothing just blocks.             *)
(***************************************************************************)
Fairness ==
  /\ WF_vars(\E c \in outbox : Publish(c) /\ NoFault)
  /\ WF_vars(\E i \in DOMAIN stream : Age(i))
  /\ \A w \in Worker : WF_vars(Step(w) /\ NoFault) /\ SF_vars(Lock(w))

Spec == Init /\ [][Next]_vars
FairSpec == Spec /\ Fairness

----------------------------------------------------------------------------

\* Types; and outside the loop a worker only handles entries it has read.
TypeOK ==
  /\ db \in 0 .. MaxChanges /\ active \in Nat
  /\ outbox \subseteq 1 .. MaxChanges /\ receipts \subseteq 1 .. MaxChanges
  /\ stream \in Seq(Entry)
  /\ lock \in Worker \cup {None}
  /\ pc \in [Worker -> {"loop", "coalesce", "pending", "lock", "load",
                        "activate", "commit", "mark", "ack"}]
  /\ recovering \in [Worker -> BOOLEAN]
  /\ \A w \in Worker : /\ batch[w] \subseteq DOMAIN stream \ Unread
                       /\ pc[w] = "loop" => batch[w] = {}
  /\ count \in [Worker -> Nat]
  /\ snap \in [Worker -> Nat]
  /\ faults \in Nat /\ lost \in Nat

\* A receipt is a promise, as long as no session was lost: the change it stands
\* for is part of the active configuration, whichever worker projected it.
ReceiptMeansApplied == lost = 0 => \A c \in receipts : c <= active

\* No change is forgotten, as long as no session was lost: while the active
\* configuration is behind, an event without a receipt is on its way.
NothingForgotten ==
  lost = 0 /\ active < db =>
    \E c \in (active + 1) .. db :
      /\ c \notin receipts
      /\ \/ c \in outbox
         \/ \E i \in DOMAIN stream : stream[i].change = c /\ stream[i].state # "gone"

\* "A slower request can never overwrite a newer DB state."
NeverOverwritesNewer == [][active' >= active]_vars

\* Every entry is removed from the stream, even if its consumer died.
EveryEntryRemoved ==
  \A i \in 1 .. MaxChanges + MaxFaults :
    i \in DOMAIN stream ~> i \in DOMAIN stream /\ stream[i].state = "gone"

\* The reconcilers implement the promise.
Promise == INSTANCE ConfigPropagation
             WITH db <- db, active <- active, broken <- lost > 0
ImplementsPromise == Promise!Spec

\* A change is either active, or on its way to the reconcilers, whatever their
\* receipts say.
ReconcilerSafety == TypeOK /\ ReceiptMeansApplied /\ NothingForgotten
=============================================================================
