-------------------------- MODULE ReconcilerProofs --------------------------
(* What holds of Reconciler for every number of workers and changes, with    *)
(* failing commands and dying processes.                                     *)
EXTENDS Reconciler, FiniteSetTheorems, TLAPS

USE ReconcilerConstants

\* A type invariant weaker than TypeOK, which is what the proofs need.
Types ==
  /\ db \in Nat /\ active \in Nat
  /\ outbox \subseteq 1 .. MaxChanges /\ receipts \subseteq Nat
  /\ stream \in Seq(Entry)
  /\ pc \in [Worker -> {"loop", "coalesce", "pending", "lock", "load",
                        "activate", "commit", "mark", "ack"}]
  /\ batch \in [Worker -> SUBSET Nat]
  /\ snap \in [Worker -> Nat]
  /\ lost \in Nat
  /\ \A w \in Worker : batch[w] \subseteq DOMAIN stream

\* The projection that holds the lock is the only one that switches.
LockInv ==
  /\ active <= db
  /\ \A w \in Worker :
       /\ pc[w] \in {"load", "activate", "commit"} => lock = w
       /\ pc[w] = "activate" => active <= snap[w] /\ snap[w] <= db

\* What a worker is about to receipt is part of what is active, or of what
\* its projection will activate.
BatchInv ==
  /\ \A c \in outbox : c <= db
  /\ \A i \in DOMAIN stream : stream[i].change <= db
  /\ \A c \in receipts : c <= active
  /\ \A w \in Worker : \A i \in batch[w] :
       /\ pc[w] = "activate" => stream[i].change <= snap[w]
       /\ pc[w] \in {"commit", "mark", "ack"} => stream[i].change <= active

\* Entries are only appended, for changes of the outbox, and keep what they
\* announce.
Kept ==
  /\ stream' \in Seq(Entry)
  /\ DOMAIN stream \subseteq DOMAIN stream'
  /\ \A i \in DOMAIN stream : stream'[i].change = stream[i].change
  /\ \A i \in DOMAIN stream' \ DOMAIN stream : stream'[i].change \in outbox

LEMMA KeptMap ==
  ASSUME stream \in Seq(Entry), stream' \in [DOMAIN stream -> Entry],
         \A i \in DOMAIN stream : stream'[i].change = stream[i].change
  PROVE  Kept
<1>1. stream' \in Seq(Entry)
  BY DOMAIN stream = 1 .. Len(stream), Len(stream) \in Nat
<1> QED BY <1>1 DEF Kept

LEMMA KeptAppend ==
  ASSUME Types, NEW c \in outbox, Publish(c)
  PROVE  Kept
<1> DEFINE e == [change |-> c, state |-> "unread", owner |-> None, stale |-> FALSE]
<1>1. e \in Entry
  BY DEF Entry, Types
<1>2. stream' = Append(stream, e)
  BY DEF Publish
<1>3. /\ stream' \in Seq(Entry) /\ Len(stream') = Len(stream) + 1
      /\ stream'[Len(stream) + 1] = e
      /\ \A i \in 1 .. Len(stream) : stream'[i] = stream[i]
  BY <1>1, <1>2 DEF Types
<1>4. DOMAIN stream = 1 .. Len(stream) /\ DOMAIN stream' = 1 .. Len(stream')
      /\ Len(stream) \in Nat
  BY <1>3 DEF Types
<1>5. e.change = c /\ \A i \in DOMAIN stream' \ DOMAIN stream : i = Len(stream) + 1
  BY <1>3, <1>4
<1>6. \A i \in DOMAIN stream' \ DOMAIN stream : stream'[i].change \in outbox
  BY <1>3, <1>5
<1> HIDE DEF e
<1> QED BY <1>3, <1>4, <1>6 DEF Kept

LEMMA KeptDeliver ==
  ASSUME stream \in Seq(Entry), NEW w \in Worker, NEW S, Deliver(w, S)
  PROVE  Kept
<1>1. \A i \in DOMAIN stream : stream[i] \in Entry
  OBVIOUS
<1>2. \A i \in DOMAIN stream :
        /\ [stream[i] EXCEPT !.state = "pending", !.owner = w, !.stale = FALSE] \in Entry
        /\ [stream[i] EXCEPT !.state = "pending", !.owner = w, !.stale = FALSE].change
             = stream[i].change
  BY <1>1 DEF Entry
<1> QED BY <1>1, <1>2, KeptMap DEF Deliver

LEMMA KeptStep ==
  ASSUME Types, [Next]_vars
  PROVE  Kept
<1>0. stream \in Seq(Entry) /\ \A i \in DOMAIN stream : stream[i] \in Entry
  BY DEF Types
<1>1. CASE UNCHANGED stream
  BY <1>1 DEF Types, Kept
<1>2. ASSUME NEW c \in outbox, Publish(c) PROVE Kept
  BY <1>2, KeptAppend
<1>3. ASSUME NEW i \in DOMAIN stream, Age(i) PROVE Kept
  <2>1. stream' = [stream EXCEPT ![i] = [stream[i] EXCEPT !.stale = TRUE]]
    BY <1>3 DEF Age
  <2>2. [stream[i] EXCEPT !.stale = TRUE] \in Entry
        /\ [stream[i] EXCEPT !.stale = TRUE].change = stream[i].change
    BY <1>0 DEF Entry
  <2>3. stream' \in [DOMAIN stream -> Entry]
    BY <1>0, <2>1, <2>2
  <2> QED BY <1>0, <2>1, <2>2, <2>3, KeptMap
<1>4. ASSUME NEW w \in Worker, Read(w) \/ Coalesce(w) PROVE Kept
  <2>1. UNCHANGED stream \/ \E S : Deliver(w, S)
    BY <1>4 DEF Read, Coalesce
  <2> QED BY <1>0, <1>1, <2>1, KeptDeliver
<1>5. ASSUME NEW w \in Worker, Ack(w) PROVE Kept
  <2>1. \A i \in DOMAIN stream :
          /\ [stream[i] EXCEPT !.state = "gone"] \in Entry
          /\ [stream[i] EXCEPT !.state = "gone"].change = stream[i].change
    BY <1>0 DEF Entry
  <2> QED BY <1>0, <1>5, <2>1, KeptMap DEF Ack
<1>6. ASSUME NEW w \in Worker, Restart(w) PROVE Kept
  <2>1. \A i \in DOMAIN stream :
          /\ [stream[i] EXCEPT !.owner = None] \in Entry
          /\ [stream[i] EXCEPT !.owner = None].change = stream[i].change
    BY <1>0 DEF Entry
  <2> QED BY <1>0, <1>6, <2>1, KeptMap DEF Restart
<1>7. ASSUME NEW w \in Worker,
             \/ Pending(w) \/ Lock(w) \/ Load(w) \/ Activate(w) \/ Commit(w)
             \/ NoSession(w) \/ Mark(w) \/ Fail(w) \/ LoseSession(w)
      PROVE UNCHANGED stream
  BY <1>7 DEF Pending, Lock, Load, Activate, Commit, NoSession, Mark, Fail,
              LoseSession, busVars
<1>8. CASE Change \/ UNCHANGED vars
  BY <1>1, <1>8 DEF Change, vars, busVars
<1> QED BY <1>1, <1>2, <1>3, <1>4, <1>5, <1>6, <1>7, <1>8 DEF Next, Step

\* How one worker moves: only it moves, and its batch is empty, or what it
\* was, or made of entries.
Moves(w) ==
  /\ pc' \in [Worker -> {"loop", "coalesce", "pending", "lock", "load",
                         "activate", "commit", "mark", "ack"}]
  /\ batch' \in [Worker -> SUBSET Nat]
  /\ \A v \in Worker : v # w => pc'[v] = pc[v] /\ batch'[v] = batch[v]
  /\ batch'[w] \subseteq DOMAIN stream

LEMMA MovesGoto ==
  ASSUME Types, NEW w \in Worker, UNCHANGED batch,
         NEW l \in {"loop", "coalesce", "pending", "lock", "load",
                    "activate", "commit", "mark", "ack"}, Goto(w, l)
  PROVE  Moves(w) /\ pc'[w] = l
  BY DEF Goto, Moves, Types

LEMMA MovesRecover ==
  ASSUME Types, NEW w \in Worker, Recover(w)
  PROVE  Moves(w) /\ pc'[w] \in {"loop", "lock"}
  BY DEF Recover, Moves, Types

LEMMA LockRead ==
  ASSUME Types, NEW w \in Worker, Read(w) \/ Coalesce(w) \/ Pending(w) \/ Mark(w) \/ Ack(w)
  PROVE  /\ Moves(w) /\ pc'[w] \in {"loop", "coalesce", "pending", "lock", "mark", "ack"}
         /\ UNCHANGED <<db, active, lock, snap, outbox, lost>>
         /\ UNCHANGED receipts \/ Mark(w)
         /\ pc'[w] \in {"mark", "ack"} =>
              /\ batch'[w] = batch[w]
              /\ pc[w] = "mark" \/ (pc[w] = "pending" /\ Served(batch[w]))
<1> USE DEF Moves, busVars
<1>1. CASE Read(w)
  <2>1. PICK S : /\ S \subseteq DOMAIN stream
                 /\ \/ UNCHANGED <<pc, batch>>
                    \/ /\ batch' = [batch EXCEPT ![w] = S]
                       /\ \E l \in {"pending", "coalesce"} : Goto(w, l)
    <3>1. Claimable(w) \subseteq DOMAIN stream /\ Readable(w) \subseteq DOMAIN stream
      BY DEF Claimable, Readable, Own, Orphans, Unread
    <3>2. \A src : FirstOf(src, Batch) \subseteq src
      BY DEF FirstOf
    <3>3. PICK src \in {Claimable(w), Readable(w)} :
            \/ UNCHANGED <<pc, batch>>
            \/ /\ batch' = [batch EXCEPT ![w] = FirstOf(src, Batch)]
               /\ Goto(w, IF recovering[w] THEN "pending" ELSE "coalesce")
      BY <1>1 DEF Read
    <3> QED BY <3>1, <3>2, <3>3
  <2>2. DOMAIN stream \subseteq Nat
    BY DEF Types
  <2>3. pc[w] = "loop" /\ UNCHANGED <<db, active, lock, snap, outbox, lost, receipts>>
    BY <1>1 DEF Read
  <2> QED BY <2>1, <2>2, <2>3 DEF Types, Goto
<1>2. CASE Coalesce(w)
  <2>1. PICK S : /\ S \subseteq DOMAIN stream
                 /\ \/ UNCHANGED batch /\ Goto(w, "pending")
                    \/ UNCHANGED pc /\ batch' = [batch EXCEPT ![w] = @ \cup S]
    <3>1. Readable(w) \subseteq DOMAIN stream
      BY DEF Claimable, Readable, Own, Orphans, Unread
    <3>2. \A n : FirstOf(Readable(w), n) \subseteq Readable(w)
      BY DEF FirstOf
    <3> QED BY <1>2, <3>1, <3>2 DEF Coalesce
  <2>2. DOMAIN stream \subseteq Nat
    BY DEF Types
  <2>3. pc[w] = "coalesce" /\ UNCHANGED <<db, active, lock, snap, outbox, lost, receipts>>
    BY <1>2 DEF Coalesce
  <2> QED BY <2>1, <2>2, <2>3 DEF Types, Goto
<1>3. CASE Pending(w)
  BY <1>3 DEF Pending, Types, Goto
<1>4. CASE Mark(w)
  BY <1>4, MovesRecover DEF Mark, Types, Goto
<1>5. CASE Ack(w)
  BY <1>5 DEF Ack, Types, Goto
<1> QED BY <1>1, <1>2, <1>3, <1>4, <1>5

----------------------------------------------------------------------------
(* The strengthening of ReceiptMeansApplied, step by step.                  *)
Safe == Types /\ LockInv /\ BatchInv /\ lost = 0

\* What the producers do to it: db grows, the stream and the outbox stay
\* below db.
LEMMA ChangeType ==
  ASSUME stream \in Seq(Entry), NEW i \in DOMAIN stream
  PROVE  stream[i].change \in 1 .. MaxChanges
<1>1. stream[i] \in Entry
  OBVIOUS
<1> QED BY <1>1 DEF Entry

LEMMA SafeProducer ==
  ASSUME Safe, Change \/ (\E c \in outbox : Publish(c)) \/ (\E i \in DOMAIN stream : Age(i))
  PROVE  Safe'
<1>1. /\ UNCHANGED <<receipts, lock, active, pc, batch, snap, lost>>
      /\ db' \in {db, db + 1} /\ db' \in Nat
      /\ outbox' \subseteq 1 .. MaxChanges /\ outbox' \subseteq outbox \cup {db + 1}
      /\ outbox' \subseteq outbox \/ db' = db + 1
  <2>1. CASE Change
    BY <2>1 DEF Change, loopVars, Safe, Types
  <2>2. CASE \E c \in outbox : Publish(c)
    BY <2>2 DEF Publish, loopVars, Safe, Types
  <2>3. CASE \E i \in DOMAIN stream : Age(i)
    BY <2>3 DEF Age, loopVars, Safe, Types
  <2> QED BY <2>1, <2>2, <2>3
<1>2. Kept
  BY KeptStep DEF Next, Safe
<1>3. Types'
  BY <1>1, <1>2 DEF Kept, Safe, Types
<1>4. LockInv'
  BY <1>1 DEF Safe, Types, LockInv
<1>5. \A w \in Worker : \A i \in batch[w] : stream'[i].change = stream[i].change
  BY <1>2 DEF Kept, Safe, Types
<1>6. BatchInv'
  <2>1. \A c \in outbox' : c <= db'
    BY <1>1 DEF Safe, BatchInv, Types
  <2>2. \A i \in DOMAIN stream' : stream'[i].change <= db'
    <3>1. ASSUME NEW i \in DOMAIN stream PROVE stream'[i].change <= db'
      BY <1>1, <1>2, ChangeType DEF Safe, BatchInv, Types, Kept
    <3>2. ASSUME NEW i \in DOMAIN stream' \ DOMAIN stream PROVE stream'[i].change <= db'
      <4>1. stream'[i].change \in outbox
        BY <1>2 DEF Kept
      <4>2. \A c \in outbox : c <= db /\ c \in Nat
        BY DEF Safe, BatchInv, Types
      <4>3. stream'[i].change <= db /\ stream'[i].change \in Nat
        BY <4>1, <4>2
      <4> QED BY <1>1, <4>3 DEF Safe, Types
    <3> QED BY <3>1, <3>2
  <2> QED BY <1>1, <1>5, <2>1, <2>2 DEF Safe, BatchInv
<1> QED BY <1>1, <1>3, <1>4, <1>6 DEF Safe

LEMMA SafeHandling ==
  ASSUME Safe, NEW w \in Worker,
         Read(w) \/ Coalesce(w) \/ Pending(w) \/ Mark(w) \/ Ack(w)
  PROVE  Safe'
<1>1. Kept
  BY KeptStep DEF Next, Step, Safe
<1>2. /\ Moves(w) /\ pc'[w] \in {"loop", "coalesce", "pending", "lock", "mark", "ack"}
      /\ UNCHANGED <<db, active, lock, snap, outbox, lost>>
      /\ UNCHANGED receipts \/ Mark(w)
      /\ pc'[w] \in {"mark", "ack"} =>
              /\ batch'[w] = batch[w]
              /\ pc[w] = "mark" \/ (pc[w] = "pending" /\ Served(batch[w]))
  BY LockRead DEF Safe
<1>3. \A v \in Worker : \A i \in batch[v] : stream'[i].change = stream[i].change
  BY <1>1 DEF Kept, Safe, Types
<1>4. receipts' \subseteq Nat /\ \A c \in receipts' : c <= active
  <2>1. CASE UNCHANGED receipts
    BY <2>1 DEF Safe, Types, BatchInv
  <2>2. CASE Mark(w)
    <3>1. pc[w] = "mark" /\ receipts' = receipts \cup Changes(batch[w])
      BY <2>2 DEF Mark
    <3>2. \A c \in Changes(batch[w]) : c <= active /\ c \in Nat
      <4>1. \A i \in batch[w] : stream[i].change <= active /\ stream[i].change \in Nat
        BY <3>1, ChangeType DEF Safe, BatchInv, Types
      <4> QED BY <4>1 DEF Changes
    <3> QED BY <3>1, <3>2 DEF Safe, Types, BatchInv
  <2> QED BY <1>2, <2>1, <2>2
<1>5. Types'
  BY <1>1, <1>2, <1>4 DEF Kept, Safe, Types, Moves
<1>6. LockInv'
  BY <1>2 DEF Safe, LockInv, Moves
<1>7. ASSUME NEW v \in Worker, NEW i \in batch'[v]
      PROVE  /\ pc'[v] = "activate" => stream'[i].change <= snap'[v]
             /\ pc'[v] \in {"commit", "mark", "ack"} => stream'[i].change <= active'
  <2>1. CASE v # w
    BY <1>2, <1>3, <1>7, <2>1 DEF Safe, BatchInv, Moves
  <2>2. CASE v = w /\ pc'[w] \in {"mark", "ack"} /\ pc[w] = "mark"
    BY <1>2, <1>3, <1>7, <2>2 DEF Safe, BatchInv
  <2>3. CASE v = w /\ pc'[w] \in {"mark", "ack"} /\ Served(batch[w])
    <3>1. stream[i].change \in receipts /\ stream'[i].change = stream[i].change
      BY <1>2, <1>3, <1>7, <2>3 DEF Served, Changes
    <3> QED BY <1>2, <2>3, <3>1 DEF Safe, BatchInv
  <2> QED BY <1>2, <2>1, <2>2, <2>3
<1>8. /\ \A c \in outbox' : c <= db'
      /\ \A i \in DOMAIN stream' : stream'[i].change <= db'
  BY <1>1, <1>2 DEF Safe, BatchInv, Types, Kept
<1>9. BatchInv'
  BY <1>2, <1>4, <1>7, <1>8 DEF BatchInv
<1> QED BY <1>2, <1>5, <1>6, <1>9 DEF Safe

\* What the steps of a projection do to it.
LEMMA SafeProjection ==
  ASSUME Safe, NEW w \in Worker,
         Lock(w) \/ Load(w) \/ Activate(w) \/ Commit(w) \/ NoSession(w) \/ Fail(w)
  PROVE  Safe'
<1>1. Moves(w) /\ UNCHANGED <<db, outbox, receipts, stream, lost>>
      /\ (batch'[w] = {} \/ batch'[w] = batch[w])
  <2>1. CASE Lock(w) \/ Load(w) \/ Commit(w)
    BY <2>1, MovesGoto DEF Lock, Load, Commit, busVars, Safe
  <2>2. CASE Activate(w)
    <3>1. CASE Recover(w)
      BY <2>2, <3>1, MovesRecover DEF Activate, Recover, busVars, Safe, Types
    <3>2. CASE Goto(w, "commit") /\ UNCHANGED batch
      BY <2>2, <3>2, MovesGoto DEF Activate, busVars, Safe
    <3> QED BY <2>2, <3>1, <3>2 DEF Activate
  <2>3. CASE NoSession(w) \/ Fail(w)
    <3>1. Recover(w) /\ UNCHANGED <<db, outbox, receipts, stream, lost>>
      BY <2>3 DEF NoSession, Fail, busVars
    <3> QED BY <3>1, MovesRecover DEF Recover, Safe, Types
  <2> QED BY <2>1, <2>2, <2>3
<1>2. /\ Types' /\ LockInv'
      /\ active <= active'
      /\ pc'[w] \in {"mark", "ack"} => pc[w] = "commit" /\ UNCHANGED <<batch, active>>
      /\ pc'[w] = "commit" => active' = snap[w] /\ UNCHANGED batch
                              /\ pc[w] = "activate"
      /\ pc'[w] = "activate" => snap'[w] = db
      /\ \A v \in Worker : v # w => snap'[v] = snap[v]
  <2> USE <1>1 DEF Safe, Types, LockInv, Moves
  <2>1. CASE Lock(w)
    <3>1. /\ pc' = [pc EXCEPT ![w] = "load"] /\ lock' = w /\ lock = None
          /\ UNCHANGED <<active, snap>>
      BY <2>1 DEF Lock, LockFree, Goto
    <3>2. \A v \in Worker : pc[v] \notin {"load", "activate", "commit"}
      BY <3>1
    <3>3. \A v \in Worker : v # w => pc'[v] = pc[v]
      BY <3>1
    <3>4. LockInv'
      BY <3>1, <3>2, <3>3
    <3> QED BY <3>1, <3>4
  <2>2. CASE Load(w)
    BY <2>2 DEF Load, Goto
  <2>3. CASE Activate(w)
    <3>1. CASE Recover(w)
      BY <2>3, <3>1 DEF Activate, Recover
    <3>2. CASE Goto(w, "commit") /\ UNCHANGED <<batch, lock>>
      BY <2>3, <3>2 DEF Activate, Goto
    <3> QED BY <2>3, <3>1, <3>2 DEF Activate
  <2>4. CASE Commit(w)
    BY <2>4 DEF Commit, Goto
  <2>5. CASE NoSession(w)
    BY <2>5 DEF NoSession, Recover
  <2>6. CASE Fail(w)
    BY <2>6 DEF Fail, Recover
  <2> QED BY <2>1, <2>2, <2>3, <2>4, <2>5, <2>6
<1>3. ASSUME NEW v \in Worker, NEW i \in batch'[v]
      PROVE  /\ pc'[v] = "activate" => stream'[i].change <= snap'[v]
             /\ pc'[v] \in {"commit", "mark", "ack"} => stream'[i].change <= active'
  <2>1. i \in batch[v] /\ stream[i].change \in Nat /\ stream[i].change <= db
    <3>1. i \in batch[v]
      <4>1. v # w => batch'[v] = batch[v]
        BY <1>1 DEF Moves
      <4> QED BY <1>1, <1>3, <4>1
    <3>2. i \in DOMAIN stream
      BY <3>1 DEF Safe, Types
    <3>3. stream[i].change \in Nat
      BY <3>2, ChangeType DEF Safe, Types
    <3> QED BY <3>1, <3>2, <3>3 DEF Safe, BatchInv
  <2>2. active \in Nat /\ active' \in Nat
    BY <1>2 DEF Safe, Types
  <2>3. CASE v # w
    BY <1>1, <1>2, <2>1, <2>2, <2>3 DEF Safe, BatchInv, Moves
  <2>4. CASE v = w
    BY <1>1, <1>2, <2>1, <2>2, <2>4 DEF Safe, BatchInv
  <2> QED BY <2>3, <2>4
<1>4. BatchInv'
  <2>1. \A c \in receipts' : c <= active'
    BY <1>1, <1>2 DEF Safe, BatchInv, Types
  <2> QED BY <1>1, <1>3, <2>1 DEF Safe, BatchInv
<1> QED BY <1>1, <1>2, <1>4 DEF Safe

LEMMA SafeRestart ==
  ASSUME Safe, NEW w \in Worker, Restart(w)
  PROVE  Safe'
<1>1. Kept
  BY KeptStep DEF Next, Safe
<1>2. /\ pc' = [pc EXCEPT ![w] = "lock"] /\ batch' = [batch EXCEPT ![w] = {}]
      /\ UNCHANGED <<db, outbox, receipts, active, snap, lost>>
      /\ lock' = IF lock = w THEN None ELSE lock
  BY DEF Restart
<1>3. \A v \in Worker : \A i \in batch[v] : stream'[i].change = stream[i].change
  BY <1>1 DEF Kept, Safe, Types
<1>4. Types'
  BY <1>1, <1>2 DEF Kept, Safe, Types
<1>5. LockInv'
  BY <1>2 DEF Safe, LockInv, Types
<1>6. \A i \in DOMAIN stream' : stream'[i].change <= db
  BY <1>1 DEF Kept, Safe, BatchInv
<1>7. ASSUME NEW v \in Worker, NEW i \in batch'[v]
      PROVE  /\ pc'[v] = "activate" => stream'[i].change <= snap'[v]
             /\ pc'[v] \in {"commit", "mark", "ack"} => stream'[i].change <= active'
  BY <1>2, <1>3, <1>7 DEF Safe, BatchInv, Types
<1>8. BatchInv'
  BY <1>2, <1>6, <1>7 DEF BatchInv, Safe
<1> QED BY <1>2, <1>4, <1>5, <1>8 DEF Safe

LEMMA SafeInit == ASSUME Init PROVE Safe
  BY DEF Init, Safe, Types, LockInv, BatchInv, Entry

\* A lost session stays lost.
LEMMA SafeStep ==
  ASSUME lost \in Nat, lost = 0 => Safe, [Next]_vars
  PROVE  lost' \in Nat /\ (lost' = 0 => lost = 0 /\ Safe')
<1>1. lost' = lost \/ \E w \in Worker : LoseSession(w)
  BY DEF Next, Step, vars, loopVars, Change, Publish, Age, Read, Coalesce,
     Pending,
         Lock, Load, Activate, Commit, NoSession, Mark, Ack, Fail, Restart
<1>2. lost' = lost \/ lost' = lost + 1
  BY <1>1 DEF LoseSession
<1>3. ASSUME lost' = 0 PROVE lost = 0 /\ Safe'
  <2>1. lost = 0 /\ Safe
    BY <1>2, <1>3
  <2>2. CASE UNCHANGED vars
    BY <2>1, <2>2 DEF vars, busVars, loopVars, Safe, Types, LockInv, BatchInv
  <2>3. ASSUME NEW w \in Worker, LoseSession(w) PROVE FALSE
    BY <1>3, <2>1, <2>3 DEF LoseSession
  <2>4. ASSUME NEW w \in Worker, Step(w) \/ Fail(w) PROVE Safe'
    BY <2>1, <2>4, SafeHandling, SafeProjection DEF Step
  <2> QED BY <2>1, <2>2, <2>3, <2>4, SafeProducer, SafeRestart DEF Next
<1> QED BY <1>2, <1>3

(* A receipt of the reconciler group stands for a change that is active, for *)
(* any number of workers that claim each other's entries, with failing       *)
(* commands and dying processes, as long as no session was lost.             *)
THEOREM ReceiptsAreApplied == Spec => []ReceiptMeansApplied
<1> DEFINE Inv == lost \in Nat /\ (lost = 0 => Safe)
<1>1. Init => Inv
  BY SafeInit DEF Init
<1>2. Inv /\ [Next]_vars => Inv'
  BY SafeStep
<1>3. Inv => ReceiptMeansApplied
  BY DEF Safe, BatchInv, ReceiptMeansApplied
<1> QED BY <1>1, <1>2, <1>3, PTL DEF Spec

(* Every step of the reconcilers is a step of ConfigPropagation or leaves    *)
(* its state alone: the active configuration only moves forward, until a     *)
(* session that holds the lock is lost.                                      *)
THEOREM StepsImplementPromise ==
  Spec => Promise!Init /\ [][Promise!Next]_<<db, active, lost > 0>>
<1> DEFINE Inv == lost \in Nat /\ (lost = 0 => Safe)
<1>1. Init => Promise!Init
  BY DEF Init, Promise!Init
<1>2. Init => Inv
  BY SafeInit DEF Init
<1>3. Inv /\ [Next]_vars => Inv'
  BY SafeStep
<1>4. ASSUME Inv, [Next]_vars PROVE [Promise!Next]_<<db, active, lost > 0>>
  <2>1. lost' = lost \/ \E w \in Worker : LoseSession(w)
    BY <1>4 DEF Next, Step, vars, loopVars, Change, Publish, Age, Read,
       Coalesce,
                Pending, Lock, Load, Activate, Commit, NoSession, Mark, Ack, Fail,
                Restart
  <2>2. CASE lost # 0
    <3>1. lost' \in Nat /\ lost' # 0
      BY <1>3, <1>4, <2>1, <2>2 DEF LoseSession
    <3> QED BY <1>4, <2>2, <3>1 DEF Promise!Next
  <2>3. CASE lost = 0
    <3>1. Safe
      BY <1>4, <2>3
    <3>2. ASSUME NEW w \in Worker, LoseSession(w) PROVE Promise!Next
      <4>1. lost' = 1 /\ UNCHANGED <<db, active>>
        BY <2>3, <3>2 DEF LoseSession, busVars
      <4> QED BY <2>3, <4>1 DEF Promise!Next, Promise!Lose
    <3>3. CASE lost' = lost
      <4>1. CASE Change
        BY <2>3, <3>3, <4>1 DEF Change, Promise!Next, Promise!Change
      <4>2. ASSUME NEW w \in Worker, Activate(w)
            PROVE  [Promise!Next]_<<db, active, lost > 0>>
        <5>1. active' = snap[w] /\ db' = db /\ active <= snap[w] /\ snap[w] <= db
          BY <3>1, <4>2 DEF Activate, busVars, Safe, LockInv
        <5>2. active \in Nat /\ db \in Nat /\ snap[w] \in Nat
          BY <3>1 DEF Safe, Types
        <5>3. active' = active \/ active' \in (active + 1) .. db
          BY <5>1, <5>2
        <5> QED BY <2>3, <3>3, <5>1, <5>3 DEF Promise!Next, Promise!Activate
      <4>3. ASSUME NEW w \in Worker,
                   \/ Read(w) \/ Coalesce(w) \/ Pending(w) \/ Mark(w) \/ Ack(w)
            PROVE UNCHANGED <<db, active>>
        BY <3>1, <4>3, LockRead DEF Safe
      <4>4. ASSUME NEW w \in Worker,
                   \/ Lock(w) \/ Load(w) \/ Commit(w) \/ NoSession(w) \/ Fail(w)
                   \/ LoseSession(w) \/ Restart(w)
            PROVE UNCHANGED <<db, active>>
        BY <4>4 DEF Lock, Load, Commit, NoSession, Fail, LoseSession, Restart,
           busVars
      <4>5. CASE \/ \E c \in outbox : Publish(c)
                 \/ \E i \in DOMAIN stream : Age(i)
                 \/ UNCHANGED vars
        BY <4>5 DEF Publish, Age, vars, busVars
      <4> QED BY <1>4, <3>3, <4>1, <4>2, <4>3, <4>4, <4>5 DEF Next, Step
    <3> QED BY <2>1, <3>2, <3>3
  <2> QED BY <2>2, <2>3
<1> QED BY <1>1, <1>2, <1>3, <1>4, PTL DEF Spec

----------------------------------------------------------------------------
(* TypeOK, of which the proofs so far have used a weaker form.              *)
TypeInv == TypeOK /\ batch \in [Worker -> SUBSET Nat]

LEMMA TypeGivesTypes == ASSUME TypeInv PROVE Types
<1>1. DOMAIN stream \subseteq Nat
  BY DEF TypeInv, TypeOK
<1> QED BY <1>1 DEF TypeInv, TypeOK, Types

\* An entry that was read once is never unread again.
LEMMA ReadStaysRead ==
  ASSUME Types, [Next]_vars, NEW i \in DOMAIN stream, stream[i].state # "unread"
  PROVE  stream'[i].state # "unread"
<1>0. stream \in Seq(Entry) /\ \A j \in DOMAIN stream : stream[j] \in Entry
  BY DEF Types
<1>1. CASE UNCHANGED stream
  BY <1>1
<1>2. ASSUME NEW c \in outbox, Publish(c) PROVE stream'[i] = stream[i]
  BY <1>0, <1>2 DEF Publish
<1>3. ASSUME NEW j \in DOMAIN stream, Age(j) PROVE stream'[i].state = stream[i].state
  BY <1>0, <1>3 DEF Age, Entry
<1>4. ASSUME NEW w \in Worker, Read(w) \/ Coalesce(w) PROVE stream'[i].state # "unread"
  <2>1. UNCHANGED stream \/ \E S : Deliver(w, S)
    BY <1>4 DEF Read, Coalesce
  <2>2. ASSUME NEW S, Deliver(w, S) PROVE stream'[i].state # "unread"
    BY <1>0, <2>2 DEF Deliver, Entry
  <2> QED BY <2>1, <2>2
<1>5. ASSUME NEW w \in Worker, Ack(w) \/ Restart(w) PROVE stream'[i].state # "unread"
  BY <1>0, <1>5 DEF Ack, Restart, Entry
<1>6. ASSUME NEW w \in Worker,
             \/ Pending(w) \/ Lock(w) \/ Load(w) \/ Activate(w) \/ Commit(w)
             \/ NoSession(w) \/ Mark(w) \/ Fail(w) \/ LoseSession(w)
      PROVE UNCHANGED stream
  BY <1>6 DEF Pending, Lock, Load, Activate, Commit, NoSession, Mark, Fail,
              LoseSession, busVars
<1>7. CASE Change \/ UNCHANGED vars
  BY <1>7 DEF Change, vars, busVars
<1> QED BY <1>1, <1>2, <1>3, <1>4, <1>5, <1>6, <1>7 DEF Next, Step

LEMMA FirstOfIsFinite ==
  ASSUME stream \in Seq(Entry), NEW S \in SUBSET DOMAIN stream, NEW n
  PROVE  FirstOf(S, n) \subseteq S /\ Cardinality(FirstOf(S, n)) \in Nat
<1>1. DOMAIN stream = 1 .. Len(stream) /\ Len(stream) \in Nat
  OBVIOUS
<1>2. FirstOf(S, n) \subseteq S
  BY DEF FirstOf
<1>3. IsFiniteSet(1 .. Len(stream))
  BY <1>1, FS_Interval
<1>4. IsFiniteSet(FirstOf(S, n))
  BY <1>1, <1>2, <1>3, FS_Subset
<1> QED BY <1>2, <1>4, FS_CardinalityType

LEMMA Sources ==
  ASSUME NEW w PROVE /\ Claimable(w) \subseteq DOMAIN stream
                     /\ Readable(w) \subseteq DOMAIN stream
  BY DEF Claimable, Readable, Own, Orphans, Unread

\* What a step does to the batches: they shrink, or take in what the step has
\* delivered; and a loop that waits for entries has none.
LEMMA TypeBatch ==
  ASSUME TypeInv, NEW w \in Worker,
         NEW S, S = {} \/ (S \in SUBSET DOMAIN stream /\ Deliver(w, S)),
         [Next]_vars,
         batch' \in [Worker -> SUBSET Nat],
         \A v \in Worker : batch'[v] \subseteq batch[v] \cup S,
         \A v \in Worker : pc'[v] = "loop" => batch'[v] = {}
  PROVE  \A v \in Worker : /\ batch'[v] \subseteq DOMAIN stream' \ Unread'
                           /\ pc'[v] = "loop" => batch'[v] = {}
<1>1. Types
  BY TypeGivesTypes
<1>2. Kept
  BY <1>1, KeptStep
<1>3. \A i \in S : i \in DOMAIN stream' /\ stream'[i].state # "unread"
  <2> SUFFICES ASSUME NEW i \in S
               PROVE  i \in DOMAIN stream' /\ stream'[i].state # "unread"
    OBVIOUS
  <2>1. i \in DOMAIN stream /\ stream[i] \in Entry
    BY DEF TypeInv, TypeOK
  <2>2. stream'[i] = [stream[i] EXCEPT !.state = "pending", !.owner = w,
                                       !.stale = FALSE]
        /\ DOMAIN stream' = DOMAIN stream
    BY <2>1 DEF Deliver
  <2> QED BY <2>1, <2>2 DEF Entry
<1>4. ASSUME NEW v \in Worker, NEW i \in batch[v]
      PROVE  i \in DOMAIN stream' /\ stream'[i].state # "unread"
  <2>1. i \in DOMAIN stream /\ stream[i].state # "unread"
    BY DEF TypeInv, TypeOK, Unread
  <2> QED BY <1>1, <1>2, <2>1, ReadStaysRead DEF Kept
<1> QED BY <1>3, <1>4 DEF Unread

LEMMA TypeProducer ==
  ASSUME TypeInv, [Next]_vars,
         \/ Change \/ UNCHANGED vars
         \/ \E c \in outbox : Publish(c)
         \/ \E i \in DOMAIN stream : Age(i)
         \/ \E w \in Worker : LoseSession(w)
  PROVE  TypeInv'
<1>1. Kept
  BY TypeGivesTypes, KeptStep
<1>2. UNCHANGED <<active, receipts, loopVars>>
  BY DEF Change, Publish, Age, LoseSession, vars, busVars
<1>3. db' \in 0 .. MaxChanges /\ outbox' \subseteq 1 .. MaxChanges
  <2>1. CASE Change
    BY <2>1, ReconcilerConstants DEF Change, TypeInv, TypeOK
  <2>2. CASE UNCHANGED db /\ outbox' \subseteq outbox
    BY <2>2 DEF TypeInv, TypeOK
  <2> QED BY <2>1, <2>2 DEF Publish, Age, LoseSession, vars, busVars
<1>4. lock' \in Worker \cup {None} /\ faults' \in Nat /\ lost' \in Nat
  <2>1. lock' \in {lock, None} /\ faults' \in {faults, faults + 1}
        /\ lost' \in {lost, lost + 1}
    BY DEF Change, Publish, Age, LoseSession, vars, NoFault, Fault
  <2> QED BY <2>1 DEF TypeInv, TypeOK
<1>5. \A v \in Worker : /\ batch'[v] \subseteq DOMAIN stream' \ Unread'
                        /\ pc'[v] = "loop" => batch'[v] = {}
  <2> SUFFICES ASSUME NEW v \in Worker
               PROVE  /\ batch'[v] \subseteq DOMAIN stream' \ Unread'
                      /\ pc'[v] = "loop" => batch'[v] = {}
    OBVIOUS
  <2>1. \A i \in batch[v] : i \in DOMAIN stream' /\ stream'[i].state # "unread"
    <3> SUFFICES ASSUME NEW i \in batch[v]
                 PROVE  i \in DOMAIN stream' /\ stream'[i].state # "unread"
      OBVIOUS
    <3>1. i \in DOMAIN stream /\ stream[i].state # "unread"
      BY DEF TypeInv, TypeOK, Unread
    <3> QED BY <1>1, <3>1, TypeGivesTypes, ReadStaysRead DEF Kept
  <2> QED BY <1>2, <2>1 DEF Unread, loopVars, TypeInv, TypeOK
<1> QED BY <1>1, <1>2, <1>3, <1>4, <1>5 DEF TypeInv, TypeOK, Kept, loopVars

LEMMA TypeRead ==
  ASSUME TypeInv, NEW w \in Worker, Read(w) \/ Coalesce(w)
  PROVE  TypeInv'
<1>0. [Next]_vars /\ stream \in Seq(Entry)
  BY DEF Next, Step, TypeInv, TypeOK
<1>00. {} \in SUBSET DOMAIN stream /\ Cardinality({}) \in Nat
  BY FS_EmptySet
<1>1. UNCHANGED <<db, outbox, receipts, lock, active, snap, lost>>
  BY DEF Read, Coalesce
<1>2. faults' \in Nat
  BY DEF Read, Coalesce, NoFault, Fault, TypeInv, TypeOK
<1>3. recovering' \in [Worker -> BOOLEAN]
  BY Zenon DEF Read, Coalesce, TypeInv, TypeOK
<1>4. /\ pc' \in [Worker -> {"loop", "coalesce", "pending", "lock", "load",
                             "activate", "commit", "mark", "ack"}]
      /\ pc'[w] = "loop" => pc[w] = "loop" /\ batch' = batch
      /\ \A v \in Worker : v # w => pc'[v] = pc[v]
  BY DEF Read, Coalesce, Goto, TypeInv, TypeOK
<1>5. PICK S : /\ S \in SUBSET DOMAIN stream
               /\ S = {} \/ Deliver(w, S)
               /\ batch' \in {batch, [batch EXCEPT ![w] = S],
                              [batch EXCEPT ![w] = @ \cup S]}
               /\ count' \in {count, [count EXCEPT ![w] = Cardinality(S)],
                              [count EXCEPT ![w] = @ + Cardinality(S)]}
               /\ Cardinality(S) \in Nat
  <2>1. CASE Read(w)
    <3>1. PICK src \in {Claimable(w), Readable(w)} :
            LET S == FirstOf(src, Batch)
            IN  \/ UNCHANGED <<batch, count>>
                \/ /\ Deliver(w, S)
                   /\ batch' = [batch EXCEPT ![w] = S]
                   /\ count' = [count EXCEPT ![w] = Cardinality(S)]
      BY <2>1 DEF Read
    <3>2. src \in SUBSET DOMAIN stream
      BY Sources
    <3>3. FirstOf(src, Batch) \subseteq src /\ Cardinality(FirstOf(src, Batch)) \in Nat
      BY <1>0, <3>2, FirstOfIsFinite
    <3>4. CASE UNCHANGED <<batch, count>>
      BY <1>00, <3>4
    <3>5. CASE ~UNCHANGED <<batch, count>>
      <4> DEFINE S == FirstOf(src, Batch)
      <4>1. /\ S \in SUBSET DOMAIN stream /\ Cardinality(S) \in Nat
            /\ Deliver(w, S)
            /\ batch' = [batch EXCEPT ![w] = S]
            /\ count' = [count EXCEPT ![w] = Cardinality(S)]
        BY <3>1, <3>2, <3>3, <3>5
      <4> HIDE DEF S
      <4> QED BY <4>1
    <3> QED BY <3>4, <3>5
  <2>2. CASE Coalesce(w)
    <3>1. PICK n :
            LET S == FirstOf(Readable(w), n)
            IN  \/ UNCHANGED <<batch, count>>
                \/ /\ Deliver(w, S)
                   /\ batch' = [batch EXCEPT ![w] = @ \cup S]
                   /\ count' = [count EXCEPT ![w] = @ + Cardinality(S)]
      BY <2>2 DEF Coalesce
    <3>2. Readable(w) \in SUBSET DOMAIN stream
      BY Sources
    <3>3. FirstOf(Readable(w), n) \subseteq Readable(w)
          /\ Cardinality(FirstOf(Readable(w), n)) \in Nat
      BY <1>0, <3>2, FirstOfIsFinite
    <3>4. CASE UNCHANGED <<batch, count>>
      BY <1>00, <3>4
    <3>5. CASE ~UNCHANGED <<batch, count>>
      <4> DEFINE S == FirstOf(Readable(w), n)
      <4>1. /\ S \in SUBSET DOMAIN stream /\ Cardinality(S) \in Nat
            /\ Deliver(w, S)
            /\ batch' = [batch EXCEPT ![w] = @ \cup S]
            /\ count' = [count EXCEPT ![w] = @ + Cardinality(S)]
        BY <3>1, <3>2, <3>3, <3>5
      <4> HIDE DEF S
      <4> QED BY <4>1
    <3> QED BY <3>4, <3>5
  <2> QED BY <2>1, <2>2
<1>6. S \subseteq Nat
  BY <1>0, <1>5
<1>7. /\ batch' \in [Worker -> SUBSET Nat] /\ count' \in [Worker -> Nat]
      /\ \A v \in Worker : batch'[v] \subseteq batch[v] \cup S
      /\ \A v \in Worker : v # w => batch'[v] = batch[v]
  <2>1. batch \in [Worker -> SUBSET Nat] /\ count \in [Worker -> Nat]
    BY DEF TypeInv, TypeOK
  <2>2. count' \in [Worker -> Nat]
    BY <1>5, <2>1
  <2>3. batch' \in [Worker -> SUBSET Nat]
    BY <1>5, <1>6, <2>1
  <2>4. \A v \in Worker : batch'[v] \subseteq batch[v] \cup S
    BY <1>5, <2>1
  <2>5. \A v \in Worker : v # w => batch'[v] = batch[v]
    BY <1>5, <2>1
  <2> QED BY <2>2, <2>3, <2>4, <2>5
<1>8. \A v \in Worker : pc'[v] = "loop" => batch'[v] = {}
  BY <1>4, <1>7 DEF TypeInv, TypeOK
<1>9. \A v \in Worker : /\ batch'[v] \subseteq DOMAIN stream' \ Unread'
                        /\ pc'[v] = "loop" => batch'[v] = {}
  BY <1>0, <1>5, <1>7, <1>8, TypeBatch
<1>10. stream' \in Seq(Entry)
  BY <1>0, TypeGivesTypes, KeptStep DEF Kept
<1> QED BY <1>1, <1>2, <1>3, <1>4, <1>7, <1>9, <1>10 DEF TypeInv, TypeOK

LEMMA TypeHandling ==
  ASSUME TypeInv, NEW w \in Worker,
         \/ Pending(w) \/ Lock(w) \/ Load(w) \/ Activate(w) \/ Commit(w)
         \/ NoSession(w) \/ Mark(w) \/ Ack(w) \/ Fail(w) \/ Restart(w)
  PROVE  TypeInv'
<1>0. [Next]_vars /\ stream \in Seq(Entry)
  BY DEF Next, Step, TypeInv, TypeOK
<1>1. UNCHANGED <<db, outbox, lost>> /\ active' \in Nat /\ snap' \in [Worker -> Nat]
  BY DEF Pending, Lock, Load, Activate, Commit, NoSession, Mark, Ack, Fail,
         Restart, Recover, busVars, TypeInv, TypeOK
<1>2. receipts' \subseteq 1 .. MaxChanges
  <2>1. receipts' = receipts \/ receipts' = receipts \cup Changes(batch[w])
    BY DEF Pending, Lock, Load, Activate, Commit, NoSession, Mark, Ack, Fail,
           Restart, busVars
  <2>2. Changes(batch[w]) \subseteq 1 .. MaxChanges
    BY <1>0, ChangeType DEF Changes, TypeInv, TypeOK
  <2> QED BY <2>1, <2>2 DEF TypeInv, TypeOK
<1>3. lock' \in Worker \cup {None} /\ faults' \in Nat
  BY SMTT(40) DEF Pending, Lock, Load, Activate, Commit, NoSession, Mark, Ack, Fail,
         Restart, NoFault, Fault, TypeInv, TypeOK
<1>4. recovering' \in [Worker -> BOOLEAN]
  BY Zenon DEF Pending, Lock, Load, Activate, Commit, NoSession, Mark, Ack,
     Fail,
         Restart, Recover, TypeInv, TypeOK
<1>5. /\ pc' \in [Worker -> {"loop", "coalesce", "pending", "lock", "load",
                             "activate", "commit", "mark", "ack"}]
      /\ batch' \in {batch, [batch EXCEPT ![w] = {}]}
      /\ count' \in {count, [count EXCEPT ![w] = 0]}
      /\ pc'[w] = "loop" => batch' = [batch EXCEPT ![w] = {}]
      /\ \A v \in Worker : v # w => pc'[v] = pc[v]
  BY DEF Pending, Lock, Load, Activate, Commit, NoSession, Mark, Ack, Fail,
         Restart, Recover, Goto, TypeInv, TypeOK
<1>6. /\ batch' \in [Worker -> SUBSET Nat] /\ count' \in [Worker -> Nat]
      /\ \A v \in Worker : batch'[v] \subseteq batch[v] \cup {}
      /\ \A v \in Worker : pc'[v] = "loop" => batch'[v] = {}
  <2>1. batch \in [Worker -> SUBSET Nat] /\ count \in [Worker -> Nat]
    BY DEF TypeInv, TypeOK
  <2>2. count' \in [Worker -> Nat]
    BY <1>5, <2>1
  <2>3. /\ batch' \in [Worker -> SUBSET Nat]
        /\ \A v \in Worker : batch'[v] = batch[v] \/ batch'[v] = {}
    BY <1>5, <2>1
  <2>4. \A v \in Worker : pc'[v] = "loop" => batch'[v] = {}
    BY <1>5, <2>1, <2>3 DEF TypeInv, TypeOK
  <2> QED BY <2>2, <2>3, <2>4
<1>7. \A v \in Worker : /\ batch'[v] \subseteq DOMAIN stream' \ Unread'
                        /\ pc'[v] = "loop" => batch'[v] = {}
  BY <1>0, <1>6, TypeBatch
<1>8. stream' \in Seq(Entry)
  BY <1>0, TypeGivesTypes, KeptStep DEF Kept
<1> QED BY <1>1, <1>2, <1>3, <1>4, <1>5, <1>6, <1>7, <1>8 DEF TypeInv, TypeOK

LEMMA TypeAlways == Spec => []TypeInv
<1>1. Init => TypeInv
  BY DEF Init, TypeInv, TypeOK, Entry
<1>2. TypeInv /\ [Next]_vars => TypeInv'
  BY TypeProducer, TypeRead, TypeHandling DEF Next, Step
<1> QED BY <1>1, <1>2, PTL DEF Spec

----------------------------------------------------------------------------
(* NothingForgotten for every change that has no receipt: it is in the      *)
(* outbox or in the stream, since a worker only deletes entries of changes  *)
(* it has written the receipts of.                                          *)
Waiting(c) == \/ c \in outbox
              \/ \E i \in DOMAIN stream : stream[i].change = c
                                          /\ stream[i].state # "gone"

OnItsWay ==
  /\ \A c \in (1 .. db) \ receipts : Waiting(c)
  /\ \A w \in Worker : pc[w] = "ack" => Changes(batch[w]) \subseteq receipts

LEMMA WaysAck ==
  ASSUME TypeInv, OnItsWay, NEW w \in Worker, Ack(w)
  PROVE  OnItsWay'
<1>0. \A i \in DOMAIN stream : stream[i] \in Entry
  BY DEF TypeInv, TypeOK
<1>1. UNCHANGED <<db, outbox, receipts>> /\ Changes(batch[w]) \subseteq receipts
  BY DEF Ack, OnItsWay
<1>2. ASSUME NEW c \in (1 .. db) \ receipts, NEW i \in DOMAIN stream,
             stream[i].change = c, stream[i].state # "gone"
      PROVE  i \in DOMAIN stream' /\ stream'[i] = stream[i]
  BY <1>1, <1>2 DEF Ack, Changes
<1>3. \A c \in (1 .. db) \ receipts : Waiting(c)'
  BY <1>1, <1>2 DEF Waiting, OnItsWay
<1>4. Kept
  BY TypeGivesTypes, KeptStep DEF Next, Step
<1>5. \A v \in Worker : pc'[v] = "ack" => v # w /\ pc[v] = "ack" /\ batch'[v] = batch[v]
  BY DEF Ack, Goto, TypeInv, TypeOK
<1>6. ASSUME NEW v \in Worker, pc'[v] = "ack" PROVE Changes(batch[v])' \subseteq receipts
  <2>1. batch'[v] = batch[v] /\ Changes(batch[v]) \subseteq receipts
    BY <1>5, <1>6 DEF OnItsWay
  <2>2. \A i \in batch[v] : stream'[i].change = stream[i].change
    BY <1>4 DEF Kept, TypeInv, TypeOK
  <2> QED BY <2>1, <2>2 DEF Changes
<1> QED BY <1>1, <1>3, <1>5, <1>6 DEF OnItsWay

\* The other steps delete no entry.
LEMMA WaysKept ==
  ASSUME TypeInv, [Next]_vars, \A w \in Worker : ~Ack(w), NEW i \in DOMAIN stream,
         stream[i].state # "gone"
  PROVE  stream'[i].state # "gone"
<1>0. stream \in Seq(Entry) /\ stream[i] \in Entry
  BY DEF TypeInv, TypeOK
<1>1. ASSUME NEW c \in outbox, Publish(c) PROVE stream'[i] = stream[i]
  BY <1>0, <1>1 DEF Publish
<1>2. ASSUME NEW j \in DOMAIN stream, Age(j) PROVE stream'[i].state = stream[i].state
  BY <1>0, <1>2 DEF Age, Entry
<1>3. ASSUME NEW w \in Worker, Read(w) \/ Coalesce(w) PROVE stream'[i].state # "gone"
  <2>1. UNCHANGED stream \/ \E S : Deliver(w, S)
    BY <1>3 DEF Read, Coalesce
  <2>2. ASSUME NEW S, Deliver(w, S) PROVE stream'[i].state # "gone"
    BY <1>0, <2>2 DEF Deliver, Entry
  <2> QED BY <2>1, <2>2
<1>4. ASSUME NEW w \in Worker, Restart(w) PROVE stream'[i].state = stream[i].state
  BY <1>0, <1>4 DEF Restart, Entry
<1>5. ASSUME NEW w \in Worker,
             \/ Pending(w) \/ Lock(w) \/ Load(w) \/ Activate(w) \/ Commit(w)
             \/ NoSession(w) \/ Mark(w) \/ Fail(w) \/ LoseSession(w)
      PROVE UNCHANGED stream
  BY <1>5 DEF Pending, Lock, Load, Activate, Commit, NoSession, Mark, Fail,
              LoseSession, busVars
<1>6. CASE Change \/ UNCHANGED vars
  BY <1>6 DEF Change, vars, busVars
<1> QED BY <1>1, <1>2, <1>3, <1>4, <1>5, <1>6 DEF Next, Step

LEMMA WaysStep ==
  ASSUME TypeInv, OnItsWay, [Next]_vars, \A w \in Worker : ~Ack(w)
  PROVE  OnItsWay'
<1>1. Kept
  BY TypeGivesTypes, KeptStep
<1>2. /\ receipts \subseteq receipts'
      /\ db' = db \/ (Change /\ db' = db + 1)
  BY DEF Next, Step, Change, Publish, Age, Read, Coalesce, Pending, Lock, Load,
         Activate, Commit, NoSession, Mark, Fail, LoseSession, Restart, vars, busVars
<1>3. \A c \in outbox : Waiting(c)'
  <2> SUFFICES ASSUME NEW c \in outbox PROVE Waiting(c)'
    OBVIOUS
  <2>1. CASE c \in outbox'
    BY <2>1 DEF Waiting
  <2>2. CASE c \notin outbox'
    <3>1. Publish(c)
      BY <2>2 DEF Next, Step, Change, Publish, Age, Read, Coalesce, Pending,
         Lock,
             Load, Activate, Commit, NoSession, Mark, Fail, LoseSession, Restart,
             vars, busVars
    <3> DEFINE e == [change |-> c, state |-> "unread", owner |-> None,
                     stale |-> FALSE]
    <3>2. stream' = Append(stream, e) /\ stream \in Seq(Entry)
      BY <3>1 DEF Publish, TypeInv, TypeOK
    <3>3. Len(stream) + 1 \in DOMAIN stream' /\ stream'[Len(stream) + 1] = e
      BY <3>2
    <3>4. e.change = c /\ e.state # "gone"
      OBVIOUS
    <3> HIDE DEF e
    <3> QED BY <3>3, <3>4 DEF Waiting
  <2> QED BY <2>1, <2>2
<1>4. ASSUME NEW c \in (1 .. db) \ receipts PROVE Waiting(c)'
  <2>1. ASSUME NEW i \in DOMAIN stream, stream[i].change = c, stream[i].state # "gone"
        PROVE  Waiting(c)'
    BY <1>1, <2>1, WaysKept DEF Waiting, Kept
  <2> QED BY <1>3, <2>1 DEF OnItsWay, Waiting
<1>5. ASSUME Change, NEW c, c = db + 1 PROVE Waiting(c)'
  BY <1>5 DEF Change, Waiting
<1>6. ASSUME NEW c \in (1 .. db') \ receipts' PROVE Waiting(c)'
  <2>1. c \in 1 .. db \/ (Change /\ c = db + 1)
    BY <1>2 DEF TypeInv, TypeOK
  <2> QED BY <1>2, <1>4, <1>5, <2>1
<1>7. ASSUME NEW v \in Worker, pc'[v] = "ack" PROVE Changes(batch[v])' \subseteq receipts'
  <2>1. CASE Mark(v)
    <3>1. batch' = batch /\ stream' = stream /\ receipts' = receipts \cup Changes(batch[v])
      BY <1>7, <2>1 DEF Mark, Recover, Goto, TypeInv, TypeOK
    <3> QED BY <3>1 DEF Changes
  <2>2. CASE ~Mark(v)
    <3>1. pc[v] = "ack" /\ batch'[v] = batch[v]
      <4>1. ASSUME NEW w \in Worker, Read(w) \/ Coalesce(w)
            PROVE  pc[v] = "ack" /\ batch'[v] = batch[v]
        BY <1>7, <4>1 DEF Read, Coalesce, Goto, TypeInv, TypeOK
      <4>2. ASSUME NEW w \in Worker,
                   \/ Pending(w) \/ Lock(w) \/ Load(w) \/ Activate(w) \/ Commit(w)
                   \/ NoSession(w) \/ Fail(w) \/ Restart(w) \/ (Mark(w) /\ w # v)
            PROVE  pc[v] = "ack" /\ batch'[v] = batch[v]
        BY <1>7, <4>2 DEF Pending, Lock, Load, Activate, Commit, NoSession,
           Mark, Fail,
             Restart, Recover, Goto, TypeInv, TypeOK
      <4>3. CASE UNCHANGED <<pc, batch>>
        BY <1>7, <4>3
      <4> QED BY <2>2, <4>1, <4>2, <4>3 DEF Next, Step, Change, Publish, Age,
                LoseSession, vars, loopVars
    <3>2. \A i \in batch[v] : stream'[i].change = stream[i].change
      BY <1>1 DEF Kept, TypeInv, TypeOK
    <3>3. Changes(batch[v]) \subseteq receipts
      BY <3>1 DEF OnItsWay
    <3> QED BY <1>2, <3>1, <3>2, <3>3 DEF Changes
  <2> QED BY <2>1, <2>2
<1> QED BY <1>6, <1>7 DEF OnItsWay

(* What the run checks: receipts stand for active changes, and a change     *)
(* that is not active yet is in the outbox or in the stream, whatever fails *)
(* or dies, as long as no session of PostgreSQL was lost.                   *)
THEOREM ReconcilerIsSafe == Spec => []ReconcilerSafety
<1>1. Init => OnItsWay
  BY DEF Init, OnItsWay
<1>2. TypeInv /\ OnItsWay /\ [Next]_vars => OnItsWay'
  BY WaysAck, WaysStep
<1>3. TypeInv /\ OnItsWay /\ ReceiptMeansApplied => ReconcilerSafety
  <2> SUFFICES ASSUME TypeInv, OnItsWay, ReceiptMeansApplied, lost = 0, active < db
               PROVE  NothingForgotten
    BY DEF TypeInv, ReconcilerSafety, NothingForgotten
  <2>1. db \in (active + 1) .. db /\ db \in 1 .. db /\ db \notin receipts
    BY DEF TypeInv, TypeOK, ReceiptMeansApplied
  <2> QED BY <2>1 DEF OnItsWay, Waiting, NothingForgotten
<1> QED BY <1>1, <1>2, <1>3, TypeAlways, ReceiptsAreApplied, PTL DEF Spec
=============================================================================
