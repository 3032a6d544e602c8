------------------------------ MODULE Delivery ------------------------------
(***************************************************************************)
(* Delivery of device events to the webhooks and MQTT brokers of open      *)
(* access.  The loops of all service workers share a consumer group of the *)
(* event stream.  A loop splits its batch by device, delivers the devices  *)
(* side by side and the events of a device one after the other, and posts  *)
(* an event to all targets at the same time.  A post to a webhook that     *)
(* fails is recorded and done with; one to a broker blocks the device in   *)
(* this batch, and the loop takes its own entries again until they are     *)
(* gone.  That a loop is a minute late is one of the bounded faults.       *)
(***************************************************************************)
EXTENDS Integers, Sequences, FiniteSets, SequencesExt

CONSTANTS
  DeviceOf,         \* the device of each event; events are numbered as published
  Target, Mqtt,     \* targets of the events, and the brokers among them
  Deliverer,        \* service workers
  MaxDeliveryFaults \* bound on failures

Events == DOMAIN DeviceOf
Gone == "gone"     \* holds what workers that died had
Holder == Deliverer \cup {Gone}

ASSUME DeliveryConstants ==
  /\ Events \subseteq Nat /\ Mqtt \subseteq Target /\ Gone \notin Deliverer
  /\ MaxDeliveryFaults \in Nat

VARIABLES
  fresh,     \* events that have not been published yet
  queue,     \* events in the stream
  held,      \* the pending list of each worker
  work,      \* the batch of each worker
  progress,  \* the targets an event is done with, a hash in Redis
  arrived,   \* for each target, events in the order of their first arrival
  posts,     \* how often an event arrived at a target
  doubt,     \* posts that may have to be repeated
  split,     \* devices whose events two workers had at the same time
  dfaults

deliveryVars ==
  <<fresh, queue, held, work, progress, arrived, posts, doubt, split, dfaults>>

Untried == [t \in Target |-> "none"]
Job(batch, done, stuck, tries) ==
  [batch |-> batch, done |-> done, stuck |-> stuck, tries |-> tries]
Begun(S) == Job(S, {}, {}, [e \in Events |-> Untried])
NoBatch == Begun({})

InitDelivery ==
  /\ fresh = Events /\ queue = {}
  /\ held = [h \in Holder |-> {}]
  /\ work = [w \in Deliverer |-> NoBatch]
  /\ progress = [e \in Events |-> {}]
  /\ arrived = [t \in Target |-> <<>>]
  /\ posts = [e \in Events |-> [t \in Target |-> 0]]
  /\ doubt = {} /\ split = {} /\ dfaults = 0

PublishEvent ==
  /\ fresh # {}
  /\ LET e == CHOOSE x \in fresh : \A y \in fresh : x <= y
     IN fresh' = fresh \ {e} /\ queue' = queue \cup {e}
  /\ UNCHANGED <<held, work, progress, arrived, posts, doubt, split, dfaults>>

OneMoreFault == dfaults < MaxDeliveryFaults /\ dfaults' = dfaults + 1
NoNewFault == UNCHANGED dfaults

----------------------------------------------------------------------------
(* Reading                                                                 *)

Busy(w) == work[w].batch # {}
NewEvents == queue \ UNION {held[h] : h \in Holder}
DevicesOf(S) == {DeviceOf[e] : e \in S}

\* Entries S go to worker w, which starts a batch of all it holds.
TakeBatch(w, S) ==
  /\ ~Busy(w) /\ S # {}
  /\ held' = [h \in Holder |-> IF h = w THEN held[w] \cup S ELSE held[h] \ S]
  /\ work' = [work EXCEPT ![w] = Begun(S)]
  /\ split' = split \cup (DevicesOf(S) \cap DevicesOf(
       UNION ({held'[h] : h \in Holder \ {w}} \cup {work[v].batch : v \in Deliverer \ {w}})))
  /\ UNCHANGED <<fresh, queue, progress, arrived, posts>>

BugReadsOnlyNew(w) == FALSE

\* What failed is read again before anything new.
TakeOwn(w) == TakeBatch(w, held[w]) /\ UNCHANGED doubt /\ NoNewFault
TakeNew(w) == held[w] = {} /\ TakeBatch(w, NewEvents) /\ UNCHANGED doubt /\ NoNewFault
TakeOver(w) ==
  held[w] = {} /\ TakeBatch(w, held[Gone]) /\ UNCHANGED doubt /\ NoNewFault

\* From a loop that is still working on them.
TakeFromSlow(w) ==
  /\ held[w] = {} /\ OneMoreFault
  /\ \E v \in Deliverer \ {w} :
       /\ TakeBatch(w, held[v])
       /\ doubt' = doubt \cup (held[v] \X Target)

----------------------------------------------------------------------------
(* Delivering                                                              *)

BugSkipsBlocked(w, e) ==
  e \in work[w].batch \ work[w].done /\ DeviceOf[e] \notin work[w].stuck

\* The event is the first of its device that is left of the batch.
IsNext(w, e) ==
  /\ e \in work[w].batch \ work[w].done
  /\ DeviceOf[e] \notin work[w].stuck
  /\ \A f \in work[w].batch \ work[w].done : DeviceOf[f] = DeviceOf[e] => e <= f

BugForgetsProgress(e) == Target

\* completedTargets: what an earlier attempt has done is not repeated.
TargetsLeft(e) == Target \ progress[e]

\* The state of the attempts at an event.
SetTries(w, e, tries) ==
  work' = [work EXCEPT ![w] =
             Job(@.batch, @.done, @.stuck, [@.tries EXCEPT ![e] = tries])]
SetTry(w, e, t, state) == SetTries(w, e, [work[w].tries[e] EXCEPT ![t] = state])

StartEvent(w, e) ==
  /\ IsNext(w, e) /\ work[w].tries[e] = Untried
  /\ SetTries(w, e, [t \in Target |-> IF t \in TargetsLeft(e) THEN "post" ELSE "sent"])
  /\ UNCHANGED <<fresh, queue, held, progress, arrived, posts, doubt, split, dfaults>>

Arrive(e, t) ==
  /\ posts' = [posts EXCEPT ![e][t] = @ + 1]
  /\ arrived' = [arrived EXCEPT ![t] = IF Contains(@, e) THEN @ ELSE Append(@, e)]

Post(w, e, t) ==
  /\ work[w].tries[e][t] = "post"
  /\ \/ Arrive(e, t) /\ NoNewFault /\ UNCHANGED doubt
        /\ SetTry(w, e, t, "good")
     \/ OneMoreFault /\ (Arrive(e, t) \/ UNCHANGED <<arrived, posts>>)
        /\ doubt' = doubt \cup {<<e, t>>}
        /\ SetTry(w, e, t, "bad")
  /\ UNCHANGED <<fresh, queue, held, progress, split>>

Settled(w, e, t) == work[w].tries[e][t] = "good" \/ t \notin Mqtt

\* enqueueResult, or its failure: then the target counts as failed, and what it
\* got may be posted again.
RecordResult(w, e, t) ==
  /\ work[w].tries[e][t] \in {"good", "bad"}
  /\ \/ /\ progress' = [progress EXCEPT ![e] =
                          IF Settled(w, e, t) THEN @ \cup {t} ELSE @]
        /\ SetTry(w, e, t, IF Settled(w, e, t) THEN "sent" ELSE "failed")
        /\ NoNewFault /\ UNCHANGED doubt
     \/ /\ OneMoreFault /\ UNCHANGED progress
        /\ doubt' = doubt \cup {<<e, t>>}
        /\ SetTry(w, e, t, "failed")
  /\ UNCHANGED <<fresh, queue, held, arrived, posts, split>>

Delivered(w, e) == \A t \in Target : work[w].tries[e][t] = "sent"

EndEvent(w, e) ==
  /\ \A t \in Target : work[w].tries[e][t] \in {"sent", "failed"}
  /\ e \in work[w].batch \ work[w].done
  /\ LET over == [work[w].tries EXCEPT ![e] = Untried]
     IN work' = [work EXCEPT ![w] = IF Delivered(w, e)
          THEN Job(@.batch, @.done \cup {e}, @.stuck, over)
          ELSE Job(@.batch, @.done, @.stuck \cup {DeviceOf[e]}, over)]
  /\ UNCHANGED <<fresh, queue, held, progress, arrived, posts, doubt, split, dfaults>>

\* The events that were delivered are acknowledged and deleted.
Forget(S) ==
  /\ queue' = queue \ S
  /\ held' = [h \in Holder |-> held[h] \ S]

BatchOver(w) ==
  /\ Busy(w) /\ work[w].tries = NoBatch.tries
  /\ \A e \in work[w].batch \ work[w].done : DeviceOf[e] \in work[w].stuck

EndBatch(w) ==
  /\ BatchOver(w)
  /\ Forget(work[w].done)
  /\ work' = [work EXCEPT ![w] = NoBatch]
  /\ UNCHANGED <<fresh, progress, arrived, posts, doubt, split, dfaults>>

\* The acknowledgement fails.
FailEnd(w) ==
  /\ BatchOver(w) /\ OneMoreFault
  /\ work' = [work EXCEPT ![w] = NoBatch]
  /\ UNCHANGED <<fresh, queue, held, progress, arrived, posts, doubt, split>>

\* A worker dies; posts that were under way may have arrived.
CrashDeliverer(w) ==
  /\ OneMoreFault
  /\ work' = [work EXCEPT ![w] = NoBatch]
  /\ held' = [held EXCEPT ![w] = {}, ![Gone] = @ \cup held[w]]
  /\ doubt' = doubt \cup {p \in work[w].batch \X Target :
                            work[w].tries[p[1]][p[2]] \in {"post", "good", "bad"}}
  /\ UNCHANGED <<fresh, queue, progress, arrived, posts, split>>

----------------------------------------------------------------------------
DeliveryStep(w) ==
  \/ TakeOwn(w) \/ TakeNew(w) \/ TakeOver(w) \/ EndBatch(w)
  \/ \E e \in Events :
       StartEvent(w, e) \/ EndEvent(w, e) \/ \E t \in Target : Post(w, e, t) \/ RecordResult(w, e, t)

NextDelivery ==
  \/ PublishEvent
  \/ \E w \in Deliverer :
       DeliveryStep(w) \/ TakeFromSlow(w) \/ FailEnd(w) \/ CrashDeliverer(w)

FairDelivery == \A w \in Deliverer : WF_deliveryVars(DeliveryStep(w))

SpecDelivery == InitDelivery /\ [][NextDelivery]_deliveryVars
FairSpecDelivery == SpecDelivery /\ FairDelivery

----------------------------------------------------------------------------
(* Properties                                                              *)

DeliveryTypeOK ==
  /\ fresh \subseteq Events /\ queue \subseteq Events
  /\ held \in [Holder -> SUBSET Events]
  /\ work \in [Deliverer ->
       [batch : SUBSET Events, done : SUBSET Events, stuck : SUBSET DevicesOf(Events),
        tries : [Events -> [Target -> {"none", "post", "good", "bad", "sent", "failed"}]]]]
  /\ \A w \in Deliverer : work[w].done \subseteq work[w].batch
  /\ progress \in [Events -> SUBSET Target]
  /\ doubt \subseteq Events \X Target /\ split \subseteq DevicesOf(Events)
  /\ dfaults \in 0 .. MaxDeliveryFaults

\* Every broker has acknowledged the event and every webhook has been tried.
Served(e) == progress[e] = Target /\ \A t \in Mqtt : posts[e][t] > 0

\* An event leaves the stream only when it has been delivered.
GoneMeansDelivered == \A e \in Events \ (fresh \cup queue) : Served(e)

\* A target that has answered does not get the event again, whatever happens at
\* the other targets of the event.
PostedOnce ==
  \A e \in Events, t \in Target : <<e, t>> \notin doubt => posts[e][t] <= 1

\* Events of a device arrive in their order, as long as one worker has them: an
\* event that failed holds back those behind it.  (Two workers that read events
\* of one device deliver them in any order.)
ArriveInOrder ==
  \A t \in Target : \A i, j \in DOMAIN arrived[t] :
    LET e == arrived[t][i]  f == arrived[t][j]
    IN i < j /\ DeviceOf[e] = DeviceOf[f] /\ DeviceOf[e] \notin split => e < f

\* Every event is delivered in the end, when workers die and targets recover, and
\* leaves the stream only then.
EveryEventIsDelivered ==
  \A e \in Events : e \in queue ~> (e \notin queue /\ Served(e))

\* The batches are consistent, nothing is lost on the way, no target that has
\* answered is asked again, and the events of a device keep their order.
DeliverySafety == /\ DeliveryTypeOK /\ GoneMeansDelivered /\ PostedOnce
                  /\ ArriveInOrder
=============================================================================
