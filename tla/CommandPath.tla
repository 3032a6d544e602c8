---------------------------- MODULE CommandPath ----------------------------
(***************************************************************************)
(* A device command from the HTTP request to the device and back: the      *)
(* service side (Command) and the collector worker (Collector) with the    *)
(* stream and the results they share.                                      *)
(***************************************************************************)
EXTENDS Naturals, Sequences, FiniteSets

CONSTANTS Command, MaxSession, MaxQueue, MaxFaults

ASSUME PathConstants ==
  {MaxSession, MaxQueue, MaxFaults} \subseteq Nat /\ "none" \notin Command

VARIABLES
  status, session, claimed, dispatch, overdue,
  entry, lost, results, faults,
  live, opened, sent, answered, ingress, reserved, egress, delivered, known,
  batch, current, pending, awaiting, failing, ready, writing, written,
  recovering, egressRecovering, unacked

Service == INSTANCE Command
Worker  == INSTANCE Collector

serviceVars == <<status, session, claimed, dispatch, overdue>>

workerVars ==
  <<live, opened, sent, answered, ingress, reserved, egress, delivered, known,
    batch, current, pending, awaiting, failing, ready, writing, written,
    recovering, egressRecovering, unacked>>

vars == <<serviceVars, entry, lost, results, faults, workerVars>>

Init == Service!ServiceInit /\ Service!LinkInit /\ Worker!CollectorInit

\* A command is prepared for a session on which its device was registered,
\* which may have ended since.
Registered(s) ==
  \A i \in 1 .. Len(ingress) : ingress[i].kind = "up" => ingress[i].session # s

Submit(c) ==
  /\ \E s \in 1 .. opened : Registered(s) /\ Service!Submit(c, s)
  /\ UNCHANGED workerVars

ServiceStep(c) == Service!ServiceStep(c) /\ UNCHANGED workerVars

WorkerStep ==
  Worker!CollectorStep /\ UNCHANGED serviceVars

\* Service Workers and collectors live in one process: what was claimed and
\* not yet enqueued or recorded is forgotten with it.
Crash ==
  /\ Worker!Crash
  /\ dispatch' = [c \in Command |-> "none"]
  /\ UNCHANGED <<status, session, claimed, overdue>>

Next == (\E c \in Command : Submit(c) \/ ServiceStep(c)) \/ WorkerStep \/ Crash

\* Deadlines pass, and every Service Worker expires overdue operations in
\* each turn of its loop.
Fairness ==
  \A c \in Command :
    /\ WF_vars(Service!Deadline(c) /\ UNCHANGED workerVars)
    /\ WF_vars(Service!Expire(c) /\ UNCHANGED workerVars)

Spec == Init /\ [][Next]_vars
FairSpec == Spec /\ Fairness

----------------------------------------------------------------------------

TypeOK == Service!ServiceTypeOK /\ Worker!CollectorTypeOK

\* The device speaks for itself: an operation is SUCCEEDED or FAILED only if
\* that is what the device has answered to it, whatever was lost, timed out,
\* expired or was recovered on the way (collectorResultState, NextStatus).
OutcomeIsReal ==
  \A c \in Command :
    status[c] \in {"SUCCEEDED", "FAILED"} => answered[c] = status[c]

\* An operation is REJECTED only if it never reached the device: the claim is
\* committed before the queue is touched, the session epoch and the deadline
\* are checked before the packet is made.
RejectedNeverWritten ==
  \A c \in Command : status[c] = "REJECTED" => sent[c] = 0

\* So it is, as long as no command of Redis fails and no process dies, whatever
\* expires, disconnects and answers at the same time.
RejectionsAreHonest == faults = 0 => RejectedNeverWritten

\* A command is written to a socket once, and once more only for a packet whose
\* acknowledgement has failed (reserveTransmission, completeEgress).
RewritesAreFaults == \A c \in Command : sent[c] <= 1 + unacked

\* As long as Redis does not fail, a command the worker still works on owns its
\* stream entry, without which its result could not be published
\* (publishAllAndAcknowledge).
PendingCanReport ==
  faults = 0 => \A c \in pending : entry[c] = "pending"

\* An outcome is final; only UNKNOWN may still turn into a success (the expiry,
\* the dispatcher and late results race for the same row).
SettledForGood ==
  [][\A c \in Command :
       status[c] \in Service!Terminal
         => \/ status'[c] = status[c]
            \/ status[c] = "UNKNOWN" /\ status'[c] = "SUCCEEDED"]_vars

\* Every accepted operation gets an outcome, also when its dispatcher, its
\* collector or its result is lost.
EveryCommandSettles ==
  \A c \in Command : status[c] = "ACCEPTED" ~> status[c] \in Service!Terminal

\* The collector accounts for every command it has taken: it keeps its entry
\* until the result is out, and writes it again only after a failure; without
\* failures nothing that was written is reported as rejected.
CommandSafety ==
  TypeOK /\ RewritesAreFaults /\ PendingCanReport /\ RejectionsAreHonest
=============================================================================
