------------------------------ MODULE Command ------------------------------
(***************************************************************************)
(* The service side of a device command.  The HTTP handler stores a        *)
(* command_operation with its command_attempt (the queue of the collector  *)
(* worker that has the device's connection, and a deadline); every Service *)
(* Worker's CommandProcessingRuntime claims accepted operations, appends   *)
(* them to that queue, expires overdue ones, and projects the results that *)
(* collectors publish.                                                     *)
(*                                                                         *)
(* A claim is exclusive (row locks, SKIP LOCKED), so the coroutine that    *)
(* dispatches a command is written as a state of the command.  The results *)
(* stream is read by a group of several workers, in any order.             *)
(***************************************************************************)
EXTENDS Naturals, FiniteSets

CONSTANTS
  Command,      \* the operations; each has a UUID of its own
  MaxSession,   \* bound on the sessions of connections
  MaxQueue,     \* command_attempt.max_length, 10000 for a collector's stream
  MaxFaults     \* bound on failures

Session == 1 .. MaxSession

Open     == {"ACCEPTED", "DISPATCHING", "AWAITING_RESULT"}
Terminal == {"SUCCEEDED", "REJECTED", "UNKNOWN", "FAILED"}

VARIABLES
  status,    \* command_operation.status, "none" before it is inserted
  session,   \* connection and session epoch the attempt was prepared for
  claimed,   \* claimed_at is set
  dispatch,  \* where the coroutine that dispatches the command is
  overdue,   \* operations created 60 s ago or more, by a clock they all share
  entry,     \* the entry of the command in its collector's stream
  lost,      \* sessions up to this one belong to a dead collector
  results,   \* result messages that are not yet acknowledged
  faults

serviceVars == <<status, session, claimed, dispatch, overdue>>
linkVars    == <<entry, lost, results>>

Fault   == faults < MaxFaults /\ faults' = faults + 1
NoFault == UNCHANGED faults

ServiceInit ==
  /\ status = [c \in Command |-> "none"]
  /\ session = [c \in Command |-> 0]
  /\ claimed = [c \in Command |-> FALSE]
  /\ dispatch = [c \in Command |-> "none"]
  /\ overdue = {}

LinkInit ==
  /\ entry = [c \in Command |-> "none"]
  /\ lost = 0
  /\ results = {}
  /\ faults = 0

\* enqueueDevice with the prepared route s, in one transaction.
Submit(c, s) ==
  /\ status[c] = "none"
  /\ status' = [status EXCEPT ![c] = "ACCEPTED"]
  /\ session' = [session EXCEPT ![c] = s]
  /\ UNCHANGED <<claimed, dispatch, overdue, linkVars, faults>>

Deadline(c) ==
  /\ status[c] # "none" /\ c \notin overdue
  /\ overdue' = overdue \cup {c}
  /\ UNCHANGED <<status, session, claimed, dispatch, linkVars, faults>>

----------------------------------------------------------------------------
(* repository::dispatch                                                    *)

Claimable(c) == status[c] = "ACCEPTED" /\ ~claimed[c] /\ c \notin overdue

\* The claim is committed before the queue is touched.  A commit whose answer
\* is lost leaves a claimed operation that nobody dispatches.
Claim(c) ==
  /\ Claimable(c)
  /\ claimed' = [claimed EXCEPT ![c] = TRUE]
  /\ status' = [status EXCEPT ![c] = "DISPATCHING"]
  /\ \/ NoFault /\ dispatch' = [dispatch EXCEPT ![c] = "enqueue"]
     \/ Fault /\ UNCHANGED dispatch
  /\ UNCHANGED <<session, overdue, linkVars>>

\* XLEN of the stream; nobody reads the stream of a dead collector any more.
HasRoom == Cardinality({c \in Command : entry[c] \in {"queued", "pending"}}) < MaxQueue

Push(c) ==
  entry' = [entry EXCEPT ![c] = IF session[c] <= lost THEN "orphan" ELSE "queued"]

\* dispatchPendingBatch: one script checks the depth and appends.
Enqueue(c) ==
  /\ dispatch[c] = "enqueue"
  /\ \/ /\ NoFault /\ HasRoom /\ Push(c)
        /\ dispatch' = [dispatch EXCEPT ![c] = "published"]
     \/ /\ NoFault /\ ~HasRoom /\ UNCHANGED entry
        /\ dispatch' = [dispatch EXCEPT ![c] = "full"]
     \/ /\ Fault
        /\ \/ HasRoom /\ Push(c)
           \/ UNCHANGED entry
        /\ dispatch' = [dispatch EXCEPT ![c] = "failed"]
  /\ UNCHANGED <<status, session, claimed, overdue, lost, results>>

BugFailureIsFailed == [published |-> "AWAITING_RESULT", full |-> "REJECTED",
                       failed |-> "FAILED"]

\* Only a full queue is known not to have taken the command.
NextStatus == [published |-> "AWAITING_RESULT", full |-> "REJECTED",
               failed |-> "UNKNOWN"]

\* A result or the expiry may have come first.
StillDispatching(c) == status[c] = "DISPATCHING"

Record(c) ==
  IF StillDispatching(c)
  THEN status' = [status EXCEPT ![c] = NextStatus[dispatch[c]]]
  ELSE UNCHANGED status

\* The transaction that records the outcome.  When it fails the exception
\* leaves the loop over the claimed rows: the rows that follow, S, stay
\* claimed and are not enqueued by anyone.
RecordOutcome(c) ==
  /\ dispatch[c] \in {"published", "full", "failed"}
  /\ \/ NoFault /\ Record(c) /\ dispatch' = [dispatch EXCEPT ![c] = "none"]
     \/ /\ Fault
        /\ \/ Record(c)
           \/ UNCHANGED status
        /\ \E S \in SUBSET {d \in Command : dispatch[d] = "enqueue"} :
             dispatch' = [d \in Command |->
                            IF d \in S \cup {c} THEN "none" ELSE dispatch[d]]
  /\ UNCHANGED <<session, claimed, overdue, linkVars>>

\* expiredDispatchState: only an unclaimed operation was surely not delivered.
ExpiredState(c) == IF claimed[c] THEN "UNKNOWN" ELSE "REJECTED"

BugForgetsClaimed(c) == c \in overdue /\ status[c] \in Open \ {"DISPATCHING"}
Overdue(c) == c \in overdue /\ status[c] \in Open

Expire(c) ==
  /\ Overdue(c)
  /\ status' = [status EXCEPT ![c] = ExpiredState(c)]
  /\ UNCHANGED <<session, claimed, dispatch, overdue, linkVars, faults>>

----------------------------------------------------------------------------
(* CommandResultService::project                                           *)

BugAcceptsLate(c, v) == status[c] \in {"DISPATCHING", "AWAITING_RESULT", "UNKNOWN"}

\* A late verified success may resolve UNKNOWN; nothing else may.
Accepts(c, v) ==
  \/ status[c] \in {"DISPATCHING", "AWAITING_RESULT"}
  \/ status[c] = "UNKNOWN" /\ v = "SUCCEEDED"

\* The message is acknowledged after the transaction; when that fails the
\* message is claimed and projected again.
Project(c, v) ==
  /\ <<c, v>> \in results
  /\ IF Accepts(c, v) THEN status' = [status EXCEPT ![c] = v] ELSE UNCHANGED status
  /\ \/ NoFault /\ results' = results \ {<<c, v>>}
     \/ Fault /\ UNCHANGED results
  /\ UNCHANGED <<session, claimed, dispatch, overdue, entry, lost>>

ServiceStep(c) ==
  \/ Deadline(c) \/ Claim(c) \/ Enqueue(c) \/ RecordOutcome(c) \/ Expire(c)
  \/ \E v \in Terminal : Project(c, v)

ServiceTypeOK ==
  /\ status \in [Command -> {"none"} \cup Open \cup Terminal]
  /\ session \in [Command -> 0 .. MaxSession]
  /\ claimed \in [Command -> BOOLEAN]
  /\ dispatch \in [Command -> {"none", "enqueue", "published", "full", "failed"}]
  /\ entry \in [Command -> {"none", "queued", "pending", "gone", "orphan"}]
  /\ overdue \subseteq Command
  /\ lost \in 0 .. MaxSession
  /\ results \subseteq Command \X Terminal
  /\ faults \in 0 .. MaxFaults
=============================================================================
