----------------------------- MODULE Telemetry -----------------------------
(***************************************************************************)
(* From a parsed report to its consumers.  Collectors append reports to    *)
(* the dispatch stream, whose consumers copy each of them, in one Lua      *)
(* script with a receipt, to one stream per consumer: history, latest      *)
(* values, alerts and delivery.  Every service worker runs one loop per    *)
(* stream; the loops of one stream share a consumer group.                 *)
(*                                                                         *)
(* Entries are removed by the loop that has applied them.  A loop that     *)
(* fails finds its entries in its pending list again, those of a worker    *)
(* that died are claimed once they are idle for a minute.  Time is not     *)
(* modelled; that a loop is a minute late is one of the bounded faults.    *)
(***************************************************************************)
EXTENDS Integers, FiniteSets

CONSTANTS
  Report,      \* message ids of reports
  Raw,         \* the reports that carry identifiers of raw packets
  Worker,      \* service workers
  Kind,        \* how the loop of a consumer applies a batch
  MaxSends,    \* bound on the entries collectors append
  MaxFaults    \* bound on failures of loops and workers

Consumer == DOMAIN Kind
Stream == Consumer \cup {"dispatch"}
Dead == "dead"   \* the names of workers that have died

\* History is one transaction; latest and delivery are pipelines, of which
\* a part may have been executed when they fail; alerts go one by one.
ASSUME TelemetryConstants ==
  /\ Raw \subseteq Report
  /\ Consumer \subseteq {"history", "latest", "alerts", "delivery"}
  /\ \A c \in Consumer : Kind[c] \in {"transaction", "pipeline", "single"}
  /\ Dead \notin Worker /\ MaxSends \in Nat /\ MaxFaults \in Nat

VARIABLES
  stream,     \* entries that are in a stream
  pending,    \* of the consumers of a group, delivered entries
  receipt,    \* reports with a receipt of the fan-out
  loop,       \* the batch a loop works on
  applied,    \* reports whose effect a consumer has stored
  copies,     \* how often a report was appended for a consumer
  sends,      \* entries appended by collectors
  sent,       \* reports appended by collectors
  tfaults

telemetryVars ==
  <<stream, pending, receipt, loop, applied, copies, sends, sent, tfaults>>

\* An entry has the number of its report's send, which orders it, and a copy
\* its number among the copies.
Entry == [send : 1 .. MaxSends, msg : Report, copy : Nat]
Batch(todo, done) == [todo |-> todo, done |-> done]
IdleLoop == Batch({}, {})

InitTelemetry ==
  /\ stream = [q \in Stream |-> {}]
  /\ pending = [q \in Stream |-> [w \in Worker \cup {Dead} |-> {}]]
  /\ receipt = {}
  /\ loop = [w \in Worker |-> [q \in Stream |-> IdleLoop]]
  /\ applied = [c \in Consumer |-> {}]
  /\ copies = [c \in Consumer |-> [m \in Report |-> 0]]
  /\ sends = 0 /\ sent = {} /\ tfaults = 0

----------------------------------------------------------------------------
(* Collectors                                                              *)

\* A report is published once, or again under the same identifier: results of
\* one command have the identifier of the command, and an append whose answer
\* was lost is repeated.
SendReport(m) ==
  /\ sends < MaxSends
  /\ sends' = sends + 1
  /\ sent' = sent \cup {m}
  /\ stream' = [stream EXCEPT !["dispatch"] =
                  @ \cup {[send |-> sends + 1, msg |-> m, copy |-> 0]}]
  /\ UNCHANGED <<pending, receipt, loop, applied, copies, tfaults>>

----------------------------------------------------------------------------
(* A loop of the consumers, PersistenceRuntime::run                        *)

Working(w, q) == loop[w][q].todo # {} \/ loop[w][q].done # {}
Own(w, q) == pending[q][w] \cap stream[q]
Fresh(q) == stream[q] \ UNION {pending[q][v] : v \in DOMAIN pending[q]}

\* S goes from the pending list it is in to that of w.
Given(w, q, S) ==
  pending' = [pending EXCEPT ![q] =
    [v \in DOMAIN @ |-> IF v = w THEN Own(w, q) \cup S ELSE @[v] \ S]]

Deliver(w, q, S) ==
  /\ ~Working(w, q) /\ S # {}
  /\ Given(w, q, S)
  /\ loop' = [loop EXCEPT ![w][q] = Batch(S, {})]
  /\ UNCHANGED <<stream, receipt, applied, copies, sends, sent>>

Fault == tfaults < MaxFaults /\ tfaults' = tfaults + 1

\* A loop that recovers, sweeps or finds nothing new takes its own pending
\* entries, and when it has none, those of others that are idle.  It has
\* pending entries outside its batch only when it recovers, so it reads new
\* ones only without.
ReadOwn(w, q) == Deliver(w, q, Own(w, q)) /\ UNCHANGED tfaults
ReadNew(w, q) ==
  Own(w, q) = {} /\ Deliver(w, q, Fresh(q)) /\ UNCHANGED tfaults
ClaimDead(w, q) ==
  /\ Own(w, q) = {}
  /\ Deliver(w, q, pending[q][Dead]) /\ UNCHANGED tfaults
ClaimSlow(w, q) ==
  /\ Own(w, q) = {} /\ Fault
  /\ \E v \in Worker \ {w} : Deliver(w, q, pending[q][v])

\* A batch is applied in the order of the stream.
First(S) ==
  CHOOSE e \in S : \A f \in S : e.send < f.send \/ (e.send = f.send /\ e.copy <= f.copy)

Applying(w, q, S) ==
  loop' = [loop EXCEPT ![w][q] = Batch(@.todo \ S, @.done \cup S)]

BugIgnoresReceipt(m) == Consumer

\* The streams that get a copy: all of them, or the history only when the
\* report has a receipt and its raw packets may be others.
CopiedTo(m) ==
  IF m \notin receipt THEN Consumer
  ELSE IF m \in Raw THEN Consumer \cap {"history"} ELSE {}

Dispatch(w) ==
  /\ loop[w]["dispatch"].todo # {}
  /\ LET e == First(loop[w]["dispatch"].todo)
         targets == CopiedTo(e.msg)
     IN /\ Applying(w, "dispatch", {e})
        /\ stream' = [q \in Stream |-> IF q \in targets
             THEN stream[q] \cup {[e EXCEPT !.copy = copies[q][e.msg] + 1]}
             ELSE stream[q]]
        /\ copies' = [c \in Consumer |-> IF c \in targets
             THEN [copies[c] EXCEPT ![e.msg] = @ + 1] ELSE copies[c]]
        /\ receipt' = receipt \cup {e.msg}
  /\ UNCHANGED <<pending, applied, sends, sent, tfaults>>

Portion(w, c) ==
  LET todo == loop[w][c].todo
  IN CASE Kind[c] = "transaction" -> {todo}
       [] Kind[c] = "pipeline"    -> {{First(todo)}}
       [] Kind[c] = "single"      -> IF loop[w][c].done = {}
                                     THEN {{First(todo)}} ELSE {}

Consume(w, c) ==
  /\ loop[w][c].todo # {}
  /\ \E S \in Portion(w, c) :
       /\ Applying(w, c, S)
       /\ applied' = [applied EXCEPT ![c] = @ \cup {e.msg : e \in S}]
  /\ UNCHANGED <<stream, pending, receipt, copies, sends, sent, tfaults>>

BugRemovesDelivered(w, q) == Working(w, q)

\* Entries are removed when the whole batch has been applied, alerts one by
\* one.
MayRemove(w, q) ==
  /\ loop[w][q].done # {}
  /\ \/ loop[w][q].todo = {}
     \/ q # "dispatch" /\ Kind[q] = "single"

\* XACK takes an entry from every pending list.
Removed(w, q) ==
  LET gone == loop[w][q].done \cup
                (IF q = "dispatch" \/ Kind[q] # "single"
                 THEN loop[w][q].todo ELSE {})
  IN /\ stream' = [stream EXCEPT ![q] = @ \ gone]
     /\ pending' = [pending EXCEPT ![q] = [v \in DOMAIN @ |-> @[v] \ gone]]

RemoveEntry(w, q) ==
  /\ MayRemove(w, q)
  /\ Removed(w, q)
  /\ loop' = [loop EXCEPT ![w][q] = Batch(@.todo, {})]
  /\ UNCHANGED <<receipt, applied, copies, sends, sent, tfaults>>

----------------------------------------------------------------------------
(* Failures                                                                *)

\* A command or a statement fails, before or after it took effect; what was
\* executed of the batch stays.
FailBatch(w, q) ==
  /\ Working(w, q) /\ Fault
  /\ loop' = [loop EXCEPT ![w][q] = IdleLoop]
  /\ \/ UNCHANGED <<stream, pending>>
     \/ MayRemove(w, q) /\ Removed(w, q)
  /\ UNCHANGED <<receipt, applied, copies, sends, sent>>

\* Redis delivers entries to a read whose answer does not arrive.
FailRead(w, q) ==
  /\ ~Working(w, q) /\ Fault /\ Fresh(q) # {}
  /\ Given(w, q, Fresh(q))
  /\ UNCHANGED <<stream, receipt, loop, applied, copies, sends, sent>>

\* A process dies; the one that takes its place reads under another name.
CrashWorker(w) ==
  /\ Fault
  /\ loop' = [loop EXCEPT ![w] = [q \in Stream |-> IdleLoop]]
  /\ pending' = [q \in Stream |-> [v \in DOMAIN pending[q] |->
       CASE v = w -> {} [] v = Dead -> pending[q][v] \cup Own(w, q)
         [] OTHER -> pending[q][v]]]
  /\ UNCHANGED <<stream, receipt, applied, copies, sends, sent>>

----------------------------------------------------------------------------
Step(w, q) ==
  \/ ReadOwn(w, q) \/ ReadNew(w, q) \/ ClaimDead(w, q) \/ RemoveEntry(w, q)
  \/ IF q = "dispatch" THEN Dispatch(w) ELSE Consume(w, q)

NextTelemetry ==
  \/ \E m \in Report : SendReport(m)
  \/ \E w \in Worker, q \in Stream :
       Step(w, q) \/ ClaimSlow(w, q) \/ FailBatch(w, q) \/ FailRead(w, q)
  \/ \E w \in Worker : CrashWorker(w)

FairTelemetry ==
  \A w \in Worker, q \in Stream : WF_telemetryVars(Step(w, q))

SpecTelemetry == InitTelemetry /\ [][NextTelemetry]_telemetryVars
FairSpecTelemetry == SpecTelemetry /\ FairTelemetry

----------------------------------------------------------------------------
(* Properties                                                              *)

TelemetryTypeOK ==
  /\ stream \in [Stream -> SUBSET Entry]
  /\ pending \in [Stream -> [Worker \cup {Dead} -> SUBSET Entry]]
  /\ receipt \subseteq Report
  /\ loop \in [Worker -> [Stream ->
       [todo : SUBSET Entry, done : SUBSET Entry]]]
  /\ applied \in [Consumer -> SUBSET Report]
  /\ copies \in [Consumer -> [Report -> Nat]]
  /\ sends \in 0 .. MaxSends /\ sent \subseteq Report
  /\ tfaults \in 0 .. MaxFaults

\* However often a report is published, dispatched or redelivered, each
\* consumer gets one copy of it; the history gets one more for every other
\* publication of its raw packets.
OneCopyEach ==
  \A c \in Consumer, m \in Report :
    copies[c][m] <= 1 \/ (c = "history" /\ m \in Raw)

\* The streams are consistent: an entry of a stream is pending for one consumer
\* at most, and gone from every pending list when it is gone.
PendingOnce ==
  \A q \in Stream : \A v \in DOMAIN pending[q] :
    /\ pending[q][v] \subseteq stream[q]
    /\ \A u \in DOMAIN pending[q] \ {v} : pending[q][u] \cap pending[q][v] = {}

\* Besides, every consumer gets one copy of a report.
TelemetrySafety == TelemetryTypeOK /\ PendingOnce /\ OneCopyEach

\* The streams keep the promise of ConsumerPromise: a report is offered to
\* all consumers at once, a loop removes an entry only when its report has
\* been applied, and every consumer applies every published report, whatever
\* loops fail and workers die.
Waiting == [c \in Consumer |-> {e.msg : e \in stream[c]}]
Promise == INSTANCE ConsumerPromise
             WITH offered <- receipt, due <- Waiting, done <- applied
KeepsPromise == Promise!Spec
=============================================================================
