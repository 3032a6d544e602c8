--------------------------- MODULE ConsumerPromise ---------------------------
(***************************************************************************)
(* What the telemetry streams promise the consumers of a report: a report  *)
(* becomes due at all of them together or at none, it stays due at each    *)
(* until that consumer has applied it, and each applies it in the end.     *)
(***************************************************************************)
CONSTANTS Report, Consumer

VARIABLES
  sent,      \* reports the collectors have published
  offered,   \* reports that have been offered to the consumers
  due,       \* for each consumer, reports that wait for it
  done       \* for each consumer, reports it has applied

vars == <<sent, offered, due, done>>

Init ==
  /\ sent = {} /\ offered = {}
  /\ due = [c \in Consumer |-> {}] /\ done = [c \in Consumer |-> {}]

Send(m) == sent' = sent \cup {m} /\ UNCHANGED <<offered, due, done>>

Offer(m) ==
  /\ m \in sent \ offered
  /\ offered' = offered \cup {m}
  /\ due' = [c \in Consumer |-> due[c] \cup {m}]
  /\ UNCHANGED <<sent, done>>

\* Raw packets of a report offered before may come to a consumer later.
OfferAgain(m, c) ==
  /\ m \in offered
  /\ due' = [due EXCEPT ![c] = @ \cup {m}]
  /\ UNCHANGED <<sent, offered, done>>

Settle(c, S) ==
  /\ S \subseteq due[c]
  /\ done' = [done EXCEPT ![c] = @ \cup S]
  /\ UNCHANGED <<sent, offered, due>>

Retire(c, S) ==
  /\ S \subseteq done[c]
  /\ due' = [due EXCEPT ![c] = @ \ S]
  /\ UNCHANGED <<sent, offered, done>>

Next ==
  \/ \E m \in Report : Send(m) \/ Offer(m)
  \/ \E c \in Consumer :
       \/ \E m \in Report : OfferAgain(m, c)
       \/ \E S \in SUBSET Report : Settle(c, S) \/ Retire(c, S)

Safe == Init /\ [][Next]_vars

Applied == \A m \in Report, c \in Consumer : m \in sent ~> m \in done[c]

Spec == Safe /\ Applied
=============================================================================
