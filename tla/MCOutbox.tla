------------------------------ MODULE MCOutbox ------------------------------
(* Instances for TLC of the two relays that must not lose an event: the    *)
(* outbox (Outbox), two events and two workers, and the delivery to        *)
(* webhooks and brokers (Delivery), two events of one device.  Each        *)
(* behaviour runs one of them; the other stays as it is.                   *)
EXTENDS Outbox, Delivery, TLC

CONSTANTS w1, w2

VARIABLE focus

TwoEvents == 1 .. 2
TwoWorkers == {w1, w2}
OneDevice == <<"d1", "d1">>

allVars == <<vars, deliveryVars, focus>>

InitBoth == focus \in {"outbox", "delivery"} /\ Init /\ InitDelivery

NextBoth ==
  \/ focus = "outbox" /\ Next /\ UNCHANGED <<deliveryVars, focus>>
  \/ focus = "delivery" /\ NextDelivery /\ UNCHANGED <<vars, focus>>

\* Fairness and FairDelivery of the relay that runs.
FairBoth ==
  /\ \A e \in Event : WF_vars(focus = "outbox" /\ Backoff(e))
  /\ \A w \in Worker :
       /\ WF_vars(focus = "outbox" /\ Dispatch(w))
       /\ WF_vars(focus = "outbox" /\ Publish(w))
       /\ WF_vars(focus = "outbox" /\ Commit(w))
       /\ WF_vars(focus = "outbox" /\ NextAvailable(w))
       /\ WF_vars(focus = "outbox" /\ Timer(w))
       /\ WF_vars(focus = "outbox" /\ Wake(w))
       /\ WF_vars(focus = "outbox" /\ Connect(w))
  /\ \A w \in Deliverer : WF_deliveryVars(focus = "delivery" /\ DeliveryStep(w))

SpecBoth == InitBoth /\ [][NextBoth]_allVars /\ FairBoth
=============================================================================
