---------------------------- MODULE MCTelemetry ----------------------------
(* Instances for TLC of the two halves of the telemetry path: the streams  *)
(* and their consumers (Telemetry), and the real-time copy they feed       *)
(* (Latest).  Each behaviour runs one of them; the other stays as it is.   *)
EXTENDS Telemetry, Latest, TLC

VARIABLE focus

Kinds == "history" :> "transaction" @@ "alerts" :> "single"

allVars == <<telemetryVars, latestVars, focus>>

InitBoth ==
  /\ focus \in {"streams", "copy"}
  /\ InitTelemetry /\ InitLatest
  /\ focus = "streams" => ~runtime.known

\* Two appends go with one failure, one append with two; the device of the copy
\* reports twice at most, and once when it is both projected and deleted.
NextBoth ==
  \/ /\ focus = "streams" /\ NextTelemetry /\ UNCHANGED <<latestVars, focus>>
     /\ sends' + tfaults' <= 3
  \/ /\ focus = "copy" /\ NextLatest /\ UNCHANGED <<telemetryVars, focus>>
     /\ Cardinality(reports') <= IF row' # "live" /\ projections' > 0 THEN 1 ELSE 2

\* FairTelemetry and FairLatest of the half that runs.
FairBoth ==
  /\ \A w \in Worker, q \in Stream :
       WF_telemetryVars(focus = "streams" /\ Step(w, q))
  /\ \A s \in Sweeper : /\ WF_latestVars(focus = "copy" /\ FindDue(s))
                        /\ WF_latestVars(focus = "copy" /\ Expire(s))
  /\ \A p \in Projector : WF_latestVars(focus = "copy" /\ Project(p))

SpecBoth == InitBoth /\ [][NextBoth]_allVars /\ FairBoth
=============================================================================
