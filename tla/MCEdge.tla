------------------------------- MODULE MCEdge -------------------------------
(* Instances for TLC of the three things the Edge Workers and the device   *)
(* connections rest on: routes (Routes), the configuration of a node       *)
(* (EdgeConfig) and the streams of what nodes send (EdgeStreams).  Each    *)
(* behaviour runs one of them; the others stay as they are.                *)
EXTENDS Routes, EdgeConfig, EdgeStreams, TLC

CONSTANTS e1, e2

VARIABLES focus, story

allVars == <<routeVars, edgeConfigVars, edgeStreamVars, focus, story>>

ThreeWorkers == {"i1", "i2", "j1"}
Processes == "i1" :> "I" @@ "i2" :> "I" @@ "j1" :> "J"

AllUp == [w \in Serving |-> "up"]

-----------------------------------------------------------------------------
\* Two connections at two workers, of one process or of two.  They are named in
\* the order they are accepted in, and the worker that accepts the first is i1.
\* A refresh that is due begins at once; it becomes due at any time.

NextConnections ==
  /\ NextRoutes
  /\ home'["k1"] \in {"i1", Nobody}
  /\ home'["k2"] # Nobody => home'["k1"] # Nobody
  /\ \A w \in Serving : turn'[w] = "config" => turn[w] # "config" /\ IsIdle(w)

-----------------------------------------------------------------------------
\* Two requests that overtake each other ("editors"); one, and a connection that is
\* given up, at any stage of it, or a process that dies ("lost"; a third connection
\* is made when the first two have ended, and settles what is left); a node whose
\* protocols are not known yet, and more devices than it takes ("protocols").  What
\* the node sends is projected before it sends more, but for what an earlier
\* session has taken of its answers.

Reported(s) ==
  /\ uplink[s].seen /\ At(Projector(s), "none")
  /\ \A i \in 1 .. Len(incoming[s]) : incoming[s][i].kind # "report"

Sending == {s \in Session : incoming'[s] # <<>>}

NextConfig ==
  /\ NextEdgeConfig
  /\ \A s \in Session : Len(incoming'[s]) <= 1
  /\ incoming' # incoming => \A s \in Sending :
       Sending = {s} \/ (s = 1 /\ incoming'[1][1].kind = "applied")
  /\ content' > content => story = "protocols" \/ \E s \in Session : Reported(s)
  /\ \A j \in Builder :
       /\ At(j, "notify") => job'[j].at = "none"
       /\ job'[j].at = "rejected" => story = "protocols"
  /\ story \in {"editors", "protocols"} =>
       losses' = 0 /\ uplink'[2].state = "new"
  /\ story = "editors" =>
       answer'.kind # "rejected" /\ (job'[e2].at # "none" => content' = 2)
  /\ story = "lost" =>
       /\ content' <= 1 /\ clock' = 1 /\ answer'.kind # "rejected"
       /\ job[e1].at # "none" => job'[e1] # job[e1] \/ losses' > losses
       /\ link # 3 /\ link' = 3 =>
            /\ Sending = {} /\ \A j \in Builder : At(j, "none")
            /\ \A s \in {1, 2} : StateOf(s, {"closed"})
  /\ story = "protocols" => content' <= 1 /\ clock' = 1

-----------------------------------------------------------------------------
\* Three workers of which one is sent messages and may fail ("crash"), or two of
\* which both are and may ("two").

StartsAPass(w) ==
  Runs(w, "start") \/ (Runs(w, "idle") /\ \A i \in Incarnation : ~Erasable(w, i))

Moves(w) == loop'[w].at # loop[w].at \/ state'[w] # state[w]

NextStreams ==
  /\ NextEdgeStreams
  /\ faults' = 0 \/ \E w \in Incarnation : state'[w] = "up"
  /\ (\E w \in Incarnation : StartsAPass(w)) =>
        \E w \in Incarnation : StartsAPass(w) /\ Moves(w)
  /\ state'["j"] # "new" => state'["i"] # "new"
  /\ state'["k"] = "up" => state'["j"] # "new"
  /\ accepted' # accepted \/ faults' # faults => state["k"] # "new"
  /\ \A w \in Incarnation :
       w \notin due /\ w \in due' => loop[w].at \in {"start", "look"}
  /\ story = "two" => faults' <= 1
  /\ story = "crash" =>
       /\ accepted'["j"] = {} /\ accepted'["k"] = {}
       /\ faults' > 1 => state["i"] # "up"
       /\ \A w \in {"j", "k"} : state[w] = "up" /\ lease[w] = w => lease'[w] = w

-----------------------------------------------------------------------------

Stories ==
  "routes" :> {"one process", "two processes"}
    @@ "config" :> {"editors", "lost", "protocols"}
    @@ "streams" :> {"crash", "two"}

\* What does not run is in one of its initial states.
InitAny ==
  /\ InitRoutes /\ InitEdgeConfig /\ InitEdgeStreams
  /\ focus \in DOMAIN Stories /\ story \in Stories[focus]
  /\ LET one == IF story = "one process" THEN "j1" ELSE "i2" IN
     running = [AllUp EXCEPT ![one] = "down"]
  /\ supported = (story # "protocols")
  /\ \A w \in Incarnation :
       state[w] = IF w = "k" /\ story = "two" THEN "down" ELSE "new"

NextAny ==
  \/ /\ focus = "routes" /\ NextConnections
     /\ UNCHANGED <<edgeConfigVars, edgeStreamVars, focus, story>>
  \/ /\ focus = "config" /\ NextConfig
     /\ UNCHANGED <<routeVars, edgeStreamVars, focus, story>>
  \/ /\ focus = "streams" /\ NextStreams
     /\ UNCHANGED <<routeVars, edgeConfigVars, focus, story>>

\* RouteFairness, EdgeConfigFairness and EdgeStreamFairness of what runs.
FairAny ==
  /\ \A w \in Serving :
       /\ WF_routeVars(focus = "routes" /\ Advance(w))
       /\ WF_routeVars(focus = "routes" /\ WorkerStopped(w))
       /\ WF_routeVars(focus = "routes" /\ Retain(w))
       /\ WF_routeVars(focus = "routes" /\ TakeIngress(w))
       /\ WF_routeVars(focus = "routes" /\ ConfigIsDue(w))
  /\ WF_routeVars(focus = "routes" /\ Expire /\ UNCHANGED mishaps)
  /\ WF_routeVars(focus = "routes" /\ OwnerExpires /\ UNCHANGED mishaps)
  /\ \A j \in Builder : WF_edgeConfigVars(focus = "config" /\ Work(j))
  /\ \A s \in Session :
       /\ WF_edgeConfigVars(focus = "config" /\ Connect(s))
       /\ WF_edgeConfigVars(focus = "config" /\ Serve(s))
       /\ WF_edgeConfigVars(focus = "config" /\ GiveUp(s))
       /\ WF_edgeConfigVars(/\ focus = "config"
                            /\ \/ ProjectReport(s)
                               \/ ProjectIngress(s) /\ UNCHANGED losses)
  /\ WF_edgeConfigVars(focus = "config" /\ NodeSends)
  /\ \A w \in Incarnation :
       /\ WF_edgeStreamVars(focus = "streams" /\ LoopStep(w))
       /\ WF_edgeStreamVars(focus = "streams" /\ Beat(w))
       /\ WF_edgeStreamVars(focus = "streams" /\ TimePasses(w))
       /\ WF_edgeStreamVars(/\ focus = "streams"
                            /\ ExpireLease(w) /\ UNCHANGED faults)

SpecAny == InitAny /\ [][NextAny]_allVars /\ FairAny
=============================================================================
