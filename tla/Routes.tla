------------------------------- MODULE Routes -------------------------------
(***************************************************************************)
(* The route of a device: which connection of which collector worker a     *)
(* command for it has to be sent through.  A process that serves a link    *)
(* holds the lease of the link in Redis and asks for it every 5 s; any of  *)
(* its workers may accept the device.  The first packet of a session binds *)
(* the device: the route in Redis names the connection from then on, and   *)
(* the worker of the connection it named before is told to close that one. *)
(* A worker renews the routes it has bound; a connection whose route is    *)
(* not its own any more is closed, and a route whose connection has gone   *)
(* is erased, if it is still the same, or expires after 15 s.              *)
(*                                                                         *)
(* A worker's tick is one coroutine: it does one thing at a time (doing)    *)
(* and an exception ends it.  Sockets open and close meanwhile, and every  *)
(* answer of Redis may find another state than the one it was asked in.    *)
(* One device and one link are modelled; routes of different devices       *)
(* have nothing in common.  An id is of one connection only, so what the   *)
(* workers keep by connection is one function.                             *)
(***************************************************************************)
EXTENDS Integers, Sequences, FiniteSets

CONSTANTS
  Process,     \* processes that serve the link
  Serving,     \* their collector workers; a restarted one is another worker
  ProcessOf,   \* process of a worker
  Conn,        \* connections
  MaxEpoch,    \* bound on the session epochs of a connection
  MaxMishaps   \* bound on crashes, stops, refreshes and failing commands

Nobody == "nobody"

ASSUME RouteConstants ==
  /\ ProcessOf \in [Serving -> Process]
  /\ IsFiniteSet(Conn) /\ Nobody \notin Conn \cup Serving \cup Process
  /\ MaxEpoch \in Nat \ {0} /\ MaxMishaps \in Nat

NoRoute == [conn |-> Nobody, epoch |-> 0]

VARIABLES
  \* Redis
  owner,     \* the link lease: a process, or Nobody
  route,     \* the connection hash of the device
  told,      \* control streams: connections that are to be closed
  stray,     \* binds that are not waited for any more and may be executed
  \* the worker
  running,   \* "up", "stopping" or "down"
  retained,  \* the link is in loadedSnapshot_
  doing,      \* what its tick is doing
  turn,      \* what is next: to refresh its links ("config"), to look at its
             \* ingress stream since it has ("ingress"), or either ("any")
  inbox,     \* its ingress stream
  \* what workers keep about a connection
  home,      \* worker that has accepted the connection
  socket,    \* session epoch in networkConnections_, 0 if it is not there
  epoch,     \* connectionEpochs_
  served,    \* the engine's session: "none", "open", or "bound" to the device
  bound,     \* routeEpochs_
  leftover,  \* history: connections whose clean-up failed
  mishaps

routeVars == <<owner, route, told, stray, running, retained, doing, turn, inbox,
               home, socket, epoch, served, bound, leftover, mishaps>>
redisVars == <<owner, route, told, stray>>
connVars  == <<home, socket, epoch, served, bound>>

Identity(c, e) == [conn |-> c, epoch |-> e]
\* connectionIsLive
Live(c, e) == e > 0 /\ socket[c] = e
Mishap == mishaps < MaxMishaps /\ mishaps' = mishaps + 1
Of(w) == {c \in Conn : home[c] = w}
Idle == [at |-> "idle"]
IsIdle(w) == running[w] = "up" /\ doing[w] = Idle
Is(w, what) == running[w] # "down" /\ doing[w].at = what
Goes(w, t) == doing' = [doing EXCEPT ![w] = t]

\* Any of the workers are there.
InitRoutes ==
  /\ owner = Nobody /\ route = NoRoute /\ told = {} /\ stray = {}
  /\ running \in [Serving -> {"up", "down"}]
  /\ retained = [w \in Serving |-> FALSE]
  /\ doing = [w \in Serving |-> Idle]
  /\ turn = [w \in Serving |-> "any"]
  /\ inbox = [w \in Serving |-> <<>>]
  /\ home = [c \in Conn |-> Nobody]
  /\ socket = [c \in Conn |-> 0] /\ epoch = [c \in Conn |-> 0]
  /\ served = [c \in Conn |-> "none"] /\ bound = [c \in Conn |-> 0]
  /\ leftover = {} /\ mishaps = 0

-----------------------------------------------------------------------------
\* The socket.

Event(kind, c) == [kind |-> kind, conn |-> c, epoch |-> socket[c]]

Accept(w, c) ==
  /\ running[w] = "up" /\ retained[w] /\ home[c] = Nobody
  /\ home' = [home EXCEPT ![c] = w]
  /\ socket' = [socket EXCEPT ![c] = 1]
  /\ inbox' = [inbox EXCEPT
                ![w] = Append(@, [kind |-> "connected", conn |-> c, epoch |-> 1])]
  /\ UNCHANGED <<redisVars, running, retained, turn, doing, epoch, served,
                 bound, leftover, mishaps>>

\* enqueueDisconnect, for connections of one worker: they are forgotten at
\* once, what was bound for them when the event is consumed.
Close(w, C) ==
  LET open == {c \in C : socket[c] > 0} IN
  /\ socket' = [c \in Conn |-> IF c \in C THEN 0 ELSE socket[c]]
  /\ \E order \in [1 .. Cardinality(open) -> open] :
       /\ \A c \in open : \E n \in DOMAIN order : order[n] = c
       /\ inbox' = [inbox EXCEPT
            ![w] = @ \o [n \in DOMAIN order |-> Event("disconnected", order[n])]]

\* The peer closes.  drainIngress may fail to add the event to the stream:
\* closing the connection again makes no second one.
EndOfFile(c) ==
  LET w == home[c] IN
  /\ socket[c] > 0 /\ running[w] = "up"
  /\ \/ Close(w, {c}) /\ UNCHANGED <<leftover, mishaps>>
     \/ Mishap /\ leftover' = leftover \cup {c}
        /\ socket' = [socket EXCEPT ![c] = 0] /\ UNCHANGED inbox
  /\ UNCHANGED <<redisVars, running, retained, turn, doing, home, epoch, served,
                 bound>>

\* The device sends a packet by which the session knows it; a session binds
\* its device once.
Packet(c) ==
  LET w == home[c] IN
  /\ socket[c] > 0 /\ running[w] = "up" /\ served[c] # "bound"
  /\ \A n \in DOMAIN inbox[w] : inbox[w][n] # Event("packet", c)
  /\ inbox' = [inbox EXCEPT ![w] = Append(@, Event("packet", c))]
  /\ UNCHANGED <<redisVars, running, retained, turn, doing, connVars, leftover,
                 mishaps>>

-----------------------------------------------------------------------------
\* The scripts.

BugErasesAnyRoute(c, e) == route.conn # Nobody /\ e > 0
Erases(c, e) == route = Identity(c, e)

\* eraseScript: the route is deleted if it is exactly the one of the caller.
Erase(c, e) == route' = IF Erases(c, e) THEN NoRoute ELSE route

\* bindScript: only for the process that has the link, and never back to an
\* earlier session of the same connection.
BindRefused(w, c, e) ==
  owner # ProcessOf[w] \/ (route.conn = c /\ route.epoch > e)

\* renewScript, but for the expiry it moves.
Renews(w, c, e) == route = Identity(c, e) /\ owner = ProcessOf[w]

-----------------------------------------------------------------------------
\* bindRouteIfConnected.  Identities are registered before the script is sent:
\* whatever becomes of its answer, they are cleaned up.

BugForgetsIdentity(w, c, e) ==
  /\ Goes(w, [at |-> "bind", conn |-> c, epoch |-> e])
  /\ UNCHANGED bound

StartBind(w, c, e) ==
  /\ Goes(w, [at |-> "bind", conn |-> c, epoch |-> e])
  /\ bound' = [bound EXCEPT ![c] = e]

\* The script is executed and answered, executed without an answer, refused, or
\* not executed in the time the worker waits: it may be later.  When a session
\* that begins again does not get it, the route of the earlier epoch stays
\* until it expires.
Bind(w) ==
  /\ Is(w, "bind")
  /\ LET t == doing[w]
         id == Identity(t.conn, t.epoch) IN
     \/ /\ ~BindRefused(w, t.conn, t.epoch)
        /\ route' = id /\ UNCHANGED <<stray, leftover>>
        /\ \/ Goes(w, [at |-> "announce", conn |-> t.conn, epoch |-> t.epoch,
                       old |-> route.conn])
              /\ UNCHANGED mishaps
           \/ Mishap /\ Goes(w, Idle)
     \/ /\ BindRefused(w, t.conn, t.epoch)
        /\ Goes(w, Idle) /\ UNCHANGED <<route, stray, mishaps>>
        /\ leftover' = leftover \cup ({t.conn} \cap {route.conn})
     \/ /\ Mishap /\ Goes(w, Idle)
        /\ stray' = stray \cup {id} /\ UNCHANGED route
        /\ leftover' = leftover \cup ({t.conn} \cap {route.conn})
  /\ UNCHANGED <<owner, told, running, retained, turn, inbox, connVars>>

BindLate(id) ==
  LET w == home[id.conn] IN
  /\ id \in stray /\ stray' = stray \ {id}
  /\ IF BindRefused(w, id.conn, id.epoch)
     THEN UNCHANGED <<route, leftover>>
     ELSE route' = id /\ leftover' = leftover \cup {id.conn}
  /\ UNCHANGED <<owner, told, running, retained, turn, doing, inbox, connVars,
                 mishaps>>

\* The connection that had the device is closed: by this worker, if it is one
\* of its own, or by the worker that reads the control stream.  If that
\* message cannot be published, the tick ends here.
Announce(w) ==
  /\ Is(w, "announce")
  /\ LET t == doing[w]
         next == Goes(w, [at |-> "check", conn |-> t.conn, epoch |-> t.epoch]) IN
     \/ /\ t.old \in {Nobody, t.conn}
        /\ next /\ UNCHANGED <<told, inbox, socket, mishaps>>
     \/ /\ t.old \notin {Nobody, t.conn} /\ home[t.old] = w
        /\ next /\ Close(w, {t.old}) /\ UNCHANGED <<told, mishaps>>
     \/ /\ t.old \notin {Nobody, t.conn} /\ home[t.old] # w
        /\ \/ next /\ told' = told \cup {t.old} /\ UNCHANGED mishaps
           \/ Mishap /\ Goes(w, Idle) /\ UNCHANGED told
        /\ UNCHANGED <<inbox, socket>>
  /\ UNCHANGED <<owner, route, stray, running, retained, turn, home, epoch,
                 served, bound, leftover>>

\* A route whose erasure fails is left to its expiry.
EraseOrLeave(c, e) ==
  \/ Erase(c, e) /\ UNCHANGED <<leftover, mishaps>>
  \/ Mishap /\ leftover' = leftover \cup {c} /\ UNCHANGED route

\* The connection may have closed while Redis was asked.
Check(w) ==
  /\ Is(w, "check") /\ Goes(w, Idle)
  /\ LET t == doing[w] IN
     IF running[w] = "up" /\ epoch[t.conn] = t.epoch /\ Live(t.conn, t.epoch)
     THEN UNCHANGED <<route, leftover, mishaps>>
     ELSE EraseOrLeave(t.conn, t.epoch)
  /\ UNCHANGED <<owner, told, stray, running, retained, turn, inbox, connVars>>

-----------------------------------------------------------------------------
\* consumeIngress.

\* Events of an earlier session than the known one are dropped.
TakeConnected(w, m) ==
  /\ m.kind = "connected"
  /\ IF epoch[m.conn] >= m.epoch
     THEN UNCHANGED <<epoch, served>>
     ELSE /\ epoch' = [epoch EXCEPT ![m.conn] = m.epoch]
          /\ served' = [served EXCEPT ![m.conn] = "open"]
  /\ UNCHANGED <<route, doing, bound, leftover, mishaps>>

TakePacket(w, m) ==
  /\ m.kind = "packet"
  /\ IF epoch[m.conn] = m.epoch /\ served[m.conn] = "open"
     THEN /\ served' = [served EXCEPT ![m.conn] = "bound"]
          /\ IF Live(m.conn, m.epoch)
             THEN StartBind(w, m.conn, m.epoch)
             ELSE UNCHANGED <<doing, bound>>
     ELSE UNCHANGED <<doing, served, bound>>
  /\ UNCHANGED <<route, epoch, leftover, mishaps>>

\* cleanupConnection.
TakeDisconnected(w, m) ==
  /\ m.kind = "disconnected"
  /\ IF epoch[m.conn] = m.epoch
     THEN /\ epoch' = [epoch EXCEPT ![m.conn] = 0]
          /\ served' = [served EXCEPT ![m.conn] = "none"]
          /\ \/ Erase(m.conn, bound[m.conn])
                /\ bound' = [bound EXCEPT ![m.conn] = 0]
                /\ UNCHANGED <<leftover, mishaps>>
             \/ /\ Mishap /\ leftover' = leftover \cup {m.conn}
                /\ UNCHANGED <<route, bound>>
     ELSE UNCHANGED <<route, epoch, served, bound, leftover, mishaps>>
  /\ UNCHANGED doing

TakeIngress(w) ==
  /\ IsIdle(w) /\ inbox[w] # <<>>
  /\ turn[w] # "config" /\ turn' = [turn EXCEPT ![w] = "any"]
  /\ inbox' = [inbox EXCEPT ![w] = Tail(@)]
  /\ \/ TakeConnected(w, Head(inbox[w]))
     \/ TakePacket(w, Head(inbox[w]))
     \/ TakeDisconnected(w, Head(inbox[w]))
  /\ UNCHANGED <<owner, told, stray, running, retained, home, socket>>

\* consumeControl.
TakeControl(w) ==
  /\ IsIdle(w)
  /\ \E c \in told \cap Of(w) : told' = told \ {c} /\ Close(w, {c})
  /\ UNCHANGED <<owner, route, stray, running, retained, turn, doing, home,
                 epoch, served, bound, leftover, mishaps>>

\* The check before a packet is written to the socket.
CloseUnowned(w) ==
  /\ IsIdle(w) /\ owner # ProcessOf[w]
  /\ \E c \in Of(w) : socket[c] > 0 /\ Close(w, {c})
  /\ UNCHANGED <<redisVars, running, retained, turn, doing, home, epoch, served,
                 bound, leftover, mishaps>>

-----------------------------------------------------------------------------
\* consumeConfig: every 5 s.  Every tick looks at the ingress stream as well.

ConfigIsDue(w) ==
  /\ running[w] = "up"
  /\ turn[w] = "any" \/ (turn[w] = "ingress" /\ inbox[w] = <<>>)
  /\ turn' = [turn EXCEPT ![w] = "config"]
  /\ UNCHANGED <<redisVars, running, retained, doing, inbox, connVars, leftover,
                 mishaps>>

\* retain.  A link that is lost is not in the worker's snapshot any more: its
\* connections are closed and their sessions are gone.
Retain(w) ==
  /\ IsIdle(w)
  /\ turn[w] = "config" /\ turn' = [turn EXCEPT ![w] = "ingress"]
  /\ Goes(w, [at |-> "renew", left |-> {c \in Of(w) : bound[c] > 0}])
  /\ \/ /\ owner \in {Nobody, ProcessOf[w]}
        /\ owner' = ProcessOf[w] /\ retained' = [retained EXCEPT ![w] = TRUE]
        /\ UNCHANGED <<inbox, socket, served>>
     \/ /\ owner \notin {Nobody, ProcessOf[w]}
        /\ retained' = [retained EXCEPT ![w] = FALSE]
        /\ Close(w, Of(w))
        /\ served' = [c \in Conn |-> IF home[c] = w THEN "none" ELSE served[c]]
        /\ UNCHANGED owner
  /\ UNCHANGED <<route, told, stray, running, home, epoch, bound, leftover,
                 mishaps>>

\* A device of the session changes: the session begins again under a new
\* epoch, with the device or without it (applySessionRefresh).
RefreshSession(w, c) ==
  /\ IsIdle(w) /\ retained[w] /\ home[c] = w /\ served[c] # "none"
  /\ socket[c] \in 1 .. MaxEpoch - 1 /\ Mishap
  /\ LET e == socket[c] + 1 IN
     /\ socket' = [socket EXCEPT ![c] = e]
     /\ epoch' = [epoch EXCEPT ![c] = e]
     /\ \/ served[c] = "bound" /\ StartBind(w, c, e) /\ UNCHANGED <<route,
                                                                    served>>
        \/ /\ served' = [served EXCEPT ![c] = "open"]
           /\ Erase(c, bound[c]) /\ bound' = [bound EXCEPT ![c] = 0]
           /\ UNCHANGED doing
  /\ UNCHANGED <<owner, told, stray, running, retained, turn, inbox, home,
                 leftover>>

\* renewConnectionState, for one of the identities it has copied.
Renew(w) ==
  /\ Is(w, "renew") /\ running[w] = "up"
  /\ LET left == doing[w].left IN
     \/ left = {} /\ Goes(w, Idle) /\ UNCHANGED mishaps
     \/ \E c \in left :
          \/ /\ ~Live(c, bound[c])
             /\ Goes(w, [at |-> "renew", left |-> left \ {c}])
             /\ UNCHANGED mishaps
          \/ /\ Live(c, bound[c])
             /\ \/ /\ Goes(w, [at |-> "renewed", conn |-> c, left |-> left \ {c},
                                kept |-> Renews(w, c, bound[c])])
                   /\ UNCHANGED mishaps
                \/ Mishap /\ Goes(w, Idle)
  /\ UNCHANGED <<redisVars, running, retained, turn, inbox, connVars, leftover>>

BugKeepsUnrouted(c, kept) == FALSE
HasLostRoute(c, kept) == ~kept

AfterRenew(w) ==
  /\ Is(w, "renewed")
  /\ LET t == doing[w]
         next == Goes(w, [at |-> "renew", left |-> t.left]) IN
     IF running[w] = "up" /\ Live(t.conn, bound[t.conn])
     THEN /\ next /\ UNCHANGED <<route, leftover, mishaps>>
          /\ IF HasLostRoute(t.conn, t.kept)
             THEN Close(w, {t.conn})
             ELSE UNCHANGED <<inbox, socket>>
     ELSE /\ EraseOrLeave(t.conn, bound[t.conn])
          /\ next /\ UNCHANGED <<inbox, socket>>
  /\ UNCHANGED <<owner, told, stray, running, retained, turn, home, epoch,
                 served, bound>>

-----------------------------------------------------------------------------
\* Time, stop and crash.

Attended(c) == c # Nobody /\ socket[c] > 0 /\ running[home[c]] = "up"

\* A live connection's route only expires if its renewals do not succeed for
\* 15 s.
Expire ==
  /\ route # NoRoute /\ route' = NoRoute
  /\ IF Attended(route.conn) /\ Live(route.conn, route.epoch)
     THEN Mishap ELSE UNCHANGED mishaps
  /\ UNCHANGED <<owner, told, stray, running, retained, turn, doing, inbox,
                 connVars, leftover>>

OwnerExpires ==
  /\ owner # Nobody /\ owner' = Nobody
  /\ IF \E w \in Serving : ProcessOf[w] = owner /\ running[w] = "up"
     THEN Mishap ELSE UNCHANGED mishaps
  /\ UNCHANGED <<route, told, stray, running, retained, turn, doing, inbox,
                 connVars, leftover>>

\* shutdown: from now on events are not added to the stream.
StopWorker(w) ==
  /\ running[w] = "up" /\ Mishap
  /\ running' = [running EXCEPT ![w] = "stopping"]
  /\ UNCHANGED <<redisVars, retained, turn, doing, inbox, connVars, leftover>>

\* What the tick was doing is cancelled, and what is registered is erased.  A
\* refresh that is cancelled has registered the new epoch and not yet bound it:
\* the route of the earlier one is left to its expiry.
WorkerStopped(w) ==
  /\ running[w] = "stopping"
  /\ running' = [running EXCEPT ![w] = "down"] /\ Goes(w, Idle)
  /\ turn' = [turn EXCEPT ![w] = "any"]
  /\ IF route.conn \in Of(w) /\ Erases(route.conn, bound[route.conn])
     THEN EraseOrLeave(route.conn, bound[route.conn])
     ELSE /\ leftover' = leftover \cup
                {c \in {route.conn} : doing[w].at = "bind" /\ doing[w].conn = c}
          /\ UNCHANGED <<route, mishaps>>
  /\ bound' = [c \in Conn |-> IF home[c] = w THEN 0 ELSE bound[c]]
  /\ socket' = [c \in Conn |-> IF home[c] = w THEN 0 ELSE socket[c]]
  /\ inbox' = [inbox EXCEPT ![w] = <<>>]
  /\ UNCHANGED <<owner, told, stray, retained, home, epoch, served>>

Die(p) ==
  LET W == {w \in Serving : ProcessOf[w] = p}
      C == {c \in Conn : home[c] \in W} IN
  /\ \E w \in W : running[w] # "down"
  /\ Mishap
  /\ running' = [w \in Serving |-> IF w \in W THEN "down" ELSE running[w]]
  /\ doing' = [w \in Serving |-> IF w \in W THEN Idle ELSE doing[w]]
  /\ turn' = [w \in Serving |-> IF w \in W THEN "any" ELSE turn[w]]
  /\ inbox' = [w \in Serving |-> IF w \in W THEN <<>> ELSE inbox[w]]
  /\ socket' = [c \in Conn |-> IF c \in C THEN 0 ELSE socket[c]]
  /\ leftover' = leftover \cup C
  /\ UNCHANGED <<redisVars, retained, home, epoch, served, bound>>

\* What the tick is doing, and what it may turn to.
Advance(w) ==
  Bind(w) \/ Announce(w) \/ Check(w) \/ Renew(w) \/ AfterRenew(w)

Tick(w) ==
  \/ Advance(w) \/ Retain(w) \/ ConfigIsDue(w)
  \/ TakeIngress(w) \/ TakeControl(w) \/ CloseUnowned(w)
  \/ \E c \in Conn : RefreshSession(w, c)

NextRoutes ==
  \/ \E w \in Serving : Tick(w) \/ StopWorker(w) \/ WorkerStopped(w)
                         \/ \E c \in Conn : Accept(w, c)
  \/ \E c \in Conn : EndOfFile(c) \/ Packet(c)
  \/ \E id \in stray : BindLate(id)
  \/ Expire \/ OwnerExpires
  \/ \E p \in Process : Die(p)

\* Ticks go on, the next refresh becomes due, and keys expire.
RouteFairness ==
  /\ \A w \in Serving :
       /\ WF_routeVars(Advance(w)) /\ WF_routeVars(WorkerStopped(w))
       /\ WF_routeVars(Retain(w)) /\ WF_routeVars(TakeIngress(w))
       /\ WF_routeVars(ConfigIsDue(w))
  /\ WF_routeVars(Expire /\ UNCHANGED mishaps)
  /\ WF_routeVars(OwnerExpires /\ UNCHANGED mishaps)

SpecRoutes == InitRoutes /\ [][NextRoutes]_routeVars
FairRoutes == SpecRoutes /\ RouteFairness

-----------------------------------------------------------------------------
\* Properties.

Identities == {NoRoute} \cup [conn : Conn, epoch : 1 .. MaxEpoch]

RouteTypeOK ==
  /\ owner \in Process \cup {Nobody} /\ route \in Identities
  /\ told \subseteq Conn /\ stray \subseteq Identities \ {NoRoute}
  /\ running \in [Serving -> {"up", "stopping", "down"}]
  /\ retained \in [Serving -> BOOLEAN]
  /\ turn \in [Serving -> {"config", "ingress", "any"}]
  /\ home \in [Conn -> Serving \cup {Nobody}]
  /\ {socket, epoch, bound} \subseteq [Conn -> 0 .. MaxEpoch]
  /\ served \in [Conn -> {"none", "open", "bound"}]
  /\ leftover \subseteq Conn /\ mishaps \in 0 .. MaxMishaps

\* The route in Redis names a connection that is live, or somebody is about to
\* notice that it is not: its worker has the end of the connection in its
\* stream, is binding it or is stopping.  Only a failure leaves a route to its
\* expiry, and then the identity was registered or cannot be any more.
Cleaned(id) ==
  LET w == home[id.conn] IN
  \/ Live(id.conn, id.epoch)
  \/ id.conn \in leftover
  \/ running[w] = "stopping"
  \/ /\ bound[id.conn] = id.epoch
     /\ \/ \E n \in DOMAIN inbox[w] :
             /\ inbox[w][n].kind = "disconnected"
             /\ inbox[w][n].conn = id.conn /\ inbox[w][n].epoch = epoch[id.conn]
        \/ doing[w].at \in {"announce", "check"} /\ doing[w].conn = id.conn
  \/ doing[w].at = "bind" /\ doing[w].conn = id.conn

DeadRoutesAreCleaned == route # NoRoute => Cleaned(route)

RouteSafety == RouteTypeOK /\ DeadRoutesAreCleaned

\* A device that is connected keeps its route: no clean-up of an earlier
\* connection and no session that has ended takes it away, only a later
\* binding or the end of its lease.
LiveRouteIsKept ==
  [][\/ route = NoRoute \/ route' = route
     \/ ~Live(route.conn, route.epoch) \/ running[home[route.conn]] # "up"
     \/ socket'[route.conn] # socket[route.conn]
     \/ route' # NoRoute
     \/ mishaps' # mishaps]_routeVars

\* A device that comes back through another connection leaves one of them: in
\* the end a connection that was bound has the route or is closed, whatever
\* messages are lost.
OneConnectionStays ==
  []<>(\A c \in Conn : Live(c, bound[c]) => route = Identity(c, bound[c]))
=============================================================================
