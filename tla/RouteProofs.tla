---------------------------- MODULE RouteProofs ----------------------------
(***************************************************************************)
(* Proofs about the routes of devices: whatever sockets, scripts and       *)
(* workers do, the route that is in Redis is of a live connection or       *)
(* somebody is about to notice that it is not, and only a failure takes    *)
(* the route of a live connection away.                                    *)
(*                                                                         *)
(* The inductive invariant says who minds a route (Minded): the worker of  *)
(* its connection has the identity registered, and either the connection   *)
(* has its socket or the end of it is in the worker's stream; or the       *)
(* script is under way; or a failure has left the route to its expiry.     *)
(***************************************************************************)
EXTENDS Routes, FiniteSetTheorems, TLAPS

----------------------------------------------------------------------------
(* Routes: the invariant                                                   *)

USE RouteConstants

EventRec == [kind : {"connected", "packet", "disconnected"}, conn : Conn, epoch : 1 .. MaxEpoch]
Items(s) == {s[n] : n \in DOMAIN s}
Events(w) == Items(inbox[w])

\* What a worker may be doing, in terms of its own connections.
TickOK(w, t) ==
  /\ t.at \in {"idle", "bind", "announce", "check", "renew", "renewed"}
  /\ t.at = "idle" => t = Idle
  /\ t.at \in {"bind", "announce", "check", "renewed"} => t.conn \in Of(w)
  /\ t.at \in {"renew", "renewed"} => t.left \subseteq Of(w)
  /\ t.at \in {"bind", "announce", "check"} => t.epoch \in 1 .. MaxEpoch
  /\ t.at = "announce" => t.old \in Conn \cup {Nobody}

\* What RouteTypeOK leaves open: the events of a stream, and what a tick does.
TickTypes ==
  /\ inbox \in [Serving -> Seq(EventRec)]
  /\ DOMAIN doing = Serving /\ \A w \in Serving : TickOK(w, doing[w])

\* The worker is binding the connection.
Binding(w, c, e) ==
  /\ doing[w].at \in {"bind", "announce", "check"}
  /\ doing[w].conn = c /\ doing[w].epoch = e

\* Events are about connections of the worker, and the end of a connection is
\* written when its socket has been closed.
EventInv ==
  \A w \in Serving : \A m \in Events(w) :
    /\ home[m.conn] = w
    /\ m.kind = "disconnected" => socket[m.conn] = 0
    /\ m.kind = "connected" => m.epoch = 1

EndsSoon(c) ==
  \E m \in Events(home[c]) :
    m.kind = "disconnected" /\ m.conn = c /\ m.epoch = epoch[c]

\* The connection has its socket, or its worker is going to clean up after it.
Noticed(c, e) == Live(c, e) \/ EndsSoon(c)

\* A binding is about the session the worker knows.
BoundTo(w, c, e) ==
  /\ epoch[c] = e /\ bound[c] = e
  /\ Noticed(c, e) \/ c \in leftover \/ running[w] = "stopping"

BindInv ==
  \A w \in Serving, c \in Conn, e \in 1 .. MaxEpoch : Binding(w, c, e) => BoundTo(w, c, e)

HomeInv ==
  /\ \A c \in Conn : home[c] = Nobody => socket[c] = 0 /\ epoch[c] = 0 /\ bound[c] = 0
  /\ \A c \in Conn : bound[c] > 0 /\ socket[c] = bound[c] => epoch[c] = bound[c]
  /\ \A c \in Conn : socket[c] > 0 => running[home[c]] # "down"
  /\ \A id \in stray : home[id.conn] # Nobody
  /\ \A w \in Serving : running[w] = "down" => inbox[w] = <<>> /\ doing[w] = Idle

\* The worker of the connection that has the route knows of it, or a failure has
\* left the route to its expiry.
Minded(c, e) ==
  LET w == home[c] IN
  \/ c \in leftover
  \/ running[w] # "down" /\ bound[c] = e /\ (Noticed(c, e) \/ running[w] = "stopping")
  \/ running[w] # "down" /\ doing[w].at = "bind" /\ doing[w].conn = c

MindInv ==
  \A c \in Conn, e \in 1 .. MaxEpoch :
    route = Identity(c, e) => home[c] \in Serving /\ Minded(c, e)

RouteInv ==
  /\ RouteTypeOK /\ TickTypes
  /\ EventInv /\ BindInv /\ HomeInv /\ MindInv

\* The types as single facts.
LEMMA RouteFacts ==
  ASSUME RouteInv
  PROVE  /\ owner \in Process \cup {Nobody} /\ route \in Identities
         /\ told \subseteq Conn /\ stray \subseteq Identities \ {NoRoute}
         /\ running \in [Serving -> {"up", "stopping", "down"}]
         /\ turn \in [Serving -> {"config", "ingress", "any"}]
         /\ home \in [Conn -> Serving \cup {Nobody}]
         /\ socket \in [Conn -> 0 .. MaxEpoch] /\ epoch \in [Conn -> 0 .. MaxEpoch]
         /\ bound \in [Conn -> 0 .. MaxEpoch]
         /\ served \in [Conn -> {"none", "open", "bound"}]
         /\ leftover \subseteq Conn /\ mishaps \in 0 .. MaxMishaps
         /\ inbox \in [Serving -> Seq(EventRec)] /\ DOMAIN doing = Serving
         /\ \A w \in Serving : TickOK(w, doing[w])
         /\ MaxEpoch \in Nat \ {0} /\ MaxMishaps \in Nat
BY DEF RouteInv, RouteTypeOK, TickTypes

----------------------------------------------------------------------------
(* Streams of events                                                       *)

\* Appending an event adds it to the events of the stream.
LEMMA Appended ==
  ASSUME NEW S, NEW s \in Seq(S), NEW e \in S
  PROVE  /\ Append(s, e) \in Seq(S)
         /\ Items(Append(s, e)) = Items(s) \cup {e}
<1>1. Append(s, e) \in Seq(S)
  OBVIOUS
<1>2. /\ Len(s) \in Nat /\ DOMAIN s = 1 .. Len(s) /\ DOMAIN Append(s, e) = 1 .. Len(s) + 1
      /\ \A n \in 1 .. Len(s) : Append(s, e)[n] = s[n]
      /\ Append(s, e)[Len(s) + 1] = e
  OBVIOUS
<1>3. \A n \in 1 .. Len(s) + 1 : n \in 1 .. Len(s) \/ n = Len(s) + 1
  BY <1>2
<1>4. \A n \in 1 .. Len(s) : n \in 1 .. Len(s) + 1
  BY <1>2
<1>5. Len(s) + 1 \in 1 .. Len(s) + 1
  BY <1>2
<1> QED BY ONLY <1>1, <1>2, <1>3, <1>4, <1>5, Zenon DEF Items

\* Joining two streams joins their events.
LEMMA Joined ==
  ASSUME NEW S, NEW s \in Seq(S), NEW t \in Seq(S)
  PROVE  /\ s \o t \in Seq(S)
         /\ Items(s \o t) = Items(s) \cup Items(t)
<1>1. s \o t \in Seq(S)
  OBVIOUS
<1>2. /\ Len(s) \in Nat /\ DOMAIN s = 1 .. Len(s) /\ Len(t) \in Nat /\ DOMAIN t = 1 .. Len(t)
      /\ DOMAIN (s \o t) = 1 .. Len(s) + Len(t)
      /\ \A n \in 1 .. Len(s) : (s \o t)[n] = s[n]
      /\ \A n \in 1 .. Len(t) : (s \o t)[Len(s) + n] = t[n]
  OBVIOUS
<1>3. \A n \in 1 .. Len(s) + Len(t) :
         n \in 1 .. Len(s) \/ \E m \in 1 .. Len(t) : n = Len(s) + m
  <2> SUFFICES ASSUME NEW n \in 1 .. Len(s) + Len(t), n \notin 1 .. Len(s)
               PROVE  \E m \in 1 .. Len(t) : n = Len(s) + m
    OBVIOUS
  <2>1. n - Len(s) \in 1 .. Len(t) /\ n = Len(s) + (n - Len(s))
    BY <1>2
  <2> QED BY <2>1
<1>4. /\ \A n \in 1 .. Len(s) : n \in 1 .. Len(s) + Len(t)
      /\ \A n \in 1 .. Len(t) : Len(s) + n \in 1 .. Len(s) + Len(t)
  BY <1>2
<1>5. ASSUME NEW n \in DOMAIN (s \o t)
      PROVE  (s \o t)[n] \in {s[k] : k \in DOMAIN s} \cup {t[k] : k \in DOMAIN t}
  <2>1. CASE n \in 1 .. Len(s)
    BY ONLY <1>2, <2>1, Zenon
  <2>2. CASE n \notin 1 .. Len(s)
    <3>1. PICK m \in 1 .. Len(t) : n = Len(s) + m
      BY <1>2, <1>3, <1>5, <2>2
    <3>2. (s \o t)[n] = t[m] /\ m \in DOMAIN t
      BY <1>2, <3>1
    <3> QED BY ONLY <3>2, Zenon
  <2> QED BY <2>1, <2>2
<1>6. ASSUME NEW n \in DOMAIN s
      PROVE  s[n] \in {(s \o t)[k] : k \in DOMAIN (s \o t)}
  BY ONLY <1>2, <1>4, Zenon
<1>7. ASSUME NEW n \in DOMAIN t
      PROVE  t[n] \in {(s \o t)[k] : k \in DOMAIN (s \o t)}
  BY ONLY <1>2, <1>4, Zenon
<1> QED BY ONLY <1>1, <1>5, <1>6, <1>7, Zenon DEF Items

\* Taking the first event leaves the others.
LEMMA Taken ==
  ASSUME NEW S, NEW s \in Seq(S), s # <<>>
  PROVE  /\ Head(s) \in S /\ Tail(s) \in Seq(S)
         /\ Head(s) \in Items(s) /\ Items(s) \subseteq Items(Tail(s)) \cup {Head(s)}
         /\ Items(Tail(s)) \subseteq Items(s)
<1>1. Head(s) \in S /\ Tail(s) \in Seq(S)
  OBVIOUS
<1>2. /\ Len(s) \in Nat \ {0} /\ DOMAIN s = 1 .. Len(s) /\ DOMAIN Tail(s) = 1 .. Len(s) - 1
      /\ Head(s) = s[1] /\ \A n \in 1 .. Len(s) - 1 : Tail(s)[n] = s[n + 1]
  OBVIOUS
<1>3. \A n \in 1 .. Len(s) : n = 1 \/ \E m \in 1 .. Len(s) - 1 : n = m + 1
  <2> SUFFICES ASSUME NEW n \in 1 .. Len(s), n # 1
               PROVE  \E m \in 1 .. Len(s) - 1 : n = m + 1
    OBVIOUS
  <2>1. n - 1 \in 1 .. Len(s) - 1 /\ n = (n - 1) + 1
    BY <1>2
  <2> QED BY <2>1
<1>4. 1 \in 1 .. Len(s) /\ \A n \in 1 .. Len(s) - 1 : n + 1 \in 1 .. Len(s)
  BY <1>2
<1>5. ASSUME NEW n \in DOMAIN s
      PROVE  s[n] \in {Tail(s)[k] : k \in DOMAIN Tail(s)} \cup {Head(s)}
  <2>1. CASE n = 1
    BY ONLY <1>2, <2>1, Zenon
  <2>2. CASE n # 1
    <3>1. PICK m \in 1 .. Len(s) - 1 : n = m + 1
      BY <1>2, <1>3, <1>5, <2>2
    <3>2. s[n] = Tail(s)[m] /\ m \in DOMAIN Tail(s)
      BY <1>2, <3>1
    <3> QED BY ONLY <3>2, Zenon
  <2> QED BY <2>1, <2>2
<1>6. ASSUME NEW n \in DOMAIN Tail(s)
      PROVE  Tail(s)[n] \in {s[k] : k \in DOMAIN s}
  BY ONLY <1>2, <1>4, Zenon
<1>7. Head(s) \in {s[k] : k \in DOMAIN s}
  BY ONLY <1>2, <1>4, Zenon
<1> QED BY ONLY <1>1, <1>5, <1>6, <1>7, Zenon DEF Items

----------------------------------------------------------------------------
(* Steps that leave the routes as they are                                 *)

\* Closing connections of a worker writes one event for each that was open.
LEMMA CloseEffect ==
  ASSUME RouteInv, NEW w \in Serving, NEW C \in SUBSET Conn, Close(w, C)
  PROVE  /\ socket' = [c \in Conn |-> IF c \in C THEN 0 ELSE socket[c]]
         /\ inbox' \in [Serving -> Seq(EventRec)]
         /\ \A v \in Serving : v # w => inbox'[v] = inbox[v]
         /\ Events(w)' = Events(w) \cup
              {Event("disconnected", c) : c \in {x \in C : socket[x] > 0}}
<1> DEFINE open == {c \in C : socket[c] > 0}
<1>1. socket' = [c \in Conn |-> IF c \in C THEN 0 ELSE socket[c]]
  BY DEF Close
<1>2. PICK order \in [1 .. Cardinality(open) -> open] :
        /\ \A c \in open : \E n \in DOMAIN order : order[n] = c
        /\ inbox' = [inbox EXCEPT
             ![w] = @ \o [n \in DOMAIN order |-> Event("disconnected", order[n])]]
  BY DEF Close
<1> DEFINE ends == [n \in DOMAIN order |-> Event("disconnected", order[n])]
<1>3. Cardinality(open) \in Nat
  <2>1. IsFiniteSet(Conn) /\ open \subseteq Conn
    OBVIOUS
  <2>2. IsFiniteSet(open)
    BY <2>1, FS_Subset
  <2> QED BY <2>2, FS_CardinalityType
<1>4. \A c \in open : Event("disconnected", c) \in EventRec
  BY RouteFacts DEF Event, EventRec
<1>5. ends \in Seq(EventRec) /\ Items(ends) = {Event("disconnected", c) : c \in open}
  <2> DEFINE N == Cardinality(open)
  <2>1. DOMAIN order = 1 .. N /\ DOMAIN ends = 1 .. N /\ N \in Nat
    BY <1>3
  <2>2. \A n \in 1 .. N : ends[n] = Event("disconnected", order[n]) /\ order[n] \in open
    BY <2>1
  <2>3. \A n \in 1 .. N : ends[n] \in EventRec
    BY <1>4, <2>2
  <2>4. ends = [n \in 1 .. N |-> ends[n]]
    BY <2>1
  <2> HIDE DEF ends, N
  <2>5. ends \in Seq(EventRec)
    BY <2>1, <2>3, <2>4, SMTT(40)
  <2>6. \A c \in open : \E n \in 1 .. N : order[n] = c
    BY <1>2, <2>1
  <2>7. {ends[n] : n \in DOMAIN ends} = {Event("disconnected", c) : c \in open}
    <3>1. ASSUME NEW n \in DOMAIN ends
          PROVE  ends[n] \in {Event("disconnected", c) : c \in open}
      BY ONLY <2>1, <2>2, Zenon
    <3>2. ASSUME NEW c \in open
          PROVE  Event("disconnected", c) \in {ends[n] : n \in DOMAIN ends}
      <4>1. PICK n \in 1 .. N : order[n] = c
        BY <2>6
      <4> QED BY ONLY <2>1, <2>2, <4>1, Zenon
    <3> QED BY ONLY <3>1, <3>2, Zenon
  <2> QED BY ONLY <2>5, <2>7, Zenon DEF Items
<1>6. inbox' = [inbox EXCEPT ![w] = inbox[w] \o ends]
  BY <1>2, Zenon
<1> HIDE DEF ends
<1>7. inbox[w] \in Seq(EventRec)
  BY RouteFacts
<1>8. inbox[w] \o ends \in Seq(EventRec)
      /\ Items(inbox[w] \o ends) = Items(inbox[w]) \cup Items(ends)
  BY <1>5, <1>7, Joined
<1>9. inbox'[w] = inbox[w] \o ends /\ \A v \in Serving : v # w => inbox'[v] = inbox[v]
  BY <1>6, RouteFacts
<1>10. inbox' \in [Serving -> Seq(EventRec)]
  BY <1>6, <1>8, RouteFacts
<1>11. Events(w)' = Events(w) \cup {Event("disconnected", c) : c \in open}
  BY <1>5, <1>8, <1>9, Zenon DEF Events
<1> QED BY <1>1, <1>9, <1>10, <1>11

\* A worker goes on with something that is about its own connections.
LEMMA GoesOn ==
  ASSUME RouteInv, NEW w \in Serving, NEW t, Goes(w, t), TickOK(w, t), home' = home
  PROVE  /\ DOMAIN doing' = Serving /\ (\A v \in Serving : TickOK(v, doing[v]))'
         /\ doing'[w] = t /\ \A v \in Serving : v # w => doing'[v] = doing[v]
<1>1. /\ DOMAIN doing' = Serving
      /\ doing'[w] = t /\ \A v \in Serving : v # w => doing'[v] = doing[v]
  BY RouteFacts DEF Goes
<1>2. \A v \in Serving : TickOK(v, doing'[v])
  BY <1>1, RouteFacts
<1>3. \A v \in Serving : Of(v)' = Of(v)
  BY DEF Of
<1> QED BY <1>1, <1>2, <1>3 DEF TickOK

\* Connections stay noticed when their events stay and what is closed is written.
LEMMA StillNoticed ==
  ASSUME RouteInv, NEW w \in Serving, NEW C \in SUBSET Conn, C \subseteq Of(w), Close(w, C),
         home' = home, epoch' = epoch,
         NEW c \in Conn, NEW e \in 1 .. MaxEpoch, home[c] \in Serving,
         Noticed(c, e), socket[c] = e => epoch[c] = e
  PROVE  Noticed(c, e)'
<1>1. Events(home[c]) \subseteq Events(home[c])'
  <2>1. CASE home[c] = w
    BY <2>1, CloseEffect
  <2>2. CASE home[c] # w
    BY <2>2, CloseEffect DEF Events
  <2> QED BY <2>1, <2>2
<1>2. CASE EndsSoon(c)
  BY <1>1, <1>2 DEF EndsSoon, Noticed
<1>3. CASE Live(c, e) /\ c \notin C
  BY <1>3, CloseEffect DEF Live, Noticed
<1>4. CASE Live(c, e) /\ c \in C
  <2>1. home[c] = w /\ socket[c] = e /\ e > 0 /\ epoch[c] = e
    BY <1>4 DEF Live, Of
  <2>2. Event("disconnected", c) \in Events(w)'
    BY <1>4, <2>1, CloseEffect
  <2>3. EndsSoon(c)'
    BY <2>1, <2>2 DEF EndsSoon, Event
  <2> QED BY <2>3 DEF Noticed
<1> QED BY <1>2, <1>3, <1>4 DEF Noticed

\* Nobody stops being noticed but by a failure.
NoticesStand ==
  \A c \in Conn, e \in 1 .. MaxEpoch :
    /\ home[c] \in Serving /\ Noticed(c, e) /\ (socket[c] = e => epoch[c] = e)
    => Noticed(c, e)' \/ c \in leftover'

\* Routes may be erased, workers may be told to stop, and what a worker binds it
\* goes on binding or does not.
Calm ==
  /\ UNCHANGED <<home, epoch, bound, stray>> /\ leftover \subseteq leftover'
  /\ route' = route \/ route' = NoRoute
  /\ \A v \in Serving :
       running'[v] = running[v] \/ (running[v] = "up" /\ running'[v] = "stopping")
  /\ \A v \in Serving, c \in Conn, e \in 1 .. MaxEpoch : Binding(v, c, e)' => Binding(v, c, e)
  /\ \A v \in Serving : doing[v].at = "bind" => doing'[v] = doing[v]

\* A calm step that keeps connections noticed keeps the route minded.
LEMMA StillMinded ==
  ASSUME RouteInv, NoticesStand, Calm
  PROVE  BindInv' /\ MindInv'
<1>1. ASSUME NEW v \in Serving, NEW c \in Conn, NEW e \in 1 .. MaxEpoch, Binding(v, c, e)'
      PROVE  BoundTo(v, c, e)'
  <2>1. Binding(v, c, e)
    BY <1>1 DEF Calm
  <2>2. BoundTo(v, c, e)
    BY <2>1 DEF BindInv, RouteInv
  <2>3. home[c] = v
    BY <2>1, RouteFacts DEF Binding, TickOK, Of
  <2>4. Noticed(c, e) => Noticed(c, e)' \/ c \in leftover'
    BY <2>2, <2>3 DEF NoticesStand, BoundTo
  <2>5. running[v] = "stopping" => running'[v] = "stopping"
    BY DEF Calm
  <2> QED BY <2>2, <2>4, <2>5 DEF BoundTo, Calm
<1>2. BindInv'
  BY <1>1 DEF BindInv
<1>3. ASSUME NEW c \in Conn, NEW e \in 1 .. MaxEpoch, (route = Identity(c, e))'
      PROVE  (home[c] \in Serving /\ Minded(c, e))'
  <2>1. route = Identity(c, e)
    BY <1>3 DEF Identity, NoRoute, Calm
  <2>2. home[c] \in Serving /\ Minded(c, e)
    BY <2>1 DEF MindInv, RouteInv
  <2>3. bound[c] = e /\ Noticed(c, e) => Noticed(c, e)' \/ c \in leftover'
    <3>1. bound[c] > 0 /\ socket[c] = bound[c] => epoch[c] = bound[c]
      BY DEF RouteInv, HomeInv
    <3> QED BY <2>2, <3>1 DEF NoticesStand
  <2>4. /\ running[home[c]] # "down" => running'[home[c]] # "down"
        /\ running[home[c]] = "stopping" => running'[home[c]] = "stopping"
        /\ home'[c] = home[c] /\ bound'[c] = bound[c]
        /\ doing[home[c]].at = "bind" => doing'[home[c]] = doing[home[c]]
    BY <2>2 DEF Calm
  <2> QED BY <2>2, <2>3, <2>4 DEF Minded, Calm
<1>4. MindInv'
  BY <1>3 DEF MindInv
<1> QED BY <1>2, <1>4

----------------------------------------------------------------------------
(* Types                                                                   *)

\* Closing keeps the types of sockets.
LEMMA ClosingTypes ==
  ASSUME RouteInv, NEW w \in Serving, NEW C \in SUBSET Conn, Close(w, C)
  PROVE  socket' \in [Conn -> 0 .. MaxEpoch]
BY CloseEffect, RouteFacts

\* An erased route is a route.
LEMMA ErasingTypes ==
  ASSUME RouteInv, NEW c, NEW e, Erase(c, e)
  PROVE  route' \in Identities
BY RouteFacts DEF Erase, Identities

\* The epoch of one connection changes.
LEMMA EpochTypes ==
  ASSUME NEW f \in [Conn -> 0 .. MaxEpoch], NEW c \in Conn, NEW e \in 0 .. MaxEpoch
  PROVE  [f EXCEPT ![c] = e] \in [Conn -> 0 .. MaxEpoch]
OBVIOUS

\* Every step keeps the types.
LEMMA RouteTypes ==
  ASSUME RouteInv, NextRoutes
  PROVE  RouteTypeOK'
<1> USE RouteFacts
<1>0. retained \in [Serving -> BOOLEAN]
  BY DEF RouteInv, RouteTypeOK
<1>1. ASSUME NEW w \in Serving, NEW c \in Conn, Accept(w, c)
      PROVE  RouteTypeOK'
  BY <1>0, <1>1 DEF Accept, RouteTypeOK, redisVars
<1>2. ASSUME NEW c \in Conn, EndOfFile(c)
      PROVE  RouteTypeOK'
  <2>1. home[c] \in Serving
    BY <1>2 DEF EndOfFile, RouteInv, HomeInv
  <2>2. socket' \in [Conn -> 0 .. MaxEpoch] /\ leftover' \subseteq Conn
        /\ mishaps' \in 0 .. MaxMishaps
    BY <1>2, <2>1, ClosingTypes, SMTT(40) DEF EndOfFile, Mishap
  <2> QED BY <1>0, <1>2, <2>2 DEF EndOfFile, RouteTypeOK, redisVars
<1>3. ASSUME NEW c \in Conn, Packet(c)
      PROVE  RouteTypeOK'
  BY <1>0, <1>3 DEF Packet, RouteTypeOK, redisVars, connVars
<1>4. ASSUME NEW w \in Serving, Bind(w)
      PROVE  RouteTypeOK'
  <2>1. doing[w].conn \in Conn /\ doing[w].epoch \in 1 .. MaxEpoch
    BY <1>4 DEF Bind, Is, TickOK, Of
  <2>2. Identity(doing[w].conn, doing[w].epoch) \in Identities \ {NoRoute}
    BY <2>1 DEF Identity, Identities, NoRoute
  <2>3. route' \in Identities /\ stray' \subseteq Identities \ {NoRoute}
        /\ leftover' \subseteq Conn /\ mishaps' \in 0 .. MaxMishaps
    BY <1>4, <2>1, <2>2 DEF Bind, Mishap
  <2> QED BY <1>0, <1>4, <2>3 DEF Bind, RouteTypeOK, connVars
<1>5. ASSUME NEW id \in stray, BindLate(id)
      PROVE  RouteTypeOK'
  <2>1. id \in Identities \ {NoRoute} /\ id.conn \in Conn
    BY DEF Identities, NoRoute
  <2> QED BY <1>0, <1>5, <2>1 DEF BindLate, RouteTypeOK, connVars
<1>6. ASSUME NEW w \in Serving, Announce(w)
      PROVE  RouteTypeOK'
  <2>1. socket' \in [Conn -> 0 .. MaxEpoch] /\ told' \subseteq Conn
        /\ mishaps' \in 0 .. MaxMishaps
    <3>1. doing[w].old \in Conn \cup {Nobody}
      BY <1>6 DEF Announce, Is, TickOK
    <3>2. CASE UNCHANGED socket
      BY <1>6, <3>1, <3>2 DEF Announce, Mishap
    <3>3. CASE doing[w].old # Nobody /\ Close(w, {doing[w].old}) /\ UNCHANGED <<told, mishaps>>
      BY <3>1, <3>3, ClosingTypes
    <3> QED BY <1>6, <3>2, <3>3 DEF Announce
  <2> QED BY <1>0, <1>6, <2>1 DEF Announce, RouteTypeOK
<1>7. ASSUME NEW w \in Serving, Check(w)
      PROVE  RouteTypeOK'
  <2>1. doing[w].conn \in Conn
    BY <1>7 DEF Check, Is, TickOK, Of
  <2>2. route' \in Identities /\ leftover' \subseteq Conn /\ mishaps' \in 0 .. MaxMishaps
    BY <1>7, <2>1, ErasingTypes DEF Check, EraseOrLeave, Mishap
  <2> QED BY <1>0, <1>7, <2>2 DEF Check, RouteTypeOK, connVars
<1>8. ASSUME NEW w \in Serving, TakeIngress(w)
      PROVE  RouteTypeOK'
  <2>1. Head(inbox[w]) \in EventRec
    BY <1>8, Taken DEF TakeIngress
  <2>2. /\ route' \in Identities /\ epoch' \in [Conn -> 0 .. MaxEpoch]
        /\ bound' \in [Conn -> 0 .. MaxEpoch] /\ served' \in [Conn -> {"none", "open", "bound"}]
        /\ leftover' \subseteq Conn /\ mishaps' \in 0 .. MaxMishaps
    <3> DEFINE h == Head(inbox[w])
    <3>1. PICK m \in EventRec : m = Head(inbox[w])
      BY <2>1
    <3>2. m.conn \in Conn /\ m.epoch \in 1 .. MaxEpoch
      BY DEF EventRec
    <3>0. 0 \in 0 .. MaxEpoch
      OBVIOUS
    <3>3. CASE TakeConnected(w, m)
      <4>1. \/ UNCHANGED <<epoch, served>>
            \/ /\ epoch' = [epoch EXCEPT ![m.conn] = m.epoch]
               /\ served' = [served EXCEPT ![m.conn] = "open"]
        BY ONLY <3>3, Zenon DEF TakeConnected
      <4>2. epoch' \in [Conn -> 0 .. MaxEpoch]
        <5>1. m.epoch \in 0 .. MaxEpoch
          BY <3>2
        <5> QED BY ONLY <3>2, <4>1, <5>1, RouteInv, RouteFacts, EpochTypes,
                   Zenon
      <4>3. served' \in [Conn -> {"none", "open", "bound"}]
        BY <3>2, <4>1
      <4> QED BY <3>3, <4>2, <4>3 DEF TakeConnected
    <3>4. CASE TakePacket(w, m)
      <4>1. bound' = bound \/ bound' = [bound EXCEPT ![m.conn] = m.epoch]
        BY ONLY <3>4, Zenon DEF TakePacket, StartBind
      <4>2. served' = served \/ served' = [served EXCEPT ![m.conn] = "bound"]
        BY ONLY <3>4, Zenon DEF TakePacket
      <4>3. bound' \in [Conn -> 0 .. MaxEpoch]
        <5>1. m.epoch \in 0 .. MaxEpoch
          BY ONLY <3>2
        <5> QED BY ONLY <3>2, <4>1, <5>1, RouteInv, RouteFacts, EpochTypes,
                   Zenon
      <4>4. served' \in [Conn -> {"none", "open", "bound"}]
        BY <3>2, <4>2
      <4> QED BY <3>4, <4>3, <4>4 DEF TakePacket
    <3>5. CASE TakeDisconnected(w, m)
      <4>1. route' = route \/ Erase(m.conn, bound[m.conn])
        BY ONLY <3>5, Zenon DEF TakeDisconnected
      <4>2. route' \in Identities
        BY <4>1, ErasingTypes
      <4>3. \/ UNCHANGED <<epoch, served>>
            \/ /\ epoch' = [epoch EXCEPT ![m.conn] = 0]
               /\ served' = [served EXCEPT ![m.conn] = "none"]
        BY ONLY <3>5, Zenon DEF TakeDisconnected
      <4>4. /\ bound' = bound \/ bound' = [bound EXCEPT ![m.conn] = 0]
            /\ leftover' = leftover \/ leftover' = leftover \cup {m.conn}
            /\ mishaps' = mishaps \/ Mishap
        BY ONLY <3>5, Zenon DEF TakeDisconnected
      <4>5. epoch' \in [Conn -> 0 .. MaxEpoch]
        BY ONLY <3>0, <3>2, <4>3, RouteInv, RouteFacts, EpochTypes, Zenon
      <4>6. served' \in [Conn -> {"none", "open", "bound"}]
        BY <3>2, <4>3
      <4>7. bound' \in [Conn -> 0 .. MaxEpoch]
        BY ONLY <3>0, <3>2, <4>4, RouteInv, RouteFacts, EpochTypes, ZenonT(40)
      <4>9. leftover' \subseteq Conn
        BY ONLY <3>2, <4>4, RouteInv, RouteFacts
      <4>8. mishaps' \in 0 .. MaxMishaps
        BY <4>4 DEF Mishap
      <4> QED BY <4>2, <4>5, <4>6, <4>7, <4>8, <4>9
    <3> QED BY <1>8, <3>1, <3>3, <3>4, <3>5 DEF TakeIngress
  <2>3. turn' \in [Serving -> {"config", "ingress", "any"}]
    BY <1>8 DEF TakeIngress
  <2> QED BY <1>0, <1>8, <2>2, <2>3 DEF TakeIngress, RouteTypeOK
<1>9. ASSUME NEW w \in Serving, TakeControl(w)
      PROVE  RouteTypeOK'
  <2>1. socket' \in [Conn -> 0 .. MaxEpoch] /\ told' \subseteq Conn
    BY <1>9, ClosingTypes DEF TakeControl
  <2> QED BY <1>0, <1>9, <2>1 DEF TakeControl, RouteTypeOK
<1>10. ASSUME NEW w \in Serving, CloseUnowned(w)
       PROVE  RouteTypeOK'
  <2>1. socket' \in [Conn -> 0 .. MaxEpoch]
    BY <1>10, ClosingTypes DEF CloseUnowned, Of
  <2> QED BY <1>0, <1>10, <2>1 DEF CloseUnowned, RouteTypeOK, redisVars
<1>11. ASSUME NEW w \in Serving, ConfigIsDue(w)
       PROVE  RouteTypeOK'
  BY <1>0, <1>11 DEF ConfigIsDue, RouteTypeOK, redisVars, connVars
<1>12. ASSUME NEW w \in Serving, Retain(w)
       PROVE  RouteTypeOK'
  <2>1. retained' \in [Serving -> BOOLEAN]
    BY <1>0, <1>12, Zenon DEF Retain
  <2>2. ProcessOf[w] \in Process
    OBVIOUS
  <2>3. owner' \in Process \cup {Nobody} /\ socket' \in [Conn -> 0 .. MaxEpoch]
        /\ served' \in [Conn -> {"none", "open", "bound"}]
    <3>1. CASE UNCHANGED <<inbox, socket, served>> /\ owner' = ProcessOf[w]
      BY <2>2, <3>1
    <3>2. CASE /\ UNCHANGED owner /\ Close(w, Of(w))
               /\ served' = [c \in Conn |-> IF home[c] = w THEN "none" ELSE served[c]]
      BY <3>2, ClosingTypes DEF Of
    <3> QED BY <1>12, <3>1, <3>2 DEF Retain
  <2>4. turn' \in [Serving -> {"config", "ingress", "any"}]
    BY <1>12 DEF Retain
  <2> QED BY <1>12, <2>1, <2>3, <2>4 DEF Retain, RouteTypeOK
<1>13. ASSUME NEW w \in Serving, NEW c \in Conn, RefreshSession(w, c)
       PROVE  RouteTypeOK'
  <2>1. socket[c] + 1 \in 1 .. MaxEpoch
    BY <1>13 DEF RefreshSession
  <2>2. socket' \in [Conn -> 0 .. MaxEpoch] /\ epoch' \in [Conn -> 0 .. MaxEpoch]
        /\ mishaps' \in 0 .. MaxMishaps
    BY <1>13, <2>1 DEF RefreshSession, Mishap
  <2>3. route' \in Identities /\ bound' \in [Conn -> 0 .. MaxEpoch]
        /\ served' \in [Conn -> {"none", "open", "bound"}]
    <3>1. CASE StartBind(w, c, socket[c] + 1) /\ UNCHANGED <<route, served>>
      BY <2>1, <3>1 DEF StartBind
    <3>2. CASE /\ served' = [served EXCEPT ![c] = "open"]
               /\ Erase(c, bound[c]) /\ bound' = [bound EXCEPT ![c] = 0]
      BY <3>2, ErasingTypes
    <3> QED BY <1>13, <3>1, <3>2 DEF RefreshSession
  <2> QED BY <1>0, <1>13, <2>2, <2>3 DEF RefreshSession, RouteTypeOK
<1>14. ASSUME NEW w \in Serving, Renew(w)
       PROVE  RouteTypeOK'
  <2>1. mishaps' = mishaps \/ Mishap
    BY ONLY <1>14, Zenon DEF Renew
  <2>2. mishaps' \in 0 .. MaxMishaps
    BY <2>1 DEF Mishap
  <2> QED BY <1>0, <1>14, <2>2 DEF Renew, RouteTypeOK, redisVars, connVars
<1>15. ASSUME NEW w \in Serving, AfterRenew(w)
       PROVE  RouteTypeOK'
  <2>1. doing[w].conn \in Conn
    BY <1>15 DEF AfterRenew, Is, TickOK, Of
  <2>2. route' \in Identities /\ leftover' \subseteq Conn /\ mishaps' \in 0 .. MaxMishaps
        /\ socket' \in [Conn -> 0 .. MaxEpoch]
    <3>1. CASE UNCHANGED <<route, leftover, mishaps>> /\ Close(w, {doing[w].conn})
      BY <2>1, <3>1, ClosingTypes
    <3>2. CASE UNCHANGED <<route, leftover, mishaps, socket>>
      BY <3>2
    <3>3. CASE EraseOrLeave(doing[w].conn, bound[doing[w].conn]) /\ UNCHANGED socket
      BY <2>1, <3>3, ErasingTypes DEF EraseOrLeave, Mishap
    <3> QED BY <1>15, <3>1, <3>2, <3>3 DEF AfterRenew
  <2> QED BY <1>0, <1>15, <2>2 DEF AfterRenew, RouteTypeOK
<1>16. CASE Expire
  BY <1>0, <1>16, SMTT(40) DEF Expire, Mishap, RouteTypeOK, connVars, Identities
<1>17. CASE OwnerExpires
  BY <1>0, <1>17, SMTT(40) DEF OwnerExpires, Mishap, RouteTypeOK, connVars
<1>18. ASSUME NEW w \in Serving, StopWorker(w)
       PROVE  RouteTypeOK'
  BY <1>0, <1>18 DEF StopWorker, Mishap, RouteTypeOK, connVars, redisVars
<1>19. ASSUME NEW w \in Serving, WorkerStopped(w)
       PROVE  RouteTypeOK'
  <2>1. route' \in Identities /\ leftover' \subseteq Conn /\ mishaps' \in 0 .. MaxMishaps
    <3>1. CASE /\ route.conn \in Of(w)
               /\ EraseOrLeave(route.conn, bound[route.conn])
      BY <3>1, ErasingTypes DEF EraseOrLeave, Mishap, Of
    <3>2. CASE /\ leftover' = leftover \cup
                     {c \in {route.conn} : doing[w].at = "bind" /\ doing[w].conn = c}
               /\ UNCHANGED <<route, mishaps>>
      <4>1. doing[w].at = "bind" => doing[w].conn \in Conn
        BY DEF TickOK, Of
      <4> QED BY <3>2, <4>1
    <3> QED BY <1>19, <3>1, <3>2 DEF WorkerStopped
  <2>2. /\ bound' \in [Conn -> 0 .. MaxEpoch] /\ socket' \in [Conn -> 0 .. MaxEpoch]
        /\ running' \in [Serving -> {"up", "stopping", "down"}]
        /\ turn' \in [Serving -> {"config", "ingress", "any"}]
    BY <1>19 DEF WorkerStopped
  <2> QED BY <1>0, <1>19, <2>1, <2>2 DEF WorkerStopped, RouteTypeOK
<1>20. ASSUME NEW p \in Process, Die(p)
       PROVE  RouteTypeOK'
  <2>1. /\ running' \in [Serving -> {"up", "stopping", "down"}]
        /\ turn' \in [Serving -> {"config", "ingress", "any"}]
        /\ socket' \in [Conn -> 0 .. MaxEpoch] /\ leftover' \subseteq Conn
        /\ mishaps' \in 0 .. MaxMishaps
    BY <1>20 DEF Die, Mishap
  <2> QED BY <1>0, <1>20, <2>1 DEF Die, RouteTypeOK, redisVars
<1> QED BY <1>1, <1>2, <1>3, <1>4, <1>5, <1>6, <1>7, <1>8, <1>9, <1>10, <1>11,
           <1>12, <1>13,
           <1>14, <1>15, <1>16, <1>17, <1>18, <1>19, <1>20 DEF NextRoutes, Tick, Advance

----------------------------------------------------------------------------
(* Calm steps                                                              *)

\* What sockets, streams and ticks do in a calm step.
LEMMA CalmKeepsAll ==
  ASSUME RouteInv, RouteTypeOK', Calm, NoticesStand, TickTypes', EventInv',
         \A c \in Conn : socket'[c] \in {0, socket[c]},
         \A v \in Serving : running[v] = "down" => inbox'[v] = inbox[v] /\ doing'[v] = doing[v]
  PROVE  RouteInv'
<1>1. BindInv' /\ MindInv'
  BY StillMinded
<1>2. HomeInv
  BY DEF RouteInv
<1>3. \A c \in Conn : socket'[c] > 0 => running'[home[c]] # "down"
  <2> SUFFICES ASSUME NEW c \in Conn, socket'[c] > 0
               PROVE  running'[home[c]] # "down"
    OBVIOUS
  <2>1. socket[c] > 0
    <3>1. socket'[c] = 0 \/ socket'[c] = socket[c]
      OBVIOUS
    <3> QED BY <3>1
  <2>2. home[c] # Nobody /\ running[home[c]] # "down"
    BY <1>2, <2>1 DEF HomeInv
  <2>3. home[c] \in Serving
    BY <2>2, RouteFacts
  <2> QED BY <2>2, <2>3 DEF Calm
<1>4. \A v \in Serving : running'[v] = "down" => inbox'[v] = <<>> /\ doing'[v] = Idle
  BY <1>2 DEF Calm, HomeInv
<1>5. \A c \in Conn : home[c] = Nobody => socket'[c] = 0
  BY <1>2 DEF HomeInv
<1>6. \A c \in Conn : bound[c] > 0 /\ socket'[c] = bound[c] => epoch[c] = bound[c]
  BY <1>2, RouteFacts DEF HomeInv
<1>7. HomeInv'
  BY <1>2, <1>3, <1>4, <1>5, <1>6 DEF HomeInv, Calm
<1> QED BY <1>1, <1>7 DEF RouteInv

\* Streams and sockets that stay as they are.
LEMMA SameStreams ==
  ASSUME RouteInv, UNCHANGED <<home, socket, epoch, inbox>>
  PROVE  /\ NoticesStand /\ EventInv' /\ inbox' \in [Serving -> Seq(EventRec)]
         /\ \A c \in Conn : socket'[c] \in {0, socket[c]}
<1>1. \A w \in Serving : Events(w)' = Events(w)
  BY DEF Events
<1>2. EventInv'
  BY <1>1 DEF EventInv, RouteInv
<1>3. NoticesStand
  BY <1>1 DEF NoticesStand, Noticed, Live, EndsSoon
<1> QED BY <1>2, <1>3, RouteFacts

\* Streams and sockets when connections of a worker are closed.
LEMMA ClosedStreams ==
  ASSUME RouteInv, NEW w \in Serving, NEW C \in SUBSET Conn, C \subseteq Of(w), Close(w, C),
         UNCHANGED <<home, epoch>>
  PROVE  /\ NoticesStand /\ EventInv' /\ inbox' \in [Serving -> Seq(EventRec)]
         /\ \A c \in Conn : socket'[c] \in {0, socket[c]}
         /\ \A v \in Serving : v # w => inbox'[v] = inbox[v]
<1>1. NoticesStand
  BY StillNoticed DEF NoticesStand
<1>2. ASSUME NEW v \in Serving, NEW m \in Events(v)'
      PROVE  /\ home[m.conn] = v
             /\ m.kind = "disconnected" => socket'[m.conn] = 0
             /\ m.kind = "connected" => m.epoch = 1
  <2>1. CASE m \in Events(v)
    <3>1. /\ home[m.conn] = v
          /\ m.kind = "disconnected" => socket[m.conn] = 0
          /\ m.kind = "connected" => m.epoch = 1
      BY <2>1 DEF EventInv, RouteInv
    <3>2. m.conn \in Conn
      <4>1. Events(v) \subseteq EventRec
        BY RouteFacts DEF Events, Items
      <4> QED BY <2>1, <4>1 DEF EventRec
    <3>3. \A x \in Conn : socket'[x] = 0 \/ socket'[x] = socket[x]
      BY CloseEffect
    <3> QED BY ONLY <3>1, <3>2, <3>3, Zenon
  <2>2. CASE m \notin Events(v)
    <3>1. v = w
      BY <1>2, <2>2, CloseEffect DEF Events
    <3>2. PICK c \in C : m = Event("disconnected", c)
      BY <1>2, <2>2, <3>1, CloseEffect
    <3>3. home[c] = w /\ m.conn = c /\ m.kind = "disconnected"
      BY <3>2 DEF Event, Of
    <3>4. socket'[c] = 0
      BY CloseEffect
    <3>5. home[m.conn] = v /\ socket'[m.conn] = 0
      BY ONLY <3>1, <3>3, <3>4, Zenon
    <3>6. ~(m.kind = "connected")
      BY ONLY <3>3
    <3> QED BY ONLY <3>5, <3>6, Zenon
  <2> QED BY <2>1, <2>2
<1>3. EventInv'
  BY <1>2 DEF EventInv
<1> QED BY <1>1, <1>3, CloseEffect, RouteFacts

\* A worker that goes on as it did.
LEMMA SameTicks ==
  ASSUME RouteInv, UNCHANGED <<home, doing>>
  PROVE  /\ DOMAIN doing' = Serving /\ (\A v \in Serving : TickOK(v, doing[v]))'
         /\ \A v \in Serving, c \in Conn, e \in 1 .. MaxEpoch :
              Binding(v, c, e)' => Binding(v, c, e)
<1>1. \A v \in Serving : Of(v)' = Of(v)
  BY DEF Of
<1> QED BY <1>1, RouteFacts DEF TickOK, Binding

\* The peer closes.
LEMMA EndOfFileKeepsAll ==
  ASSUME RouteInv, RouteTypeOK', NEW c \in Conn, EndOfFile(c)
  PROVE  RouteInv'
<1>1. home[c] \in Serving /\ running[home[c]] = "up" /\ socket[c] > 0 /\ {c} \subseteq Of(home[c])
  BY RouteFacts DEF EndOfFile, RouteInv, HomeInv, Of
<1>2. UNCHANGED <<owner, route, told, stray, running, retained, turn, doing, home, epoch, served,
                  bound>>
  BY DEF EndOfFile, redisVars
<1>3. CASE Close(home[c], {c}) /\ UNCHANGED <<leftover, mishaps>>
  <2>1. /\ NoticesStand /\ EventInv' /\ inbox' \in [Serving -> Seq(EventRec)]
        /\ \A x \in Conn : socket'[x] \in {0, socket[x]}
        /\ \A v \in Serving : v # home[c] => inbox'[v] = inbox[v]
    BY <1>1, <1>2, <1>3, ClosedStreams
  <2>2. TickTypes'
    BY <1>2, <2>1, SameTicks DEF TickTypes
  <2>3. Calm
    BY <1>2, <1>3, SameTicks DEF Calm
  <2> QED BY <1>1, <1>2, <2>1, <2>2, <2>3, CalmKeepsAll
<1>4. CASE /\ leftover' = leftover \cup {c}
           /\ socket' = [socket EXCEPT ![c] = 0] /\ UNCHANGED inbox
  <2>1. \A w \in Serving : Events(w)' = Events(w)
    BY <1>4 DEF Events
  <2>2. /\ \A x \in Conn : socket'[x] \in {0, socket[x]}
        /\ \A x \in Conn : x # c => socket'[x] = socket[x]
    BY <1>4, RouteFacts
  <2>3. EventInv'
    <3>1. \A w \in Serving : Events(w) \subseteq EventRec
      BY RouteFacts DEF Events, Items
    <3> QED BY <1>2, <2>1, <2>2, <3>1 DEF EventInv, RouteInv, EventRec
  <2>4. NoticesStand
    BY <1>2, <1>4, <2>1, <2>2 DEF NoticesStand, Noticed, Live, EndsSoon
  <2>5. TickTypes'
    BY <1>2, <1>4, SameTicks, RouteFacts DEF TickTypes
  <2>6. Calm
    BY <1>2, <1>4, SameTicks DEF Calm
  <2> QED BY <1>2, <1>4, <2>2, <2>3, <2>4, <2>5, <2>6, CalmKeepsAll
<1> QED BY <1>3, <1>4 DEF EndOfFile

\* The device sends a packet.
LEMMA PacketKeepsAll ==
  ASSUME RouteInv, RouteTypeOK', NEW c \in Conn, Packet(c)
  PROVE  RouteInv'
<1>0. home[c] \in Serving /\ running[home[c]] = "up" /\ socket[c] > 0
  BY RouteFacts DEF Packet, RouteInv, HomeInv
<1>1. PICK w \in Serving : w = home[c] /\ running[w] = "up" /\ socket[c] > 0
  BY <1>0
<1>2. /\ UNCHANGED <<owner, route, told, stray, running, retained, turn, doing, home, epoch, served,
                     bound, socket, leftover, mishaps>>
      /\ inbox' = [inbox EXCEPT ![w] = Append(inbox[w], Event("packet", c))]
  BY <1>1 DEF Packet, redisVars, connVars
<1>3. Event("packet", c) \in EventRec
  BY <1>1, RouteFacts DEF Event, EventRec
<1>4. /\ inbox' \in [Serving -> Seq(EventRec)]
      /\ \A v \in Serving : v # w => inbox'[v] = inbox[v]
      /\ inbox'[w] = Append(inbox[w], Event("packet", c))
      /\ inbox[w] \in Seq(EventRec)
  BY <1>1, <1>2, <1>3, RouteFacts, Appended
<1>5. Events(w)' = Events(w) \cup {Event("packet", c)}
  <2>1. Items(Append(inbox[w], Event("packet", c)))
          = Items(inbox[w]) \cup {Event("packet", c)}
    BY <1>3, <1>4, Appended
  <2> QED BY <1>2, <1>4, <2>1 DEF Events
<1>6. \A v \in Serving : v # w => Events(v)' = Events(v)
  BY <1>4 DEF Events
<1>7. /\ Event("packet", c).kind = "packet" /\ Event("packet", c).conn = c
  BY DEF Event
<1>8. EventInv'
  <2>1. ASSUME NEW v \in Serving, NEW m \in Events(v)'
        PROVE  /\ home[m.conn] = v
               /\ m.kind = "disconnected" => socket[m.conn] = 0
               /\ m.kind = "connected" => m.epoch = 1
    <3>1. CASE m \in Events(v)
      BY <3>1 DEF EventInv, RouteInv
    <3>2. CASE m \notin Events(v)
      <4>1. v = w /\ m = Event("packet", c)
        BY <1>5, <1>6, <2>1, <3>2
      <4> QED BY <1>1, <1>7, <4>1
    <3> QED BY <3>1, <3>2
  <2> QED BY <1>2, <2>1 DEF EventInv
<1>9. NoticesStand
  <2>1. \A x \in Conn, e \in 1 .. MaxEpoch :
          home[x] \in Serving /\ Noticed(x, e) => Noticed(x, e)'
    <3>1. \A v \in Serving : Events(v) \subseteq Events(v)'
      BY <1>5, <1>6
    <3> QED BY <1>2, <3>1 DEF Noticed, Live, EndsSoon
  <2> QED BY <2>1 DEF NoticesStand
<1>10. TickTypes'
  BY <1>2, <1>4, SameTicks DEF TickTypes
<1>11. Calm
  BY <1>2, SameTicks DEF Calm
<1>12. \A x \in Conn : socket'[x] \in {0, socket[x]}
  BY <1>2
<1>13. \A v \in Serving : running[v] = "down" => inbox'[v] = inbox[v] /\ doing'[v] = doing[v]
  BY <1>1, <1>2, <1>4
<1> QED BY <1>8, <1>9, <1>10, <1>11, <1>12, <1>13, CalmKeepsAll

\* A connection is closed because another worker says so.
LEMMA TakeControlKeepsAll ==
  ASSUME RouteInv, RouteTypeOK', NEW w \in Serving, TakeControl(w)
  PROVE  RouteInv'
<1>1. PICK c \in told \cap Of(w) : Close(w, {c})
  BY DEF TakeControl
<1>2. UNCHANGED <<route, stray, running, doing, home, epoch, bound, leftover>>
  BY DEF TakeControl
<1>3. {c} \subseteq Of(w) /\ {c} \in SUBSET Conn
  BY DEF Of
<1>4. running[w] # "down"
  BY DEF TakeControl, IsIdle
<1>5. /\ NoticesStand /\ EventInv' /\ inbox' \in [Serving -> Seq(EventRec)]
      /\ \A x \in Conn : socket'[x] \in {0, socket[x]}
      /\ \A v \in Serving : v # w => inbox'[v] = inbox[v]
  BY <1>1, <1>2, <1>3, ClosedStreams
<1>6. TickTypes'
  BY <1>2, <1>5, SameTicks DEF TickTypes
<1>7. Calm
  BY <1>2, SameTicks DEF Calm
<1> QED BY <1>2, <1>4, <1>5, <1>6, <1>7, CalmKeepsAll

\* A connection is closed because its process has lost the link.
LEMMA CloseUnownedKeepsAll ==
  ASSUME RouteInv, RouteTypeOK', NEW w \in Serving, CloseUnowned(w)
  PROVE  RouteInv'
<1>1. PICK c \in Of(w) : Close(w, {c})
  BY DEF CloseUnowned
<1>2. UNCHANGED <<route, stray, running, doing, home, epoch, bound, leftover>>
  BY DEF CloseUnowned, redisVars
<1>3. {c} \subseteq Of(w) /\ {c} \in SUBSET Conn
  BY DEF Of
<1>4. running[w] # "down"
  BY DEF CloseUnowned, IsIdle
<1>5. /\ NoticesStand /\ EventInv' /\ inbox' \in [Serving -> Seq(EventRec)]
      /\ \A x \in Conn : socket'[x] \in {0, socket[x]}
      /\ \A v \in Serving : v # w => inbox'[v] = inbox[v]
  BY <1>1, <1>2, <1>3, ClosedStreams
<1>6. TickTypes'
  BY <1>2, <1>5, SameTicks DEF TickTypes
<1>7. Calm
  BY <1>2, SameTicks DEF Calm
<1> QED BY <1>2, <1>4, <1>5, <1>6, <1>7, CalmKeepsAll

\* What keeps streams, sockets, homes and bindings.
Quiet ==
  /\ UNCHANGED <<home, epoch, bound, stray, socket, inbox>> /\ leftover \subseteq leftover'
  /\ route' = route \/ route' = NoRoute
  /\ \A v \in Serving :
       running'[v] = running[v] \/ (running[v] = "up" /\ running'[v] = "stopping")

\* A quiet step in which one worker goes on, or none.
LEMMA QuietKeepsAll ==
  ASSUME RouteInv, RouteTypeOK', Quiet, UNCHANGED doing
  PROVE  RouteInv'
<1>1. /\ NoticesStand /\ EventInv' /\ inbox' \in [Serving -> Seq(EventRec)]
      /\ \A c \in Conn : socket'[c] \in {0, socket[c]}
  BY SameStreams DEF Quiet
<1>2. TickTypes' /\ Calm
  BY <1>1, SameTicks DEF TickTypes, Calm, Quiet
<1>3. \A v \in Serving : running[v] = "down" => inbox'[v] = inbox[v] /\ doing'[v] = doing[v]
  BY DEF Quiet
<1> QED BY <1>1, <1>2, <1>3, CalmKeepsAll

\* What the worker goes on with is about a connection it is binding already, or
\* about none.
Follows(w, t) ==
  /\ TickOK(w, t)
  /\ t.at \in {"announce", "check"} =>
       /\ doing[w].at \in {"bind", "announce", "check"}
       /\ t.conn = doing[w].conn /\ t.epoch = doing[w].epoch
  /\ t.at # "bind" /\ doing[w].at # "bind"

\* Such a worker binds nothing else, and the others go on as they did.
LEMMA FollowingTicks ==
  ASSUME RouteInv, NEW w \in Serving, NEW t, Goes(w, t), Follows(w, t), home' = home
  PROVE  /\ DOMAIN doing' = Serving /\ (\A v \in Serving : TickOK(v, doing[v]))'
         /\ \A v \in Serving : v # w => doing'[v] = doing[v]
         /\ \A v \in Serving, c \in Conn, e \in 1 .. MaxEpoch :
              Binding(v, c, e)' => Binding(v, c, e)
         /\ \A v \in Serving : doing[v].at = "bind" => doing'[v] = doing[v]
<1>1. /\ DOMAIN doing' = Serving /\ (\A v \in Serving : TickOK(v, doing[v]))'
      /\ doing'[w] = t /\ \A v \in Serving : v # w => doing'[v] = doing[v]
  BY GoesOn DEF Follows
<1>2. ASSUME NEW v \in Serving, NEW c \in Conn, NEW e \in 1 .. MaxEpoch, Binding(v, c, e)'
      PROVE  Binding(v, c, e)
  <2>1. CASE v = w
    BY <1>1, <1>2, <2>1 DEF Binding, Follows
  <2>2. CASE v # w
    BY <1>1, <1>2, <2>2 DEF Binding
  <2> QED BY <2>1, <2>2
<1>3. ASSUME NEW v \in Serving, doing[v].at = "bind"
      PROVE  doing'[v] = doing[v]
  BY <1>1, <1>3 DEF Follows
<1> QED BY <1>1, <1>2, <1>3

\* A quiet step in which a worker goes on.
LEMMA FollowingKeepsAll ==
  ASSUME RouteInv, RouteTypeOK', Quiet, NEW w \in Serving, running[w] # "down",
         NEW t, Goes(w, t), Follows(w, t)
  PROVE  RouteInv'
<1>1. /\ NoticesStand /\ EventInv' /\ inbox' \in [Serving -> Seq(EventRec)]
      /\ \A c \in Conn : socket'[c] \in {0, socket[c]}
  BY SameStreams DEF Quiet
<1>2. TickTypes' /\ Calm
  BY <1>1, FollowingTicks DEF TickTypes, Calm, Quiet
<1>3. \A v \in Serving : running[v] = "down" => inbox'[v] = inbox[v] /\ doing'[v] = doing[v]
  BY FollowingTicks DEF Quiet
<1> QED BY <1>1, <1>2, <1>3, CalmKeepsAll

\* A step in which a worker goes on and closes connections of its own.
LEMMA ClosingKeepsAll ==
  ASSUME RouteInv, RouteTypeOK', NEW w \in Serving, running[w] # "down",
         NEW C \in SUBSET Conn, C \subseteq Of(w), Close(w, C),
         UNCHANGED <<home, epoch, bound, stray, leftover, route, running>>,
         NEW t, Goes(w, t), Follows(w, t)
  PROVE  RouteInv'
<1>1. /\ NoticesStand /\ EventInv' /\ inbox' \in [Serving -> Seq(EventRec)]
      /\ \A c \in Conn : socket'[c] \in {0, socket[c]}
      /\ \A v \in Serving : v # w => inbox'[v] = inbox[v]
  BY ClosedStreams
<1>2. TickTypes'
  BY <1>1, FollowingTicks DEF TickTypes
<1>3. Calm
  BY FollowingTicks DEF Calm
<1>4. \A v \in Serving : running[v] = "down" => inbox'[v] = inbox[v] /\ doing'[v] = doing[v]
  BY <1>1, FollowingTicks
<1> QED BY <1>1, <1>2, <1>3, <1>4, CalmKeepsAll

\* Time, and a worker that is told to stop.
LEMMA TimeKeepsAll ==
  ASSUME RouteInv, RouteTypeOK',
         Expire \/ OwnerExpires \/ \E w \in Serving : StopWorker(w) \/ ConfigIsDue(w)
  PROVE  RouteInv'
<1>1. Quiet /\ UNCHANGED doing
  <2>1. CASE Expire
    BY <2>1 DEF Expire, Quiet, connVars
  <2>2. CASE OwnerExpires
    BY <2>2 DEF OwnerExpires, Quiet, connVars
  <2>3. ASSUME NEW w \in Serving, StopWorker(w)
        PROVE  Quiet /\ UNCHANGED doing
    BY <2>3, RouteFacts DEF StopWorker, Quiet, connVars, redisVars
  <2>4. ASSUME NEW w \in Serving, ConfigIsDue(w)
        PROVE  Quiet /\ UNCHANGED doing
    BY <2>4 DEF ConfigIsDue, Quiet, connVars, redisVars
  <2> QED BY <2>1, <2>2, <2>3, <2>4
<1> QED BY <1>1, QuietKeepsAll

\* What has been bound before is closed, or somebody is told to.
LEMMA AnnounceKeepsAll ==
  ASSUME RouteInv, RouteTypeOK', NEW w \in Serving, Announce(w)
  PROVE  RouteInv'
<1>1. running[w] # "down" /\ doing[w].at = "announce" /\ TickOK(w, doing[w])
  BY RouteFacts DEF Announce, Is
<1>2. UNCHANGED <<route, stray, running, home, epoch, bound, leftover>>
  BY DEF Announce
<1>3. PICK t : t = [at |-> "check", conn |-> doing[w].conn, epoch |-> doing[w].epoch]
  OBVIOUS
<1>4. Follows(w, t) /\ Follows(w, Idle)
  BY <1>1, <1>3 DEF Follows, TickOK, Idle
<1>5. CASE Goes(w, t) /\ UNCHANGED <<inbox, socket>>
  BY <1>1, <1>2, <1>4, <1>5, FollowingKeepsAll DEF Quiet
<1>6. CASE Goes(w, Idle) /\ UNCHANGED <<inbox, socket>>
  BY <1>1, <1>2, <1>4, <1>6, FollowingKeepsAll DEF Quiet
<1>7. CASE /\ doing[w].old # Nobody /\ home[doing[w].old] = w
           /\ Goes(w, t) /\ Close(w, {doing[w].old})
  <2>1. doing[w].old \in Conn
    BY <1>1, <1>7 DEF TickOK
  <2>2. {doing[w].old} \in SUBSET Conn /\ {doing[w].old} \subseteq Of(w)
    BY <1>7, <2>1 DEF Of
  <2> QED BY <1>1, <1>2, <1>4, <1>7, <2>2, ClosingKeepsAll
<1> QED BY <1>3, <1>5, <1>6, <1>7 DEF Announce

\* An erased route is no route.
LEMMA ErasingLeaves ==
  ASSUME NEW c \in Conn, NEW e
  PROVE  /\ Erase(c, e) => route' = route \/ route' = NoRoute
         /\ EraseOrLeave(c, e) => /\ route' = route \/ route' = NoRoute
                                  /\ leftover \subseteq leftover'
BY DEF Erase, EraseOrLeave

\* What was bound is checked, and erased if its session has ended.
LEMMA CheckKeepsAll ==
  ASSUME RouteInv, RouteTypeOK', NEW w \in Serving, Check(w)
  PROVE  RouteInv'
<1>1. /\ running[w] # "down" /\ doing[w].at = "check" /\ doing[w].conn \in Conn
      /\ UNCHANGED <<running, home, epoch, bound, stray, socket, inbox>>
      /\ Goes(w, Idle)
  BY RouteFacts DEF Check, Is, TickOK, Of, connVars
<1>2. leftover \subseteq leftover' /\ (route' = route \/ route' = NoRoute)
  BY <1>1, ErasingLeaves DEF Check
<1>3. Follows(w, Idle)
  BY <1>1 DEF Follows, TickOK, Idle
<1>4. Quiet
  BY <1>1, <1>2 DEF Quiet
<1> QED BY <1>1, <1>3, <1>4, FollowingKeepsAll

\* Renewing an identity does nothing but look at it.
LEMMA RenewKeepsAll ==
  ASSUME RouteInv, RouteTypeOK', NEW w \in Serving, Renew(w)
  PROVE  RouteInv'
<1>1. running[w] # "down" /\ doing[w].at = "renew" /\ doing[w].left \subseteq Of(w)
  BY RouteFacts DEF Renew, Is, TickOK
<1>2. Quiet
  BY DEF Renew, Quiet, redisVars, connVars
<1>3. PICK t : Goes(w, t) /\ Follows(w, t)
  <2>1. Follows(w, Idle)
    BY <1>1 DEF Follows, TickOK, Idle
  <2>2. ASSUME NEW c \in doing[w].left
        PROVE  Follows(w, [at |-> "renew", left |-> doing[w].left \ {c}])
    BY <1>1 DEF Follows, TickOK, Idle
  <2>3. ASSUME NEW c \in doing[w].left, NEW kept
        PROVE  Follows(w, [at |-> "renewed", conn |-> c, left |-> doing[w].left \ {c},
                           kept |-> kept])
    BY <1>1 DEF Follows, TickOK, Idle
  <2> QED BY <2>1, <2>2, <2>3 DEF Renew
<1> QED BY <1>1, <1>2, <1>3, FollowingKeepsAll

\* A connection that has lost its route is closed; one that has gone loses it.
LEMMA AfterRenewKeepsAll ==
  ASSUME RouteInv, RouteTypeOK', NEW w \in Serving, AfterRenew(w)
  PROVE  RouteInv'
<1>1. /\ running[w] # "down" /\ doing[w].at = "renewed" /\ doing[w].conn \in Of(w)
      /\ doing[w].left \subseteq Of(w)
  BY RouteFacts DEF AfterRenew, Is, TickOK
<1>2. UNCHANGED <<running, home, epoch, bound, stray>>
  BY DEF AfterRenew
<1>3. PICK t : t = [at |-> "renew", left |-> doing[w].left]
  OBVIOUS
<1>4. Follows(w, t) /\ Goes(w, t)
  <2>1. Follows(w, t)
    BY <1>1, <1>3 DEF Follows, TickOK, Idle
  <2> QED BY <1>3, <2>1 DEF AfterRenew
<1>5. CASE UNCHANGED <<route, leftover>> /\ Close(w, {doing[w].conn})
  <2>1. {doing[w].conn} \in SUBSET Conn /\ {doing[w].conn} \subseteq Of(w)
    BY <1>1 DEF Of
  <2> QED BY <1>1, <1>2, <1>4, <1>5, <2>1, ClosingKeepsAll
<1>6. CASE UNCHANGED <<route, leftover, inbox, socket>>
  BY <1>1, <1>2, <1>4, <1>6, FollowingKeepsAll DEF Quiet
<1>7. CASE /\ EraseOrLeave(doing[w].conn, bound[doing[w].conn])
           /\ UNCHANGED <<inbox, socket>>
  <2>1. leftover \subseteq leftover' /\ (route' = route \/ route' = NoRoute)
    BY <1>1, <1>7, ErasingLeaves DEF Of
  <2> QED BY <1>1, <1>2, <1>4, <1>7, <2>1, FollowingKeepsAll DEF Quiet
<1> QED BY <1>5, <1>6, <1>7 DEF AfterRenew

\* The link is kept, or its connections are closed.
LEMMA RetainKeepsAll ==
  ASSUME RouteInv, RouteTypeOK', NEW w \in Serving, Retain(w)
  PROVE  RouteInv'
<1>1. running[w] # "down" /\ doing[w] = Idle
  BY DEF Retain, IsIdle
<1>2. UNCHANGED <<route, stray, running, home, epoch, bound, leftover>>
  BY DEF Retain
<1>3. PICK t : t = [at |-> "renew", left |-> {c \in Of(w) : bound[c] > 0}]
  OBVIOUS
<1>4. Follows(w, t) /\ Goes(w, t)
  <2>1. Follows(w, t)
    BY <1>1, <1>3 DEF Follows, TickOK, Idle
  <2> QED BY <1>3, <2>1 DEF Retain
<1>5. CASE UNCHANGED <<inbox, socket>>
  BY <1>1, <1>2, <1>4, <1>5, FollowingKeepsAll DEF Quiet
<1>6. CASE Close(w, Of(w))
  BY <1>1, <1>2, <1>4, <1>6, ClosingKeepsAll DEF Of
<1> QED BY <1>5, <1>6 DEF Retain

----------------------------------------------------------------------------
(* Sessions                                                                *)

\* The oldest event of a stream is taken.
LEMMA IngressEffect ==
  ASSUME RouteInv, NEW w \in Serving, inbox[w] # <<>>, inbox' = [inbox EXCEPT ![w] = Tail(@)]
  PROVE  /\ Head(inbox[w]) \in EventRec /\ Head(inbox[w]) \in Events(w)
         /\ inbox' \in [Serving -> Seq(EventRec)]
         /\ \A v \in Serving : v # w => inbox'[v] = inbox[v]
         /\ \A v \in Serving : Events(v)' \subseteq Events(v)
         /\ \A v \in Serving : \A m \in Events(v) :
              m \in Events(v)' \/ m = Head(inbox[w])
<1>1. inbox[w] \in Seq(EventRec)
  BY RouteFacts
<1>2. /\ Head(inbox[w]) \in EventRec /\ Tail(inbox[w]) \in Seq(EventRec)
      /\ Head(inbox[w]) \in Items(inbox[w])
      /\ Items(inbox[w]) \subseteq Items(Tail(inbox[w])) \cup {Head(inbox[w])}
      /\ Items(Tail(inbox[w])) \subseteq Items(inbox[w])
  BY <1>1, Taken
<1>3. inbox'[w] = Tail(inbox[w]) /\ \A v \in Serving : v # w => inbox'[v] = inbox[v]
  BY RouteFacts
<1>4. inbox' \in [Serving -> Seq(EventRec)]
  BY <1>2, RouteFacts
<1>5. ASSUME NEW v \in Serving
      PROVE  Events(v)' \subseteq Events(v)
             /\ \A m \in Events(v) : m \in Events(v)' \/ m = Head(inbox[w])
  <2>1. CASE v = w
    BY <1>2, <1>3, <2>1 DEF Events
  <2>2. CASE v # w
    BY <1>3, <2>2 DEF Events
  <2> QED BY <2>1, <2>2
<1> QED BY <1>2, <1>3, <1>4, <1>5 DEF Events

\* What all of TakeIngress's branches have in common.
LEMMA IngressFrame ==
  ASSUME RouteInv, NEW w \in Serving, TakeIngress(w)
  PROVE  /\ running[w] = "up" /\ doing[w] = Idle /\ inbox[w] # <<>>
         /\ inbox' = [inbox EXCEPT ![w] = Tail(@)]
         /\ UNCHANGED <<owner, told, stray, running, retained, home, socket>>
         /\ \/ TakeConnected(w, Head(inbox[w]))
            \/ TakePacket(w, Head(inbox[w]))
            \/ TakeDisconnected(w, Head(inbox[w]))
BY DEF TakeIngress, IsIdle

\* Fewer events leave what is said of them.
LEMMA FewerEvents ==
  ASSUME RouteInv, UNCHANGED <<home, socket>>,
         \A v \in Serving : Events(v)' \subseteq Events(v)
  PROVE  EventInv'
BY DEF EventInv, RouteInv

\* A worker that takes an event is not down, so that of the others nothing changes.
LEMMA DownStays ==
  ASSUME RouteInv, NEW w \in Serving, running[w] # "down", UNCHANGED <<running>>,
         \A v \in Serving : v # w => inbox'[v] = inbox[v] /\ doing'[v] = doing[v]
  PROVE  \A v \in Serving : running'[v] = "down" => inbox'[v] = <<>> /\ doing'[v] = Idle
BY DEF RouteInv, HomeInv

\* A session begins.
LEMMA ConnectedKeepsAll ==
  ASSUME RouteInv, RouteTypeOK', NEW w \in Serving, TakeIngress(w),
         TakeConnected(w, Head(inbox[w]))
  PROVE  RouteInv'
<1>1. PICK m : m = Head(inbox[w])
  OBVIOUS
<1>2. /\ running[w] = "up" /\ doing[w] = Idle
      /\ UNCHANGED <<stray, running, home, socket, route, doing, bound, leftover>>
      /\ m \in EventRec /\ m \in Events(w) /\ m.kind = "connected"
      /\ inbox' \in [Serving -> Seq(EventRec)]
      /\ \A v \in Serving : v # w => inbox'[v] = inbox[v]
      /\ \A v \in Serving : Events(v)' \subseteq Events(v)
      /\ \A v \in Serving : \A n \in Events(v) : n \in Events(v)' \/ n = m
  BY <1>1, IngressFrame, IngressEffect DEF TakeConnected
<1>3. PICK c \in Conn : c = m.conn
  BY <1>2 DEF EventRec
<1>4. home[c] = w /\ m.epoch = 1
  BY <1>2, <1>3 DEF EventInv, RouteInv
<1>5. \/ UNCHANGED epoch
      \/ /\ ~(epoch[c] >= 1) /\ epoch' = [epoch EXCEPT ![c] = 1]
  BY <1>1, <1>3, <1>4 DEF TakeConnected
<1>6. \A x \in Conn : epoch[x] # 0 => epoch'[x] = epoch[x]
  BY <1>5, RouteFacts
<1>7. \A x \in Conn : x # c => epoch'[x] = epoch[x]
  BY <1>5, RouteFacts
<1>8. ASSUME NEW x \in Conn, NEW e \in 1 .. MaxEpoch, home[x] \in Serving, Noticed(x, e)
      PROVE  Noticed(x, e)'
  <2>1. CASE Live(x, e)
    BY <1>2, <2>1 DEF Live, Noticed
  <2>2. CASE EndsSoon(x)
    <3>1. PICK n \in Events(home[x]) :
            n.kind = "disconnected" /\ n.conn = x /\ n.epoch = epoch[x]
      BY <2>2 DEF EndsSoon
    <3>2. PICK v \in Serving : v = home[x]
      BY <1>8
    <3>3. n \in Events(v)'
      BY <1>2, <3>1, <3>2
    <3>4. n.epoch \in 1 .. MaxEpoch
      <4>1. Events(v) \subseteq EventRec
        BY RouteFacts DEF Events, Items
      <4> QED BY <3>1, <3>2, <4>1 DEF EventRec
    <3>5. epoch'[x] = epoch[x]
      <4>1. epoch[x] # 0
        BY <3>1, <3>4
      <4> QED BY <1>6, <4>1
    <3>6. home'[x] = v
      BY <1>2, <3>2
    <3> QED BY <3>1, <3>3, <3>5, <3>6 DEF EndsSoon, Noticed
  <2> QED BY <1>8, <2>1, <2>2 DEF Noticed
<1>9. EventInv'
  BY <1>2, FewerEvents
<1>10. TickTypes'
  BY <1>2, SameTicks DEF TickTypes
<1>11. BindInv'
  <2>1. ASSUME NEW v \in Serving, NEW x \in Conn, NEW e \in 1 .. MaxEpoch, Binding(v, x, e)'
        PROVE  BoundTo(v, x, e)'
    <3>1. Binding(v, x, e)
      BY <1>2, <2>1 DEF Binding
    <3>2. BoundTo(v, x, e) /\ home[x] = v
      BY <3>1, RouteFacts DEF BindInv, RouteInv, Binding, TickOK, Of
    <3>3. epoch'[x] = e
      <4>1. epoch[x] # 0
        BY <3>2 DEF BoundTo
      <4> QED BY <1>6, <3>2, <4>1 DEF BoundTo
    <3> QED BY <1>2, <1>8, <3>2, <3>3 DEF BoundTo
  <2> QED BY <2>1 DEF BindInv
<1>12. MindInv'
  <2>1. ASSUME NEW x \in Conn, NEW e \in 1 .. MaxEpoch, (route = Identity(x, e))'
        PROVE  (home[x] \in Serving /\ Minded(x, e))'
    <3>1. home[x] \in Serving /\ Minded(x, e)
      BY <1>2, <2>1 DEF MindInv, RouteInv, Identity
    <3> QED BY <1>2, <1>8, <3>1 DEF Minded
  <2> QED BY <2>1 DEF MindInv
<1>13. HomeInv'
  <2>1. HomeInv
    BY DEF RouteInv
  <2>2. \A x \in Conn : home[x] = Nobody => epoch'[x] = 0
    BY <1>4, <1>7, <2>1 DEF HomeInv
  <2>3. \A x \in Conn : bound[x] > 0 /\ socket[x] = bound[x] => epoch'[x] = bound[x]
    <3> SUFFICES ASSUME NEW x \in Conn, bound[x] > 0, socket[x] = bound[x]
                 PROVE  epoch'[x] = bound[x]
      OBVIOUS
    <3>1. epoch[x] = bound[x] /\ epoch[x] # 0
      BY <2>1, RouteFacts DEF HomeInv
    <3> QED BY <1>6, <3>1
  <2>4. \A v \in Serving : running'[v] = "down" => inbox'[v] = <<>> /\ doing'[v] = Idle
    BY <1>2, DownStays
  <2> QED BY <1>2, <2>1, <2>2, <2>3, <2>4 DEF HomeInv
<1> QED BY <1>9, <1>10, <1>11, <1>12, <1>13 DEF RouteInv

\* A worker that was idle binds the session it knows of a connection of its own.
LEMMA BindingKeepsAll ==
  ASSUME RouteInv, NEW w \in Serving, NEW c \in Conn, NEW e \in 1 .. MaxEpoch,
         running[w] # "down", doing[w] = Idle, home[c] = w,
         StartBind(w, c, e), UNCHANGED <<home, route, leftover, running>>,
         epoch'[c] = e, Noticed(c, e)',
         \A x \in Conn : x # c => epoch'[x] = epoch[x],
         \A x \in Conn, d \in 1 .. MaxEpoch :
           x # c /\ home[x] \in Serving /\ Noticed(x, d) /\ (socket[x] = d => epoch[x] = d)
           => Noticed(x, d)'
  PROVE  /\ BindInv' /\ MindInv'
         /\ DOMAIN doing' = Serving /\ (\A v \in Serving : TickOK(v, doing[v]))'
         /\ \A x \in Conn : bound'[x] = IF x = c THEN e ELSE bound[x]
         /\ \A v \in Serving : v # w => doing'[v] = doing[v]
<1> DEFINE t == [at |-> "bind", conn |-> c, epoch |-> e]
<1>1. TickOK(w, t) /\ Goes(w, t)
  BY DEF TickOK, Idle, Of, StartBind
<1>2. /\ DOMAIN doing' = Serving /\ (\A v \in Serving : TickOK(v, doing[v]))'
      /\ doing'[w] = t /\ \A v \in Serving : v # w => doing'[v] = doing[v]
  BY <1>1, GoesOn
<1>3. \A x \in Conn : bound'[x] = IF x = c THEN e ELSE bound[x]
  BY RouteFacts DEF StartBind
<1>4. ASSUME NEW v \in Serving, NEW x \in Conn, NEW d \in 1 .. MaxEpoch, Binding(v, x, d)'
      PROVE  BoundTo(v, x, d)'
  <2>1. CASE v = w
    <3>1. x = c /\ d = e
      BY <1>2, <1>4, <2>1 DEF Binding
    <3>2. bound'[c] = e
      BY <1>3
    <3>3. BoundTo(v, c, e)'
      BY <3>2 DEF BoundTo
    <3> QED BY <3>1, <3>3
  <2>2. CASE v # w
    <3>1. Binding(v, x, d)
      BY <1>2, <1>4, <2>2 DEF Binding
    <3>2. BoundTo(v, x, d) /\ home[x] = v
      BY <3>1, RouteFacts DEF BindInv, RouteInv, Binding, TickOK, Of
    <3>3. x # c
      BY <2>2, <3>2
    <3>4. epoch'[x] = epoch[x] /\ bound'[x] = bound[x]
      BY <1>3, <3>3
    <3>5. Noticed(x, d) => Noticed(x, d)'
      BY <3>2, <3>3 DEF BoundTo
    <3> QED BY <3>2, <3>4, <3>5 DEF BoundTo
  <2> QED BY <2>1, <2>2
<1>5. ASSUME NEW x \in Conn, NEW d \in 1 .. MaxEpoch, (route = Identity(x, d))'
      PROVE  (home[x] \in Serving /\ Minded(x, d))'
  <2>1. home[x] \in Serving /\ Minded(x, d)
    BY <1>5 DEF MindInv, RouteInv, Identity
  <2>2. CASE x = c
    <3>1. doing'[w].at = "bind" /\ doing'[w].conn = c
      BY <1>2
    <3> QED BY <2>1, <2>2, <3>1 DEF Minded
  <2>3. CASE x # c
    <3>1. bound'[x] = bound[x]
      BY <1>3, <2>3
    <3>2. bound[x] = d /\ Noticed(x, d) => Noticed(x, d)'
      <4>1. bound[x] > 0 /\ socket[x] = bound[x] => epoch[x] = bound[x]
        BY DEF RouteInv, HomeInv
      <4> QED BY <2>1, <2>3, <4>1
    <3>3. doing[home[x]].at = "bind" => doing'[home[x]] = doing[home[x]]
      BY <1>2, <2>1 DEF Idle
    <3> QED BY <2>1, <3>1, <3>2, <3>3 DEF Minded
  <2> QED BY <2>2, <2>3
<1> QED BY <1>2, <1>3, <1>4, <1>5 DEF BindInv, MindInv

\* A packet names the device.
LEMMA PacketTakenKeepsAll ==
  ASSUME RouteInv, RouteTypeOK', NEW w \in Serving, TakeIngress(w),
         TakePacket(w, Head(inbox[w]))
  PROVE  RouteInv'
<1>1. PICK m : m = Head(inbox[w])
  OBVIOUS
<1>2. /\ running[w] = "up" /\ doing[w] = Idle
      /\ UNCHANGED <<stray, running, home, socket, route, epoch, leftover>>
      /\ m \in EventRec /\ m \in Events(w) /\ m.kind = "packet"
      /\ inbox' \in [Serving -> Seq(EventRec)]
      /\ \A v \in Serving : v # w => inbox'[v] = inbox[v]
      /\ \A v \in Serving : Events(v)' \subseteq Events(v)
      /\ \A v \in Serving : \A n \in Events(v) : n \in Events(v)' \/ n = m
  BY <1>1, IngressFrame, IngressEffect DEF TakePacket
<1>3. PICK c \in Conn, e \in 1 .. MaxEpoch : c = m.conn /\ e = m.epoch
  BY <1>2 DEF EventRec
<1>4. home[c] = w
  BY <1>2, <1>3 DEF EventInv, RouteInv
<1>5. \A x \in Conn, d \in 1 .. MaxEpoch :
        home[x] \in Serving /\ Noticed(x, d) => Noticed(x, d)'
  <2>1. \A v \in Serving : \A n \in Events(v) : n.kind = "disconnected" => n \in Events(v)'
    BY <1>2
  <2> QED BY <1>2, <2>1 DEF Noticed, Live, EndsSoon
<1>6. EventInv'
  BY <1>2, FewerEvents
<1>7. CASE UNCHANGED <<doing, bound>>
  <2>1. NoticesStand
    BY <1>5 DEF NoticesStand
  <2>2. TickTypes' /\ Calm
    BY <1>2, <1>7, SameTicks DEF TickTypes, Calm
  <2>3. \A v \in Serving : running[v] = "down" => inbox'[v] = inbox[v] /\ doing'[v] = doing[v]
    BY <1>2, <1>7
  <2>4. \A x \in Conn : socket'[x] \in {0, socket[x]}
    BY <1>2
  <2> QED BY <1>6, <2>1, <2>2, <2>3, <2>4, CalmKeepsAll
<1>8. CASE epoch[c] = e /\ Live(c, e) /\ StartBind(w, c, e)
  <2>1. Noticed(c, e)'
    BY <1>2, <1>8 DEF Noticed, Live
  <2>2. /\ BindInv' /\ MindInv'
        /\ DOMAIN doing' = Serving /\ (\A v \in Serving : TickOK(v, doing[v]))'
        /\ \A x \in Conn : bound'[x] = IF x = c THEN e ELSE bound[x]
        /\ \A v \in Serving : v # w => doing'[v] = doing[v]
    BY <1>2, <1>4, <1>5, <1>8, <2>1, BindingKeepsAll
  <2>3. HomeInv'
    <3>1. HomeInv
      BY DEF RouteInv
    <3>2. \A x \in Conn : home[x] = Nobody => bound'[x] = 0
      BY <1>4, <2>2, <3>1 DEF HomeInv
    <3>3. \A x \in Conn : bound'[x] > 0 /\ socket[x] = bound'[x] => epoch[x] = bound'[x]
      BY <1>8, <2>2, <3>1 DEF HomeInv
    <3>4. \A v \in Serving : running'[v] = "down" => inbox'[v] = <<>> /\ doing'[v] = Idle
      BY <1>2, <2>2, DownStays
    <3> QED BY <1>2, <3>1, <3>2, <3>3, <3>4 DEF HomeInv
  <2>4. TickTypes'
    BY <1>2, <2>2 DEF TickTypes
  <2> QED BY <1>6, <2>2, <2>3, <2>4 DEF RouteInv
<1>9. (epoch[c] = e /\ Live(c, e) /\ StartBind(w, c, e)) \/ UNCHANGED <<doing, bound>>
  BY ONLY <1>1, <1>3, TakePacket(w, Head(inbox[w])), Zenon DEF TakePacket
<1> QED BY <1>7, <1>8, <1>9

\* The end of a session: what is bound for it is erased, if it is still the same.
LEMMA DisconnectedKeepsAll ==
  ASSUME RouteInv, RouteTypeOK', NEW w \in Serving, TakeIngress(w),
         TakeDisconnected(w, Head(inbox[w]))
  PROVE  RouteInv'
<1>1. PICK m : m = Head(inbox[w])
  OBVIOUS
<1>2. /\ running[w] = "up" /\ doing[w] = Idle
      /\ UNCHANGED <<stray, running, home, socket, doing>>
      /\ m \in EventRec /\ m \in Events(w) /\ m.kind = "disconnected"
      /\ inbox' \in [Serving -> Seq(EventRec)]
      /\ \A v \in Serving : v # w => inbox'[v] = inbox[v]
      /\ \A v \in Serving : Events(v)' \subseteq Events(v)
      /\ \A v \in Serving : \A n \in Events(v) : n \in Events(v)' \/ n = m
  BY <1>1, IngressFrame, IngressEffect DEF TakeDisconnected
<1>3. PICK c \in Conn, e \in 1 .. MaxEpoch : c = m.conn /\ e = m.epoch
  BY <1>2 DEF EventRec
<1>4. home[c] = w /\ socket[c] = 0
  BY <1>2, <1>3 DEF EventInv, RouteInv
<1>5. EventInv'
  BY <1>2, FewerEvents
<1>6. TickTypes'
  BY <1>2, SameTicks DEF TickTypes
<1>7. CASE epoch[c] # e /\ UNCHANGED <<route, epoch, bound, leftover>>
  <2>1. NoticesStand
    <3>1. ASSUME NEW x \in Conn, home[x] \in Serving, EndsSoon(x)
          PROVE  EndsSoon(x)'
      <4>1. PICK n \in Events(home[x]) :
              n.kind = "disconnected" /\ n.conn = x /\ n.epoch = epoch[x]
        BY <3>1 DEF EndsSoon
      <4>2. n # m
        BY <1>3, <1>7, <4>1
      <4>3. PICK v \in Serving : v = home[x]
        BY <3>1
      <4>4. n \in Events(v)' /\ home'[x] = v /\ epoch'[x] = epoch[x]
        BY <1>2, <1>7, <4>1, <4>2, <4>3
      <4> QED BY <4>1, <4>4 DEF EndsSoon
    <3> QED BY <1>2, <3>1 DEF NoticesStand, Noticed, Live
  <2>2. Calm
    BY <1>2, <1>7, SameTicks DEF Calm
  <2>3. \A v \in Serving : running[v] = "down" => inbox'[v] = inbox[v] /\ doing'[v] = doing[v]
    BY <1>2
  <2>4. \A x \in Conn : socket'[x] \in {0, socket[x]}
    BY <1>2
  <2> QED BY <1>5, <1>6, <2>1, <2>2, <2>3, <2>4, CalmKeepsAll
<1>8. CASE /\ epoch' = [epoch EXCEPT ![c] = 0]
           /\ \/ /\ Erase(c, bound[c]) /\ bound' = [bound EXCEPT ![c] = 0]
                 /\ UNCHANGED leftover
              \/ /\ leftover' = leftover \cup {c} /\ UNCHANGED <<route, bound>>
  <2>1. /\ epoch'[c] = 0 /\ bound'[c] \in {0, bound[c]} /\ leftover \subseteq leftover'
        /\ \A x \in Conn : x # c => epoch'[x] = epoch[x] /\ bound'[x] = bound[x]
    BY <1>8, RouteFacts
  <2>2. ASSUME NEW x \in Conn, NEW d \in 1 .. MaxEpoch, x # c, home[x] \in Serving, Noticed(x, d)
        PROVE  Noticed(x, d)'
    <3>1. CASE Live(x, d)
      BY <1>2, <3>1 DEF Live, Noticed
    <3>2. CASE EndsSoon(x)
      <4>1. PICK n \in Events(home[x]) :
              n.kind = "disconnected" /\ n.conn = x /\ n.epoch = epoch[x]
        BY <3>2 DEF EndsSoon
      <4>2. n # m
        BY <1>3, <2>2, <4>1
      <4>3. PICK v \in Serving : v = home[x]
        BY <2>2
      <4>4. n \in Events(v)' /\ home'[x] = v /\ epoch'[x] = epoch[x]
        BY <1>2, <2>1, <2>2, <4>1, <4>2, <4>3
      <4> QED BY <4>1, <4>4 DEF EndsSoon, Noticed
    <3> QED BY <2>2, <3>1, <3>2 DEF Noticed
  <2>3. ASSUME NEW v \in Serving, NEW x \in Conn, NEW d \in 1 .. MaxEpoch, Binding(v, x, d)'
        PROVE  BoundTo(v, x, d)'
    <3>1. Binding(v, x, d)
      BY <1>2, <2>3 DEF Binding
    <3>2. BoundTo(v, x, d) /\ home[x] = v
      BY <3>1, RouteFacts DEF BindInv, RouteInv, Binding, TickOK, Of
    <3>3. x # c
      BY <1>2, <1>4, <3>1, <3>2 DEF Binding, Idle
    <3>4. Noticed(x, d) => Noticed(x, d)'
      BY <2>2, <3>2, <3>3
    <3> QED BY <1>2, <2>1, <3>2, <3>3, <3>4 DEF BoundTo
  <2>4. ASSUME NEW x \in Conn, NEW d \in 1 .. MaxEpoch, (route = Identity(x, d))'
        PROVE  (home[x] \in Serving /\ Minded(x, d))'
    <3>1. route = Identity(x, d)
      <4>1. route' = Identity(x, d) /\ Identity(x, d) # NoRoute
        BY <2>4 DEF Identity, NoRoute
      <4> QED BY <1>8, <4>1 DEF Erase
    <3>2. home[x] \in Serving /\ Minded(x, d)
      BY <3>1 DEF MindInv, RouteInv
    <3>3. CASE x # c
      <4>1. Noticed(x, d) => Noticed(x, d)'
        BY <2>2, <3>2, <3>3
      <4> QED BY <1>2, <2>1, <3>2, <3>3, <4>1 DEF Minded
    <3>4. CASE x = c
      <4>1. c \in leftover'
        <5>1. CASE /\ Erase(c, bound[c]) /\ UNCHANGED leftover
          <6>1. bound[c] # d
            BY <2>4, <3>1, <3>4, <5>1 DEF Erase, Erases, Identity, NoRoute
          <6>2. doing[home[c]].at # "bind"
            BY <1>2, <1>4 DEF Idle
          <6> QED BY <3>2, <3>4, <5>1, <6>1, <6>2 DEF Minded
        <5> QED BY <1>8, <5>1
      <4> QED BY <1>2, <3>2, <3>4, <4>1 DEF Minded
    <3> QED BY <3>3, <3>4
  <2>5. HomeInv'
    <3>1. HomeInv
      BY DEF RouteInv
    <3>2. \A x \in Conn : home[x] = Nobody => epoch'[x] = 0 /\ bound'[x] = 0
      BY <1>4, <2>1, <3>1 DEF HomeInv
    <3>3. \A x \in Conn : bound'[x] > 0 /\ socket[x] = bound'[x] => epoch'[x] = bound'[x]
      <4> SUFFICES ASSUME NEW x \in Conn, bound'[x] > 0, socket[x] = bound'[x]
                   PROVE  epoch'[x] = bound'[x]
        OBVIOUS
      <4>1. x # c
        BY <1>4
      <4> QED BY <2>1, <3>1, <4>1 DEF HomeInv
    <3>4. \A v \in Serving : running'[v] = "down" => inbox'[v] = <<>> /\ doing'[v] = Idle
      BY <1>2, DownStays
    <3> QED BY <1>2, <3>1, <3>2, <3>3, <3>4 DEF HomeInv
  <2> QED BY <1>5, <1>6, <2>3, <2>4, <2>5 DEF RouteInv, BindInv, MindInv
<1>9. \/ epoch[c] # e /\ UNCHANGED <<route, epoch, bound, leftover>>
      \/ /\ epoch' = [epoch EXCEPT ![c] = 0]
         /\ \/ /\ Erase(c, bound[c]) /\ bound' = [bound EXCEPT ![c] = 0]
               /\ UNCHANGED leftover
            \/ /\ leftover' = leftover \cup {c} /\ UNCHANGED <<route, bound>>
  BY ONLY <1>1, <1>3, TakeDisconnected(w, Head(inbox[w])), Zenon
     DEF TakeDisconnected
<1> QED BY <1>7, <1>8, <1>9

\* Whatever the oldest event is.
LEMMA IngressKeepsAll ==
  ASSUME RouteInv, RouteTypeOK', NEW w \in Serving, TakeIngress(w)
  PROVE  RouteInv'
BY ConnectedKeepsAll, PacketTakenKeepsAll, DisconnectedKeepsAll, IngressFrame

\* A connection is accepted: nobody has heard of it before.
LEMMA AcceptKeepsAll ==
  ASSUME RouteInv, RouteTypeOK', NEW w \in Serving, NEW c \in Conn, Accept(w, c)
  PROVE  RouteInv'
<1> DEFINE m == [kind |-> "connected", conn |-> c, epoch |-> 1]
<1>1. /\ running[w] = "up" /\ home[c] = Nobody
      /\ home' = [home EXCEPT ![c] = w] /\ socket' = [socket EXCEPT ![c] = 1]
      /\ inbox' = [inbox EXCEPT ![w] = Append(inbox[w], m)]
      /\ UNCHANGED <<route, stray, running, doing, epoch, bound, leftover>>
  BY DEF Accept, redisVars
<1>2. m \in EventRec /\ m.kind = "connected" /\ m.conn = c /\ m.epoch = 1
  BY RouteFacts DEF EventRec
<1> HIDE DEF m
<1>3. /\ home'[c] = w /\ socket'[c] = 1
      /\ \A x \in Conn : x # c => home'[x] = home[x] /\ socket'[x] = socket[x]
  BY <1>1, RouteFacts
<1>4. /\ inbox'[w] = Append(inbox[w], m) /\ inbox' \in [Serving -> Seq(EventRec)]
      /\ \A v \in Serving : v # w => inbox'[v] = inbox[v]
      /\ inbox[w] \in Seq(EventRec)
  BY <1>1, <1>2, RouteFacts, Appended
<1>5. /\ Events(w)' = Events(w) \cup {m}
      /\ \A v \in Serving : v # w => Events(v)' = Events(v)
  BY <1>2, <1>4, Appended DEF Events
<1>6. \A v \in Serving : Events(v) \subseteq EventRec
  BY RouteFacts DEF Events, Items
<1>7. EventInv'
  <2>1. ASSUME NEW v \in Serving, NEW n \in Events(v)'
        PROVE  /\ home'[n.conn] = v
               /\ n.kind = "disconnected" => socket'[n.conn] = 0
               /\ n.kind = "connected" => n.epoch = 1
    <3>1. CASE n \in Events(v)
      <4>1. /\ home[n.conn] = v
            /\ n.kind = "disconnected" => socket[n.conn] = 0
            /\ n.kind = "connected" => n.epoch = 1
        BY <3>1 DEF EventInv, RouteInv
      <4>2. n.conn \in Conn
        BY <1>6, <3>1 DEF EventRec
      <4>3. n.conn # c
        BY <1>1, <4>1
      <4> QED BY <1>3, <4>1, <4>2, <4>3
    <3>2. CASE n \notin Events(v)
      <4>1. v = w /\ n = m
        BY <1>5, <2>1, <3>2
      <4> QED BY <1>2, <1>3, <4>1
    <3> QED BY <3>1, <3>2
  <2> QED BY <2>1 DEF EventInv
<1>8. TickTypes'
  <2>1. \A v \in Serving : Of(v) \subseteq Of(v)'
    BY <1>1, <1>3 DEF Of
  <2>2. \A v \in Serving : TickOK(v, doing[v])'
    BY <1>1, <2>1, RouteFacts DEF TickOK
  <2> QED BY <1>1, <1>4, <2>2, RouteFacts DEF TickTypes
<1>9. ASSUME NEW x \in Conn, NEW d \in 1 .. MaxEpoch, x # c, home[x] \in Serving, Noticed(x, d)
      PROVE  Noticed(x, d)'
  <2>1. CASE Live(x, d)
    BY <1>3, <1>9, <2>1 DEF Live, Noticed
  <2>2. CASE EndsSoon(x)
    <3>1. PICK v \in Serving : v = home[x]
      BY <1>9
    <3>2. Events(v) \subseteq Events(v)'
      BY <1>5
    <3>3. home'[x] = v /\ epoch'[x] = epoch[x]
      BY <1>1, <1>3, <1>9, <3>1
    <3> QED BY <2>2, <3>1, <3>2, <3>3 DEF EndsSoon, Noticed
  <2> QED BY <1>9, <2>1, <2>2 DEF Noticed
<1>10. ASSUME NEW v \in Serving, NEW x \in Conn, NEW d \in 1 .. MaxEpoch, Binding(v, x, d)'
       PROVE  BoundTo(v, x, d)'
  <2>1. Binding(v, x, d)
    BY <1>1, <1>10 DEF Binding
  <2>2. BoundTo(v, x, d) /\ home[x] = v
    BY <2>1, RouteFacts DEF BindInv, RouteInv, Binding, TickOK, Of
  <2>3. x # c
    BY <1>1, <2>2
  <2>4. Noticed(x, d) => Noticed(x, d)'
    BY <1>9, <2>2, <2>3
  <2> QED BY <1>1, <2>2, <2>4 DEF BoundTo
<1>11. ASSUME NEW x \in Conn, NEW d \in 1 .. MaxEpoch, (route = Identity(x, d))'
       PROVE  (home[x] \in Serving /\ Minded(x, d))'
  <2>1. home[x] \in Serving /\ Minded(x, d)
    BY <1>1, <1>11 DEF MindInv, RouteInv, Identity
  <2>2. x # c
    BY <1>1, <2>1
  <2>3. Noticed(x, d) => Noticed(x, d)'
    BY <1>9, <2>1, <2>2
  <2>4. home'[x] = home[x]
    BY <1>3, <2>2
  <2> QED BY <1>1, <2>1, <2>3, <2>4 DEF Minded
<1>12. HomeInv'
  <2>1. HomeInv
    BY DEF RouteInv
  <2>2. \A x \in Conn : home'[x] = Nobody => socket'[x] = 0 /\ epoch[x] = 0 /\ bound[x] = 0
    BY <1>3, <2>1 DEF HomeInv
  <2>3. \A x \in Conn : bound[x] > 0 /\ socket'[x] = bound[x] => epoch[x] = bound[x]
    BY <1>1, <1>3, <2>1 DEF HomeInv
  <2>4. \A x \in Conn : socket'[x] > 0 => running[home'[x]] # "down"
    BY <1>1, <1>3, <2>1 DEF HomeInv
  <2>5. \A id \in stray : home'[id.conn] # Nobody
    <3> SUFFICES ASSUME NEW id \in stray PROVE home'[id.conn] # Nobody
      OBVIOUS
    <3>1. home[id.conn] # Nobody /\ id.conn \in Conn
      BY <2>1, RouteFacts DEF HomeInv, Identities, NoRoute
    <3> QED BY <1>1, <1>3, <3>1
  <2>6. \A v \in Serving : running[v] = "down" => inbox'[v] = <<>> /\ doing[v] = Idle
    BY <1>1, <1>4, <2>1 DEF HomeInv
  <2> QED BY <1>1, <2>2, <2>3, <2>4, <2>5, <2>6 DEF HomeInv
<1> QED BY <1>7, <1>8, <1>10, <1>11, <1>12 DEF RouteInv, BindInv, MindInv

\* The script is executed, or not: the route of the device or who is left.
LEMMA BindKeepsAll ==
  ASSUME RouteInv, RouteTypeOK', NEW w \in Serving, Bind(w)
  PROVE  RouteInv'
<1>1. PICK c \in Conn, e \in 1 .. MaxEpoch : c = doing[w].conn /\ e = doing[w].epoch
  BY RouteFacts DEF Bind, Is, TickOK, Of
<1>2. /\ running[w] # "down" /\ doing[w].at = "bind" /\ home[c] = w
      /\ UNCHANGED <<home, socket, epoch, bound, inbox, running>>
  BY <1>1, RouteFacts DEF Bind, Is, TickOK, Of, connVars
<1>3. BoundTo(w, c, e)
  BY <1>1, <1>2 DEF BindInv, RouteInv, Binding
<1>4. /\ NoticesStand /\ EventInv' /\ inbox' \in [Serving -> Seq(EventRec)]
  BY <1>2, SameStreams
<1>5. PICK t : /\ Goes(w, t) /\ TickOK(w, t)
               /\ t.at # "bind" /\ (t.at \in {"announce", "check"} => t.conn = c /\ t.epoch = e)
  <2>1. TickOK(w, Idle) /\ Idle.at = "idle"
    BY DEF TickOK, Idle
  <2>2. PICK s : s = [at |-> "announce", conn |-> doing[w].conn, epoch |-> doing[w].epoch,
                      old |-> route.conn]
    OBVIOUS
  <2>3. route.conn \in Conn \cup {Nobody}
    BY RouteFacts DEF Identities, NoRoute
  <2>4. TickOK(w, s) /\ s.at = "announce" /\ s.conn = c /\ s.epoch = e
    BY <1>1, <1>2, <2>2, <2>3 DEF TickOK, Idle, Of
  <2>5. Goes(w, s) \/ Goes(w, Idle)
    BY <2>2 DEF Bind
  <2> QED BY <2>1, <2>4, <2>5
<1>6. /\ DOMAIN doing' = Serving /\ (\A v \in Serving : TickOK(v, doing[v]))'
      /\ doing'[w] = t /\ \A v \in Serving : v # w => doing'[v] = doing[v]
  BY <1>2, <1>5, GoesOn
<1>7. leftover \subseteq leftover'
  BY DEF Bind
<1>8. ASSUME NEW x \in Conn, NEW d \in 1 .. MaxEpoch, home[x] \in Serving, Noticed(x, d),
             socket[x] = d => epoch[x] = d
      PROVE  Noticed(x, d)'
  BY <1>2, <1>8 DEF Noticed, Live, EndsSoon, Events
<1>9. ASSUME NEW v \in Serving, NEW x \in Conn, NEW d \in 1 .. MaxEpoch, Binding(v, x, d)'
      PROVE  BoundTo(v, x, d)'
  <2>1. Binding(v, x, d)
    <3>1. CASE v = w
      BY <1>1, <1>2, <1>5, <1>6, <1>9, <3>1 DEF Binding
    <3>2. CASE v # w
      BY <1>6, <1>9, <3>2 DEF Binding
    <3> QED BY <3>1, <3>2
  <2>2. BoundTo(v, x, d) /\ home[x] = v
    BY <2>1, RouteFacts DEF BindInv, RouteInv, Binding, TickOK, Of
  <2>3. Noticed(x, d) => Noticed(x, d)'
    BY <1>8, <2>2 DEF BoundTo
  <2> QED BY <1>2, <1>7, <2>2, <2>3 DEF BoundTo
<1>10. ASSUME NEW x \in Conn, NEW d \in 1 .. MaxEpoch, (route = Identity(x, d))'
       PROVE  (home[x] \in Serving /\ Minded(x, d))'
  <2>1. CASE route' = Identity(c, e) /\ UNCHANGED leftover
    <3>1. x = c /\ d = e
      BY <1>10, <2>1 DEF Identity
    <3>2. Noticed(c, e) => Noticed(c, e)'
      BY <1>2, <1>3, <1>8 DEF BoundTo
    <3> QED BY <1>2, <1>3, <2>1, <3>1, <3>2 DEF Minded, BoundTo
  <2>2. CASE UNCHANGED route /\ leftover' = leftover \cup ({c} \cap {route.conn})
    <3>1. home[x] \in Serving /\ Minded(x, d) /\ route.conn = x
      BY <1>10, <2>2 DEF MindInv, RouteInv, Identity
    <3>2. CASE x = c
      BY <1>2, <2>2, <3>1, <3>2 DEF Minded
    <3>3. CASE x # c
      <4>1. doing[home[x]].at = "bind" /\ doing[home[x]].conn = x => doing'[home[x]] = doing[home[x]]
        BY <1>1, <1>6, <3>1, <3>3
      <4>2. bound[x] = d /\ Noticed(x, d) => Noticed(x, d)'
        <5>1. bound[x] > 0 /\ socket[x] = bound[x] => epoch[x] = bound[x]
          BY DEF RouteInv, HomeInv
        <5> QED BY <1>8, <3>1, <5>1
      <4> QED BY <1>2, <1>7, <3>1, <4>1, <4>2 DEF Minded
    <3> QED BY <3>2, <3>3
  <2> QED BY <1>1, <2>1, <2>2 DEF Bind
<1>11. HomeInv'
  <2>1. HomeInv
    BY DEF RouteInv
  <2>2. \A id \in stray' : home[id.conn] # Nobody
    <3>1. stray' \subseteq stray \cup {Identity(c, e)}
      BY <1>1 DEF Bind
    <3>2. Identity(c, e).conn = c
      BY DEF Identity
    <3> QED BY <1>2, <2>1, <3>1, <3>2 DEF HomeInv
  <2>3. \A v \in Serving : running'[v] = "down" => inbox'[v] = <<>> /\ doing'[v] = Idle
    BY <1>2, <1>6, DownStays
  <2> QED BY <1>2, <2>1, <2>2, <2>3 DEF HomeInv
<1>12. TickTypes'
  BY <1>4, <1>6 DEF TickTypes
<1> QED BY <1>4, <1>9, <1>10, <1>11, <1>12 DEF RouteInv, BindInv, MindInv

\* A bind is executed late: nobody minds the route, which is left to its expiry.
LEMMA LateBindKeepsAll ==
  ASSUME RouteInv, RouteTypeOK', NEW id \in stray, BindLate(id)
  PROVE  RouteInv'
<1>1. PICK c \in Conn, e \in 1 .. MaxEpoch : id = Identity(c, e) /\ c = id.conn
  BY RouteFacts DEF Identities, NoRoute, Identity
<1>2. /\ UNCHANGED <<home, socket, epoch, bound, inbox, running, doing>>
      /\ leftover \subseteq leftover' /\ stray' = stray \ {id}
      /\ home[c] # Nobody /\ home[c] \in Serving
  BY <1>1, RouteFacts DEF BindLate, connVars, RouteInv, HomeInv
<1>3. CASE UNCHANGED route
  <2>1. RouteInv
    OBVIOUS
  <2>2. /\ NoticesStand /\ EventInv' /\ inbox' \in [Serving -> Seq(EventRec)]
    BY <1>2, SameStreams
  <2>3. TickTypes'
    BY <1>2, <2>2, SameTicks DEF TickTypes
  <2>4. \A x \in Conn, d \in 1 .. MaxEpoch : Noticed(x, d) => Noticed(x, d)'
    BY <1>2 DEF Noticed, Live, EndsSoon, Events
  <2>5. ASSUME NEW v \in Serving, NEW x \in Conn, NEW d \in 1 .. MaxEpoch, Binding(v, x, d)'
        PROVE  BoundTo(v, x, d)'
    <3>1. BoundTo(v, x, d)
      BY <1>2, <2>5 DEF Binding, BindInv, RouteInv
    <3> QED BY <1>2, <2>4, <3>1 DEF BoundTo
  <2>6. ASSUME NEW x \in Conn, NEW d \in 1 .. MaxEpoch, (route = Identity(x, d))'
        PROVE  (home[x] \in Serving /\ Minded(x, d))'
    <3>1. home[x] \in Serving /\ Minded(x, d)
      BY <1>3, <2>6 DEF MindInv, RouteInv, Identity
    <3> QED BY <1>2, <2>4, <3>1 DEF Minded
  <2>7. HomeInv'
    BY <1>2 DEF HomeInv, RouteInv
  <2> QED BY <2>2, <2>3, <2>5, <2>6, <2>7 DEF RouteInv, BindInv, MindInv
<1>4. CASE route' = id /\ leftover' = leftover \cup {c}
  <2>2. /\ NoticesStand /\ EventInv' /\ inbox' \in [Serving -> Seq(EventRec)]
    BY <1>2, SameStreams
  <2>3. TickTypes'
    BY <1>2, <2>2, SameTicks DEF TickTypes
  <2>4. \A x \in Conn, d \in 1 .. MaxEpoch : Noticed(x, d) => Noticed(x, d)'
    BY <1>2 DEF Noticed, Live, EndsSoon, Events
  <2>5. ASSUME NEW v \in Serving, NEW x \in Conn, NEW d \in 1 .. MaxEpoch, Binding(v, x, d)'
        PROVE  BoundTo(v, x, d)'
    <3>1. BoundTo(v, x, d)
      BY <1>2, <2>5 DEF Binding, BindInv, RouteInv
    <3> QED BY <1>2, <2>4, <3>1 DEF BoundTo
  <2>6. ASSUME NEW x \in Conn, NEW d \in 1 .. MaxEpoch, (route = Identity(x, d))'
        PROVE  (home[x] \in Serving /\ Minded(x, d))'
    <3>1. x = c
      BY <1>1, <1>4, <2>6 DEF Identity
    <3> QED BY <1>2, <1>4, <3>1 DEF Minded
  <2>7. HomeInv'
    BY <1>2 DEF HomeInv, RouteInv
  <2> QED BY <2>2, <2>3, <2>5, <2>6, <2>7 DEF RouteInv, BindInv, MindInv
<1> QED BY <1>1, <1>3, <1>4 DEF BindLate

\* A session begins again under a new epoch.
LEMMA RefreshKeepsAll ==
  ASSUME RouteInv, RouteTypeOK', NEW w \in Serving, NEW c \in Conn, RefreshSession(w, c)
  PROVE  RouteInv'
<1>1. PICK e \in 1 .. MaxEpoch : e = socket[c] + 1
  BY RouteFacts DEF RefreshSession
<1>2. /\ running[w] = "up" /\ doing[w] = Idle /\ home[c] = w /\ socket[c] # 0
      /\ socket' = [socket EXCEPT ![c] = e] /\ epoch' = [epoch EXCEPT ![c] = e]
      /\ UNCHANGED <<stray, running, home, inbox, leftover>>
  BY <1>1, RouteFacts DEF RefreshSession, IsIdle
<1>3. /\ socket'[c] = e /\ epoch'[c] = e
      /\ \A x \in Conn : x # c => socket'[x] = socket[x] /\ epoch'[x] = epoch[x]
  BY <1>2, RouteFacts
<1>4. \A v \in Serving : Events(v)' = Events(v) /\ Events(v) \subseteq EventRec
  BY <1>2, RouteFacts DEF Events, Items
<1>5. EventInv'
  <2>1. ASSUME NEW v \in Serving, NEW m \in Events(v)
        PROVE  /\ home[m.conn] = v
               /\ m.kind = "disconnected" => socket'[m.conn] = 0
               /\ m.kind = "connected" => m.epoch = 1
    <3>1. /\ home[m.conn] = v
          /\ m.kind = "disconnected" => socket[m.conn] = 0
          /\ m.kind = "connected" => m.epoch = 1
      BY DEF EventInv, RouteInv
    <3>2. m.conn \in Conn
      BY <1>4 DEF EventRec
    <3>3. m.kind = "disconnected" => m.conn # c
      BY <1>2, <3>1
    <3> QED BY <1>3, <3>1, <3>2, <3>3
  <2> QED BY <1>2, <1>4, <2>1 DEF EventInv
<1>6. ASSUME NEW x \in Conn, NEW d \in 1 .. MaxEpoch, x # c, home[x] \in Serving, Noticed(x, d)
      PROVE  Noticed(x, d)'
  BY <1>2, <1>3, <1>4, <1>6 DEF Noticed, Live, EndsSoon
<1>7. CASE StartBind(w, c, e) /\ UNCHANGED route
  <2>1. Noticed(c, e)'
    BY <1>3 DEF Noticed, Live
  <2>2. /\ BindInv' /\ MindInv'
        /\ DOMAIN doing' = Serving /\ (\A v \in Serving : TickOK(v, doing[v]))'
        /\ \A x \in Conn : bound'[x] = IF x = c THEN e ELSE bound[x]
        /\ \A v \in Serving : v # w => doing'[v] = doing[v]
    BY <1>2, <1>3, <1>6, <1>7, <2>1, BindingKeepsAll
  <2>3. HomeInv'
    <3>1. HomeInv
      BY DEF RouteInv
    <3>2. \A x \in Conn : home[x] = Nobody => socket'[x] = 0 /\ epoch'[x] = 0 /\ bound'[x] = 0
      BY <1>2, <1>3, <2>2, <3>1 DEF HomeInv
    <3>3. \A x \in Conn : bound'[x] > 0 /\ socket'[x] = bound'[x] => epoch'[x] = bound'[x]
      BY <1>3, <2>2, <3>1 DEF HomeInv
    <3>4. \A x \in Conn : socket'[x] > 0 => running[home[x]] # "down"
      BY <1>2, <1>3, <3>1 DEF HomeInv
    <3>5. \A v \in Serving : running'[v] = "down" => inbox'[v] = <<>> /\ doing'[v] = Idle
      BY <1>2, <2>2, DownStays
    <3> QED BY <1>2, <3>1, <3>2, <3>3, <3>4, <3>5 DEF HomeInv
  <2>4. TickTypes'
    BY <1>2, <2>2, RouteFacts DEF TickTypes
  <2> QED BY <1>5, <2>2, <2>3, <2>4 DEF RouteInv
<1>8. CASE /\ Erase(c, bound[c]) /\ bound' = [bound EXCEPT ![c] = 0] /\ UNCHANGED doing
  <2>1. bound'[c] = 0 /\ \A x \in Conn : x # c => bound'[x] = bound[x]
    BY <1>8, RouteFacts
  <2>2. TickTypes'
    BY <1>2, <1>8, SameTicks, RouteFacts DEF TickTypes
  <2>3. ASSUME NEW v \in Serving, NEW x \in Conn, NEW d \in 1 .. MaxEpoch, Binding(v, x, d)'
        PROVE  BoundTo(v, x, d)'
    <3>1. Binding(v, x, d)
      BY <1>8, <2>3 DEF Binding
    <3>2. BoundTo(v, x, d) /\ home[x] = v
      BY <3>1, RouteFacts DEF BindInv, RouteInv, Binding, TickOK, Of
    <3>3. x # c
      BY <1>2, <3>1, <3>2 DEF Binding, Idle
    <3>4. Noticed(x, d) => Noticed(x, d)'
      BY <1>6, <3>2, <3>3
    <3> QED BY <1>2, <1>3, <2>1, <3>2, <3>3, <3>4 DEF BoundTo
  <2>4. ASSUME NEW x \in Conn, NEW d \in 1 .. MaxEpoch, (route = Identity(x, d))'
        PROVE  (home[x] \in Serving /\ Minded(x, d))'
    <3>1. route = Identity(x, d)
      <4>1. route' = Identity(x, d) /\ Identity(x, d) # NoRoute
        BY <2>4 DEF Identity, NoRoute
      <4> QED BY <1>8, <4>1 DEF Erase
    <3>2. home[x] \in Serving /\ Minded(x, d)
      BY <3>1 DEF MindInv, RouteInv
    <3>3. CASE x # c
      <4>1. Noticed(x, d) => Noticed(x, d)'
        BY <1>6, <3>2, <3>3
      <4> QED BY <1>2, <1>8, <2>1, <3>2, <3>3, <4>1 DEF Minded
    <3>4. CASE x = c
      <4>1. bound[c] # d
        BY <1>8, <2>4, <3>1, <3>4 DEF Erase, Erases, Identity, NoRoute
      <4>2. doing[home[c]].at # "bind"
        BY <1>2 DEF Idle
      <4> QED BY <1>2, <3>2, <3>4, <4>1, <4>2 DEF Minded
    <3> QED BY <3>3, <3>4
  <2>5. HomeInv'
    <3>1. HomeInv
      BY DEF RouteInv
    <3>2. \A x \in Conn : home[x] = Nobody => socket'[x] = 0 /\ epoch'[x] = 0 /\ bound'[x] = 0
      BY <1>2, <1>3, <2>1, <3>1 DEF HomeInv
    <3>3. \A x \in Conn : bound'[x] > 0 /\ socket'[x] = bound'[x] => epoch'[x] = bound'[x]
      BY <1>3, <2>1, <3>1 DEF HomeInv
    <3>4. \A x \in Conn : socket'[x] > 0 => running[home[x]] # "down"
      BY <1>2, <1>3, <3>1 DEF HomeInv
    <3> QED BY <1>2, <1>8, <3>1, <3>2, <3>3, <3>4 DEF HomeInv
  <2> QED BY <1>5, <2>2, <2>3, <2>4, <2>5 DEF RouteInv, BindInv, MindInv
<1> QED BY <1>1, <1>7, <1>8 DEF RefreshSession

\* Workers end: their streams and what they do are gone, and so are their sockets.
LEMMA EndingKeepsAll ==
  ASSUME RouteInv, RouteTypeOK', NEW W \in SUBSET Serving,
         UNCHANGED <<home, epoch, stray>>, leftover \subseteq leftover',
         route' = route \/ route' = NoRoute,
         \A v \in Serving : running'[v] = IF v \in W THEN "down" ELSE running[v],
         DOMAIN doing' = Serving,
         \A v \in Serving : doing'[v] = IF v \in W THEN Idle ELSE doing[v],
         inbox' \in [Serving -> Seq(EventRec)],
         \A v \in Serving : inbox'[v] = IF v \in W THEN <<>> ELSE inbox[v],
         \A c \in Conn : socket'[c] = IF home[c] \in W THEN 0 ELSE socket[c],
         \A c \in Conn : bound'[c] = 0 \/ bound'[c] = bound[c],
         \A c \in Conn : home[c] \notin W => bound'[c] = bound[c],
         \A c \in Conn : route' # NoRoute /\ route.conn = c /\ home[c] \in W => c \in leftover'
  PROVE  RouteInv'
<1>1. \A v \in Serving : v \notin W => Events(v)' = Events(v)
  BY DEF Events
<1>2. \A v \in Serving : v \in W => Events(v)' = {}
  BY DEF Events, Items
<1>3. EventInv'
  <2>1. ASSUME NEW v \in Serving, NEW m \in Events(v)'
        PROVE  /\ home[m.conn] = v
               /\ m.kind = "disconnected" => socket'[m.conn] = 0
               /\ m.kind = "connected" => m.epoch = 1
    <3>1. v \notin W /\ m \in Events(v)
      BY <1>1, <1>2, <2>1
    <3>2. /\ home[m.conn] = v
          /\ m.kind = "disconnected" => socket[m.conn] = 0
          /\ m.kind = "connected" => m.epoch = 1
      BY <3>1 DEF EventInv, RouteInv
    <3>3. m.conn \in Conn
      <4>1. Events(v) \subseteq EventRec
        BY RouteFacts DEF Events, Items
      <4> QED BY <3>1, <4>1 DEF EventRec
    <3> QED BY <3>1, <3>2, <3>3
  <2> QED BY <2>1 DEF EventInv
<1>4. TickTypes'
  <2>1. \A v \in Serving : Of(v)' = Of(v)
    BY DEF Of
  <2>2. \A v \in Serving : TickOK(v, doing[v])'
    <3> SUFFICES ASSUME NEW v \in Serving PROVE TickOK(v, doing[v])'
      OBVIOUS
    <3>1. CASE v \in W
      BY <3>1 DEF TickOK, Idle
    <3>2. CASE v \notin W
      BY <2>1, <3>2, RouteFacts DEF TickOK
    <3> QED BY <3>1, <3>2
  <2> QED BY <2>2 DEF TickTypes
<1>5. ASSUME NEW x \in Conn, NEW d \in 1 .. MaxEpoch, home[x] \in Serving \ W, Noticed(x, d)
      PROVE  Noticed(x, d)'
  <2>1. PICK v \in Serving : v = home[x] /\ v \notin W
    BY <1>5
  <2>2. socket'[x] = socket[x] /\ home'[x] = v /\ Events(v)' = Events(v) /\ epoch'[x] = epoch[x]
    BY <1>1, <2>1
  <2> QED BY <1>5, <2>1, <2>2 DEF Noticed, Live, EndsSoon
<1>6. ASSUME NEW v \in Serving, NEW x \in Conn, NEW d \in 1 .. MaxEpoch, Binding(v, x, d)'
      PROVE  BoundTo(v, x, d)'
  <2>1. v \notin W /\ Binding(v, x, d)
    BY <1>6 DEF Binding, Idle
  <2>2. BoundTo(v, x, d) /\ home[x] = v
    BY <2>1, RouteFacts DEF BindInv, RouteInv, Binding, TickOK, Of
  <2>3. Noticed(x, d) => Noticed(x, d)'
    BY <1>5, <2>1, <2>2
  <2> QED BY <2>1, <2>2, <2>3 DEF BoundTo
<1>7. ASSUME NEW x \in Conn, NEW d \in 1 .. MaxEpoch, (route = Identity(x, d))'
      PROVE  (home[x] \in Serving /\ Minded(x, d))'
  <2>1. route' # NoRoute /\ route = Identity(x, d) /\ route.conn = x
    BY <1>7 DEF Identity, NoRoute
  <2>2. home[x] \in Serving /\ Minded(x, d)
    BY <2>1 DEF MindInv, RouteInv
  <2>3. CASE home[x] \in W
    BY <2>1, <2>2, <2>3 DEF Minded
  <2>4. CASE home[x] \notin W
    <3>1. Noticed(x, d) => Noticed(x, d)'
      BY <1>5, <2>2, <2>4
    <3> QED BY <2>2, <2>4, <3>1 DEF Minded
  <2> QED BY <2>3, <2>4
<1>8. HomeInv'
  <2>1. HomeInv
    BY DEF RouteInv
  <2>2. \A x \in Conn : home[x] = Nobody => socket'[x] = 0 /\ bound'[x] = 0
    BY <2>1 DEF HomeInv
  <2>3. \A x \in Conn : bound'[x] > 0 /\ socket'[x] = bound'[x] => epoch[x] = bound'[x]
    <3> SUFFICES ASSUME NEW x \in Conn, bound'[x] > 0, socket'[x] = bound'[x]
                 PROVE  epoch[x] = bound'[x]
      OBVIOUS
    <3>1. bound'[x] = bound[x] /\ socket'[x] # 0
      <4>1. ~(0 > 0)
        OBVIOUS
      <4>2. bound'[x] # 0
        BY <4>1, Zenon
      <4> QED BY <4>2
    <3>2. socket[x] = bound[x] /\ bound[x] > 0
      BY <3>1
    <3> QED BY <2>1, <3>1, <3>2 DEF HomeInv
  <2>4. \A x \in Conn : socket'[x] > 0 => running'[home[x]] # "down"
    <3> SUFFICES ASSUME NEW x \in Conn, socket'[x] > 0
                 PROVE  running'[home[x]] # "down"
      OBVIOUS
    <3>1. home[x] \notin W /\ socket[x] > 0
      <4>1. ~(0 > 0)
        OBVIOUS
      <4>2. socket'[x] # 0
        BY <4>1, Zenon
      <4> QED BY <4>2
    <3>2. home[x] # Nobody /\ running[home[x]] # "down"
      <4>1. ~(0 > 0)
        OBVIOUS
      <4> QED BY <2>1, <3>1, <4>1 DEF HomeInv
    <3> QED BY <3>1, <3>2, RouteFacts
  <2>5. \A v \in Serving : running'[v] = "down" => inbox'[v] = <<>> /\ doing'[v] = Idle
    BY <2>1 DEF HomeInv
  <2> QED BY <2>1, <2>2, <2>3, <2>4, <2>5 DEF HomeInv
<1> QED BY <1>3, <1>4, <1>6, <1>7, <1>8 DEF RouteInv, BindInv, MindInv

\* A worker stops: what it has registered is erased or left to its expiry.
LEMMA StoppedKeepsAll ==
  ASSUME RouteInv, RouteTypeOK', NEW w \in Serving, WorkerStopped(w)
  PROVE  RouteInv'
<1>1. /\ UNCHANGED <<home, epoch, stray>>
      /\ \A v \in Serving : running'[v] = IF v \in {w} THEN "down" ELSE running[v]
      /\ \A v \in Serving : inbox'[v] = IF v \in {w} THEN <<>> ELSE inbox[v]
      /\ inbox' \in [Serving -> Seq(EventRec)]
      /\ \A c \in Conn : socket'[c] = IF home[c] \in {w} THEN 0 ELSE socket[c]
      /\ \A c \in Conn : bound'[c] = 0 \/ bound'[c] = bound[c]
      /\ \A c \in Conn : home[c] \notin {w} => bound'[c] = bound[c]
  BY RouteFacts DEF WorkerStopped
<1>2. /\ DOMAIN doing' = Serving
      /\ \A v \in Serving : doing'[v] = IF v \in {w} THEN Idle ELSE doing[v]
  BY RouteFacts DEF WorkerStopped, Goes
<1>3. CASE /\ route.conn \in Of(w) /\ Erases(route.conn, bound[route.conn])
           /\ EraseOrLeave(route.conn, bound[route.conn])
  <2>1. \/ route' = NoRoute /\ UNCHANGED leftover
        \/ UNCHANGED route /\ leftover' = leftover \cup {route.conn}
    BY <1>3 DEF EraseOrLeave, Erase
  <2>2. /\ leftover \subseteq leftover' /\ (route' = route \/ route' = NoRoute)
        /\ \A c \in Conn : route' # NoRoute /\ route.conn = c /\ home[c] \in {w} => c \in leftover'
    BY <2>1
  <2> QED BY <1>1, <1>2, <2>2, EndingKeepsAll, ZenonT(40)
<1>4. CASE /\ ~(route.conn \in Of(w) /\ Erases(route.conn, bound[route.conn]))
           /\ UNCHANGED route
           /\ leftover' = leftover \cup
                {c \in {route.conn} : doing[w].at = "bind" /\ doing[w].conn = c}
  <2>1. ASSUME NEW c \in Conn, route' # NoRoute, route.conn = c, home[c] = w
        PROVE  c \in leftover'
    <3>1. PICK e \in 1 .. MaxEpoch : route = Identity(c, e)
      BY <1>4, <2>1, RouteFacts DEF Identities, Identity, NoRoute
    <3>2. bound[c] # e
      BY <1>4, <2>1, <3>1 DEF Erases, Of, Identity
    <3>3. Minded(c, e)
      BY <3>1 DEF MindInv, RouteInv
    <3> QED BY <1>4, <2>1, <3>2, <3>3 DEF Minded
  <2>2. leftover \subseteq leftover'
    BY <1>4
  <2> QED BY <1>1, <1>2, <1>4, <2>1, <2>2, EndingKeepsAll
<1> QED BY <1>3, <1>4 DEF WorkerStopped

\* A process dies: what it had bound is left to its expiry.
LEMMA DieKeepsAll ==
  ASSUME RouteInv, RouteTypeOK', NEW p \in Process, Die(p)
  PROVE  RouteInv'
<1>1. PICK W \in SUBSET Serving : W = {w \in Serving : ProcessOf[w] = p}
  OBVIOUS
<1>2. /\ UNCHANGED <<home, epoch, stray, bound, route>>
      /\ \A v \in Serving : running'[v] = IF v \in W THEN "down" ELSE running[v]
      /\ \A v \in Serving : inbox'[v] = IF v \in W THEN <<>> ELSE inbox[v]
      /\ inbox' \in [Serving -> Seq(EventRec)]
      /\ \A c \in Conn : socket'[c] = IF home[c] \in W THEN 0 ELSE socket[c]
      /\ leftover' = leftover \cup {c \in Conn : home[c] \in W}
  BY <1>1, RouteFacts DEF Die, redisVars
<1>3. /\ DOMAIN doing' = Serving
      /\ \A v \in Serving : doing'[v] = IF v \in W THEN Idle ELSE doing[v]
  BY <1>1, RouteFacts DEF Die
<1> QED BY <1>2, <1>3, EndingKeepsAll

----------------------------------------------------------------------------
(* Routes: the theorems                                                    *)

\* In the beginning nothing is bound.
LEMMA RoutesBegin ==
  ASSUME InitRoutes
  PROVE  RouteInv
<1>1. RouteTypeOK
  BY DEF InitRoutes, RouteTypeOK, Identities
<1>2. TickTypes
  BY DEF InitRoutes, TickTypes, TickOK, Idle
<1>3. EventInv
  BY DEF InitRoutes, EventInv, Events, Items
<1>4. BindInv /\ MindInv
  BY DEF InitRoutes, BindInv, MindInv, Binding, Idle, Identity, NoRoute
<1>5. HomeInv
  BY DEF InitRoutes, HomeInv
<1> QED BY <1>1, <1>2, <1>3, <1>4, <1>5 DEF RouteInv

\* Every step keeps the invariant.
LEMMA RoutesStep ==
  ASSUME RouteInv, NextRoutes
  PROVE  RouteInv'
<1>1. RouteTypeOK'
  BY RouteTypes
<1>2. ASSUME NEW w \in Serving, Tick(w)
      PROVE  RouteInv'
  <2>1. CASE Advance(w)
    BY <1>1, <2>1, BindKeepsAll, AnnounceKeepsAll, CheckKeepsAll, RenewKeepsAll,
       AfterRenewKeepsAll DEF Advance
  <2>2. ASSUME NEW c \in Conn, RefreshSession(w, c)
        PROVE  RouteInv'
    BY <1>1, <2>2, RefreshKeepsAll
  <2> QED BY <1>1, <1>2, <2>1, <2>2, RetainKeepsAll, TimeKeepsAll,
             IngressKeepsAll,
             TakeControlKeepsAll, CloseUnownedKeepsAll DEF Tick
<1>3. ASSUME NEW w \in Serving, StopWorker(w) \/ WorkerStopped(w)
      PROVE  RouteInv'
  BY <1>1, <1>3, TimeKeepsAll, StoppedKeepsAll
<1>4. ASSUME NEW w \in Serving, NEW c \in Conn, Accept(w, c)
      PROVE  RouteInv'
  BY <1>1, <1>4, AcceptKeepsAll
<1>5. ASSUME NEW c \in Conn, EndOfFile(c) \/ Packet(c)
      PROVE  RouteInv'
  BY <1>1, <1>5, EndOfFileKeepsAll, PacketKeepsAll
<1>6. ASSUME NEW id \in stray, BindLate(id)
      PROVE  RouteInv'
  BY <1>1, <1>6, LateBindKeepsAll
<1>7. CASE Expire \/ OwnerExpires
  BY <1>1, <1>7, TimeKeepsAll
<1>8. ASSUME NEW p \in Process, Die(p)
      PROVE  RouteInv'
  BY <1>1, <1>8, DieKeepsAll
<1> QED BY <1>2, <1>3, <1>4, <1>5, <1>6, <1>7, <1>8 DEF NextRoutes

\* So do steps of others.
LEMMA RoutesStutter ==
  ASSUME RouteInv, UNCHANGED routeVars
  PROVE  RouteInv'
BY DEF RouteInv, routeVars, RouteTypeOK, TickTypes, TickOK, Of, EventInv,
   Events, Items, BindInv,
       Binding, BoundTo, Noticed, Live, EndsSoon, HomeInv, MindInv, Minded, Identity

\* The invariant holds always.
LEMMA RoutesHold == SpecRoutes => []RouteInv
BY RoutesBegin, RoutesStep, RoutesStutter, PTL DEF SpecRoutes

\* The route that is in Redis is of a live connection, or somebody is about to
\* notice that it is not (RouteSafety).
THEOREM RoutesAreSafe == SpecRoutes => []RouteSafety
<1>1. RouteInv => RouteSafety
  <2> SUFFICES ASSUME RouteInv PROVE RouteSafety
    OBVIOUS
  <2>1. ASSUME route # NoRoute PROVE Cleaned(route)
    <3>1. PICK c \in Conn, e \in 1 .. MaxEpoch : route = Identity(c, e)
      BY <2>1, RouteFacts DEF Identities, Identity
    <3>2. route.conn = c /\ route.epoch = e
      BY <3>1 DEF Identity
    <3>3. home[c] \in Serving /\ Minded(c, e)
      BY <3>1 DEF MindInv, RouteInv
    <3>4. CASE c \in leftover
      BY <3>2, <3>4 DEF Cleaned
    <3>5. CASE Live(c, e)
      BY <3>2, <3>5 DEF Cleaned
    <3>6. CASE running[home[c]] = "stopping"
      BY <3>2, <3>6 DEF Cleaned
    <3>7. CASE doing[home[c]].at = "bind" /\ doing[home[c]].conn = c
      BY <3>2, <3>7 DEF Cleaned
    <3>8. CASE bound[c] = e /\ EndsSoon(c)
      <4>1. PICK n \in DOMAIN inbox[home[c]] :
              /\ inbox[home[c]][n].kind = "disconnected" /\ inbox[home[c]][n].conn = c
              /\ inbox[home[c]][n].epoch = epoch[c]
        BY <3>8 DEF EndsSoon, Events, Items
      <4> QED BY <3>2, <3>8, <4>1 DEF Cleaned
    <3> QED BY <3>3, <3>4, <3>5, <3>6, <3>7, <3>8 DEF Minded, Noticed
  <2> QED BY <2>1 DEF RouteSafety, DeadRoutesAreCleaned, RouteInv
<1> QED BY <1>1, RoutesHold, PTL

\* No clean-up of an earlier connection takes the route of a live connection of a
\* worker that is up, in any step that is not a failure (LiveRouteIsKept).
THEOREM LiveRoutesStand == SpecRoutes => LiveRouteIsKept
<1> DEFINE Kept == \/ route = NoRoute \/ route' = route
                   \/ ~Live(route.conn, route.epoch) \/ running[home[route.conn]] # "up"
                   \/ socket'[route.conn] # socket[route.conn]
                   \/ route' # NoRoute
                   \/ mishaps' # mishaps
<1>1. ASSUME RouteInv, NextRoutes
      PROVE  Kept
  <2> SUFFICES ASSUME route # NoRoute, route' # route,
                      Live(route.conn, route.epoch), running[home[route.conn]] = "up",
                      socket'[route.conn] = socket[route.conn],
                      route' = NoRoute, mishaps' = mishaps
               PROVE  FALSE
    BY DEF Kept
  <2> USE RouteInv, RouteFacts
  <2>1. PICK c \in Conn, e \in 1 .. MaxEpoch : route = Identity(c, e)
    BY DEF Identities, Identity
  <2>2. /\ route.conn = c /\ route.epoch = e /\ socket[c] = e /\ running[home[c]] = "up"
        /\ socket'[c] = e /\ home[c] \in Serving
    BY <2>1 DEF Identity, Live, MindInv, RouteInv
  <2>3. mishaps' # mishaps + 1
    OBVIOUS
  <2>4. ASSUME NEW w \in Serving, Check(w)
        PROVE  FALSE
    <3>1. doing[w].at = "check" /\ doing[w].conn \in Conn /\ home[doing[w].conn] = w
          /\ doing[w].epoch \in 1 .. MaxEpoch
      BY <2>4 DEF Check, Is, TickOK, Of
    <3>2. Erase(doing[w].conn, doing[w].epoch)
      BY <2>3, <2>4 DEF Check, EraseOrLeave, Mishap
    <3>3. c = doing[w].conn /\ e = doing[w].epoch
      BY <2>1, <3>2 DEF Erase, Erases, Identity
    <3>4. epoch[c] = e
      BY <3>1, <3>3 DEF BindInv, RouteInv, Binding, BoundTo
    <3> QED BY <2>2, <2>4, <3>1, <3>3, <3>4 DEF Check, Live
  <2>5. ASSUME NEW w \in Serving, TakeIngress(w)
        PROVE  FALSE
    <3>1. PICK m : m = Head(inbox[w])
      OBVIOUS
    <3>2. m \in Events(w) /\ (TakeConnected(w, m) \/ TakePacket(w, m) \/ TakeDisconnected(w, m))
      BY <2>5, <3>1, IngressFrame, IngressEffect
    <3>3. TakeDisconnected(w, m) /\ Erase(m.conn, bound[m.conn])
      BY <2>3, <3>2 DEF TakeConnected, TakePacket, TakeDisconnected, Mishap
    <3>4. m.conn = c
      BY <2>1, <3>3 DEF Erase, Erases, Identity
    <3>5. socket[c] = 0
      BY <3>2, <3>3, <3>4 DEF EventInv, RouteInv, TakeDisconnected
    <3> QED BY <2>2, <3>5
  <2>6. ASSUME NEW w \in Serving, NEW x \in Conn, RefreshSession(w, x)
        PROVE  FALSE
    BY <2>3, <2>6 DEF RefreshSession, Mishap
  <2>7. ASSUME NEW w \in Serving, AfterRenew(w)
        PROVE  FALSE
    <3>1. doing[w].conn \in Conn /\ home[doing[w].conn] = w
      BY <2>7 DEF AfterRenew, Is, TickOK, Of
    <3>2. /\ ~(running[w] = "up" /\ Live(doing[w].conn, bound[doing[w].conn]))
          /\ EraseOrLeave(doing[w].conn, bound[doing[w].conn])
      BY <2>7 DEF AfterRenew
    <3>3. Erase(doing[w].conn, bound[doing[w].conn])
      BY <2>3, <3>2 DEF EraseOrLeave, Mishap
    <3>4. doing[w].conn = c /\ bound[c] = e
      BY <2>1, <3>3 DEF Erase, Erases, Identity
    <3> QED BY <2>2, <3>1, <3>2, <3>4 DEF Live
  <2>8. ASSUME NEW w \in Serving, Bind(w)
        PROVE  FALSE
    BY <2>8 DEF Bind, Identity, NoRoute, Is, TickOK, Of
  <2>9. ASSUME NEW id \in stray, BindLate(id)
        PROVE  FALSE
    BY <2>9 DEF BindLate
  <2>10. CASE Expire
    <3>1. c # Nobody /\ Attended(c) /\ Live(c, e)
      BY <2>2 DEF Attended, Live
    <3> QED BY <2>2, <2>3, <2>10, <3>1 DEF Expire, Mishap
  <2>11. ASSUME NEW w \in Serving, WorkerStopped(w)
         PROVE  FALSE
    BY <2>2, <2>11 DEF WorkerStopped, Of
  <2>12. ASSUME NEW w \in Serving,
                Announce(w) \/ Renew(w) \/ Retain(w) \/ ConfigIsDue(w) \/ TakeControl(w)
                \/ CloseUnowned(w) \/ StopWorker(w)
         PROVE  FALSE
    BY <2>12 DEF Announce, Renew, Retain, ConfigIsDue, TakeControl,
       CloseUnowned, StopWorker,
                 redisVars
  <2>13. ASSUME NEW w \in Serving, NEW x \in Conn, Accept(w, x)
         PROVE  FALSE
    BY <2>13 DEF Accept, redisVars
  <2>14. ASSUME NEW x \in Conn, EndOfFile(x) \/ Packet(x)
         PROVE  FALSE
    BY <2>14 DEF EndOfFile, Packet, redisVars
  <2>15. ~OwnerExpires
    BY DEF OwnerExpires
  <2>16. \A p \in Process : ~Die(p)
    BY DEF Die, redisVars
  <2>17. \A w \in Serving : ~Tick(w)
    BY ONLY <2>4, <2>5, <2>6, <2>7, <2>8, <2>12, Zenon DEF Tick, Advance
  <2> QED BY ONLY <1>1, <2>9, <2>10, <2>11, <2>12, <2>13, <2>14, <2>15, <2>16,
             <2>17, Zenon
          DEF NextRoutes
<1>2. ASSUME UNCHANGED routeVars
      PROVE  Kept
  BY <1>2 DEF Kept, routeVars
<1>3. RouteInv /\ [NextRoutes]_routeVars => [Kept]_routeVars
  BY <1>1, <1>2
<1> QED BY <1>3, RoutesHold, PTL DEF SpecRoutes, LiveRouteIsKept

=============================================================================
