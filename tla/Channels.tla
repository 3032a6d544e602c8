------------------------------ MODULE Channels ------------------------------
(***************************************************************************)
(* The catalogue of channels, models and devices in PostgreSQL, under      *)
(* concurrent requests.  A device is bound to one channel (a row of link)  *)
(* and one model (a row of protocol_config).  Rows are deleted softly, so  *)
(* foreign keys do not keep a channel from vanishing under a device: what  *)
(* does is the pair of triggers bind_device_channel and                    *)
(* protect_channel_binding and the row locks they and the services take.   *)
(* Channels of edge nodes belong to physical endpoints: the device form    *)
(* configures the endpoint, several devices may share it, and the last one *)
(* to leave disables it.  The services serialise this by locking the row   *)
(* of the node.                                                            *)
(*                                                                         *)
(* PostgreSQL runs at READ COMMITTED: a statement sees what was committed  *)
(* when it began and the writes of its own transaction, a writer waits for *)
(* the row locks of others and then sees the row as they left it.  One     *)
(* action is one statement, or several when nothing can come between them. *)
(* Requests read the state of their device before they begin the           *)
(* transaction, so that read may be stale.  A request may fail at any      *)
(* point (Abort): validation, a lost connection, a deadlock.               *)
(***************************************************************************)
EXTENDS Integers, FiniteSets

CONSTANTS
  Device,       \* ids of devices; a deleted id is not used again
  Collector,    \* ids of channels that run on the server
  Endpoint,     \* physical endpoints of edge nodes, each with its channel
  NodeOf,       \* the node of an endpoint; nodes are ordered by their ids
  Model,        \* device models
  ProtocolOf,   \* the protocol of a model, which never changes
  Settings,     \* serial parameters of an endpoint
  Txn,          \* requests that are under way at the same time
  MaxRequests   \* bound on the number of requests

Link == Collector \cup Endpoint
Node == {NodeOf[e] : e \in Endpoint}
Protocol == {ProtocolOf[m] : m \in Model}
Unset == "none"

ASSUME CatalogConstants ==
  /\ NodeOf \in [Endpoint -> Nat] /\ Collector \cap Endpoint = {}
  /\ Unset \notin Link \cup Model \cup Device \cup Protocol \cup Settings
  /\ MaxRequests \in Nat

VARIABLES
  link,       \* committed rows of link
  model,      \* models that are not deleted
  device,     \* committed rows of device
  txn,        \* the request a connection works for
  held,       \* row locks of its transaction
  requests    \* requests begun so far

catalogVars == <<link, model, device, txn, held, requests>>

LinkRow == [state : {"absent", "live", "deleted"}, enabled : BOOLEAN,
            protocol : Protocol \cup {Unset}, settings : Settings \cup {Unset}]
\* settings: what the device asked of its endpoint; Unset when it named its
\* channel by id.  It stands in no column of the row.
DeviceRow == [state : {"absent", "live", "deleted"},
              link : Link \cup {Unset}, model : Model \cup {Unset},
              settings : Settings \cup {Unset}]

NoRow == [state |-> "absent", link |-> Unset, model |-> Unset, settings |-> Unset]

Lock == ({"node"} \X Node) \cup ({"link", "share"} \X Link)
          \cup ({"device"} \X Device)

Live(d) == device[d].state = "live"
Attached(l) == {d \in Device : Live(d) /\ device[d].link = l}
IsEdge(l) == l \in Endpoint

Conflict(x, y) ==
  /\ \/ x[1] = y[1] /\ x[1] # "share"
     \/ {x[1], y[1]} = {"link", "share"}
  /\ x[2] = y[2]

\* A row another transaction has locked is waited for.
Free(t, x) == \A u \in Txn \ {t} : \A y \in held[u] : ~Conflict(x, y)
Take(t, locks) ==
  /\ \A x \in locks : Free(t, x)
  /\ held' = [held EXCEPT ![t] = @ \cup locks]

Idle == [op |-> "idle", dev |-> Unset, link |-> Unset, model |-> Unset,
         protocol |-> Unset, settings |-> Unset, prior |-> Unset,
         priorModel |-> Unset, stage |-> "idle", rows |-> <<>>, row |-> NoRow]

InitCatalog ==
  /\ link = [l \in Link |->
       [state |-> "absent", enabled |-> FALSE, protocol |-> Unset,
        settings |-> Unset]]
  /\ model = Model
  /\ device = [d \in Device |-> NoRow]
  /\ txn = [t \in Txn |-> Idle]
  /\ held = [t \in Txn |-> {}]
  /\ requests = 0

Request(t) ==
  /\ txn[t].op = "idle" /\ requests < MaxRequests
  /\ requests' = requests + 1

At(t, stage) == txn[t].stage = stage
Goto(t, stage) == txn' = [txn EXCEPT ![t].stage = stage]
Committed == UNCHANGED <<link, model, device, requests>>

\* The row of a channel as the transaction sees it.
Row(t, l) == IF l \in DOMAIN txn[t].rows THEN txn[t].rows[l] ELSE link[l]
Write(t, l, r) ==
  [txn[t] EXCEPT !.rows =
     [k \in (DOMAIN @) \cup {l} |-> IF k = l THEN r ELSE txn[t].rows[k]]]

----------------------------------------------------------------------------
(* Requests that concern a device                                          *)

\* What the form asks for: a channel by its id, or an endpoint with the
\* protocol and the serial parameters it is to have.
ByLink == [link : Link, protocol : {Unset}, settings : {Unset}]
ByEndpoint == [link : Endpoint, protocol : Protocol, settings : Settings]
Unchanged == [link : {Unset}, protocol : {Unset}, settings : {Unset}]

BeginDevice(t, op, d, want, m) ==
  /\ Request(t)
  /\ txn' = [txn EXCEPT ![t] =
       [Idle EXCEPT !.op = op, !.dev = d, !.link = want.link, !.model = m,
          !.protocol = want.protocol, !.settings = want.settings,
          !.prior = device[d].link, !.priorModel = device[d].model,
          !.stage = "nodes"]]
  /\ UNCHANGED <<link, model, device, held>>

CreateDevice(t) ==
  \E d \in Device, want \in ByLink \cup ByEndpoint, m \in Model :
    /\ device[d].state = "absent"
    /\ \A u \in Txn : txn[u].dev # d
    /\ BeginDevice(t, "create", d, want, m)

UpdateDevice(t) ==
  \E d \in Device, want \in Unchanged \cup ByLink \cup ByEndpoint,
     m \in Model \cup {Unset} :
    Live(d) /\ BeginDevice(t, "update", d, want, m)

RemoveDevice(t) ==
  \E d \in Device :
    \E want \in Unchanged : Live(d) /\ BeginDevice(t, "remove", d, want, Unset)

ConfiguresEndpoint(t) == txn[t].protocol # Unset

\* lockConnectionNodes: the node the device leaves and the one it joins.
NodesOf(t) ==
  {NodeOf[l] : l \in Endpoint \cap
     ({txn[t].prior} \cup
      (IF ConfiguresEndpoint(t) THEN {txn[t].link} ELSE {}))}

NodesToLock(t) == {n \in NodesOf(t) : <<"node", n>> \notin held[t]}

\* A std::set of ids: the locks are taken in the order of the ids.
NextNode(t) ==
  {n \in NodesToLock(t) : \A k \in NodesToLock(t) : n <= k}

LockNode(t) ==
  /\ At(t, "nodes")
  /\ \E n \in NextNode(t) : Take(t, {<<"node", n>>})
  /\ UNCHANGED txn /\ Committed

NodesLocked(t) ==
  /\ At(t, "nodes") /\ NodesToLock(t) = {}
  /\ Goto(t, IF ConfiguresEndpoint(t) THEN "endpoint"
             ELSE IF txn[t].op = "remove" THEN "write" ELSE "validate")
  /\ UNCHANGED held /\ Committed

Target(t) == IF txn[t].link = Unset THEN txn[t].prior ELSE txn[t].link
TargetModel(t) == IF txn[t].model = Unset THEN txn[t].priorModel ELSE txn[t].model

SameSettings(t) ==
  /\ link[txn[t].link].protocol = txn[t].protocol
  /\ link[txn[t].link].settings = txn[t].settings

\* The device the form is about does not count, unless the protocol changes.
InTheWay(t) ==
  Attached(txn[t].link) \
    (IF txn[t].op = "update" /\ link[txn[t].link].protocol = txn[t].protocol
     THEN {txn[t].dev} ELSE {})

\* configureDeviceEndpoint up to its lookups: the channel of the endpoint is
\* used again; other parameters need that no other device is attached.
FindEndpoint(t) ==
  LET l == txn[t].link
  IN
  /\ At(t, "endpoint")
  /\ link[l].state = "live" => SameSettings(t) \/ InTheWay(t) = {}
  /\ Goto(t, IF link[l].state = "live" /\ link[l].enabled /\ SameSettings(t)
             THEN "validate" ELSE "configure")
  /\ UNCHANGED held /\ Committed

\* protect_channel_binding, BEFORE UPDATE: the identity of a channel cannot
\* change while a device that is not deleted is bound to it.
GuardChannel(t, l, r) ==
  \/ Attached(l) = {}
  \/ r.protocol = Row(t, l).protocol /\ r.state = Row(t, l).state

ConfigureEndpoint(t) ==
  LET l == txn[t].link
      r == [state |-> "live", enabled |-> TRUE,
            protocol |-> txn[t].protocol, settings |-> txn[t].settings]
  IN
  /\ At(t, "configure")
  /\ Take(t, {<<"link", l>>})
  /\ link[l].state = "live" => GuardChannel(t, l, r)
  /\ txn' = [txn EXCEPT ![t] = [Write(t, l, r) EXCEPT !.stage = "validate"]]
  /\ Committed

\* validate and the query for the target: both rows exist and fit together.
ValidateDevice(t) ==
  LET r == Row(t, Target(t))
  IN
  /\ At(t, "validate")
  /\ r.state = "live" /\ TargetModel(t) \in model
  /\ r.protocol = ProtocolOf[TargetModel(t)]
  /\ Goto(t, "write")
  /\ UNCHANGED held /\ Committed

\* The row that INSERT or UPDATE leaves.  A column whose target equals what
\* the request read before its transaction is not assigned; the UPDATE finds
\* its row by id alone.
NewRow(t) ==
  LET old == device[txn[t].dev]
      l == IF txn[t].op = "create" \/ Target(t) # txn[t].prior
           THEN Target(t) ELSE old.link
  IN CASE txn[t].op = "remove" -> [old EXCEPT !.state = "deleted"]
       [] OTHER ->
          [state |-> IF txn[t].op = "create" THEN "live" ELSE old.state,
           link |-> l,
           model |-> IF txn[t].model = Unset THEN old.model ELSE txn[t].model,
           settings |-> IF ConfiguresEndpoint(t) /\ l = Target(t)
                        THEN txn[t].settings
                        ELSE IF l = old.link THEN old.settings ELSE Unset]

\* bind_device_channel, BEFORE INSERT OR UPDATE: reads the channel FOR SHARE.
BindGuard(t, row) ==
  /\ row.state = "live" => Row(t, row.link).state # "deleted"
  /\ Row(t, row.link).state # "absent"
  /\ Row(t, row.link).protocol = ProtocolOf[row.model]

BugReadsChannelOnly(t, row) == {<<"device", txn[t].dev>>}

BindLocks(t, row) == {<<"device", txn[t].dev>>, <<"share", row.link>>}

ConnectionChanged(t) ==
  \/ Target(t) # txn[t].prior
  \/ TargetModel(t) # txn[t].priorModel

WriteDevice(t) ==
  LET row == NewRow(t)
  IN
  /\ At(t, "write")
  /\ Take(t, BindLocks(t, row))
  /\ BindGuard(t, row)
  /\ txn' = [txn EXCEPT ![t].row = row,
       ![t].stage =
         IF /\ txn[t].op # "create" /\ IsEdge(txn[t].prior)
            /\ txn[t].op = "update" => ConnectionChanged(t)
         THEN "retire" ELSE "commit"]
  /\ Committed

\* retireUnusedDeviceEndpoint: one UPDATE.  Its NOT EXISTS is evaluated when
\* it starts; waiting for the row afterwards does not evaluate it again.
SeenAttached(t, l) ==
  (Attached(l) \ {txn[t].dev}) \cup
  (IF txn[t].row.state = "live" /\ txn[t].row.link = l THEN {txn[t].dev} ELSE {})

FindUnused(t) ==
  LET l == txn[t].prior
  IN
  /\ At(t, "retire")
  /\ Goto(t, IF SeenAttached(t, l) = {} /\ Row(t, l).enabled
             THEN "disable" ELSE "commit")
  /\ UNCHANGED held /\ Committed

DisableUnused(t) ==
  LET l == txn[t].prior
  IN
  /\ At(t, "disable")
  /\ Take(t, {<<"link", l>>})
  /\ txn' = [txn EXCEPT ![t] =
       [Write(t, l, [Row(t, l) EXCEPT !.enabled = FALSE])
          EXCEPT !.stage = "commit"]]
  /\ Committed

----------------------------------------------------------------------------
(* Requests that concern a channel of the server or a model                *)

BeginOther(t, op, l, m, stage) ==
  /\ Request(t)
  /\ txn' = [txn EXCEPT ![t] =
       [Idle EXCEPT !.op = op, !.link = l, !.model = m, !.stage = stage]]
  /\ UNCHANGED <<link, model, device, held>>

\* A new id, enabled or not, of any protocol.
CreateLink(t) ==
  \E l \in Collector, p \in Protocol, on \in BOOLEAN :
    /\ link[l].state = "absent"
    /\ \A u \in Txn : txn[u].link # l \/ txn[u].op # "link"
    /\ Request(t)
    /\ txn' = [txn EXCEPT ![t] =
         [Idle EXCEPT !.op = "link", !.link = l, !.stage = "commit",
            !.rows = [k \in {l} |->
               [state |-> "live", enabled |-> on, protocol |-> p,
                settings |-> Unset]]]]
    /\ held' = [held EXCEPT ![t] = {<<"link", l>>}]
    /\ UNCHANGED <<link, model, device>>

\* Mode and protocol cannot change; the status may, whoever is bound.
UpdateLink(t) ==
  \E l \in Collector :
    link[l].state = "live" /\ BeginOther(t, "toggle", l, Unset, "row")

\* Asks, outside its transaction, whether a device uses the channel.
RemoveLink(t) ==
  \E l \in Collector :
    /\ link[l].state = "live" /\ Attached(l) = {}
    /\ BeginOther(t, "drop", l, Unset, "row")

WriteLink(t) ==
  LET l == txn[t].link
      r == IF txn[t].op = "drop" THEN [link[l] EXCEPT !.state = "deleted"]
           ELSE [link[l] EXCEPT !.enabled = ~@]
  IN
  /\ At(t, "row")
  /\ Take(t, {<<"link", l>>})
  /\ IF link[l].state = "live"
     THEN /\ GuardChannel(t, l, r)
          /\ txn' = [txn EXCEPT ![t] = [Write(t, l, r) EXCEPT !.stage = "commit"]]
     ELSE Goto(t, "commit")
  /\ Committed

\* ProtocolService::remove looks for devices, then deletes; no trigger and
\* no lock protects the model in between.
RemoveModel(t) ==
  \E m \in model :
    /\ \A d \in Device : Live(d) => device[d].model # m
    /\ BeginOther(t, "model", Unset, m, "commit")

----------------------------------------------------------------------------
End(t) ==
  /\ txn' = [txn EXCEPT ![t] = Idle]
  /\ held' = [held EXCEPT ![t] = {}]

Commit(t) ==
  /\ At(t, "commit")
  /\ link' = [l \in Link |-> Row(t, l)]
  /\ device' = IF txn[t].row = NoRow THEN device
               ELSE [device EXCEPT ![txn[t].dev] = txn[t].row]
  /\ model' = IF txn[t].op = "model" THEN model \ {txn[t].model} ELSE model
  /\ End(t)
  /\ UNCHANGED requests

Abort(t) ==
  /\ txn[t].op # "idle"
  /\ End(t)
  /\ Committed

DeviceStep(t) ==
  \/ CreateDevice(t) \/ UpdateDevice(t) \/ RemoveDevice(t)
  \/ LockNode(t) \/ NodesLocked(t) \/ FindEndpoint(t) \/ ConfigureEndpoint(t)
  \/ ValidateDevice(t) \/ WriteDevice(t) \/ FindUnused(t) \/ DisableUnused(t)

OtherStep(t) ==
  \/ CreateLink(t) \/ UpdateLink(t) \/ RemoveLink(t) \/ WriteLink(t)
  \/ RemoveModel(t)

NextCatalog ==
  \E t \in Txn : DeviceStep(t) \/ OtherStep(t) \/ Commit(t) \/ Abort(t)

SpecCatalog == InitCatalog /\ [][NextCatalog]_catalogVars

----------------------------------------------------------------------------
TxnRow == [op : {"idle", "create", "update", "remove", "link", "toggle",
                 "drop", "model"},
           dev : Device \cup {Unset}, link : Link \cup {Unset},
           model : Model \cup {Unset}, protocol : Protocol \cup {Unset},
           settings : Settings \cup {Unset}, prior : Link \cup {Unset},
           priorModel : Model \cup {Unset},
           stage : {"idle", "nodes", "endpoint", "configure", "validate",
                    "write", "retire", "disable", "row", "commit"},
           rows : UNION {[S -> LinkRow] : S \in SUBSET Link},
           row : DeviceRow]

\* The type of the catalogue.
CatalogTypeOK ==
  /\ link \in [Link -> LinkRow]
  /\ model \in SUBSET Model
  /\ device \in [Device -> DeviceRow]
  /\ DOMAIN txn = Txn /\ \A t \in Txn : txn[t] \in TxnRow
  /\ held \in [Txn -> SUBSET Lock]
  /\ requests \in 0..MaxRequests

\* Whatever requests overlap, a device that is not deleted is bound to a
\* channel that is not deleted and whose protocol is the one of its model:
\* the collector and the node configure sessions from that pair.
ChannelsMatch ==
  \A d \in Device : Live(d) =>
    /\ link[device[d].link].state = "live"
    /\ link[device[d].link].protocol = ProtocolOf[device[d].model]

\* A device that was put on a physical endpoint finds it enabled and with the
\* parameters it asked for: a device that leaves does not disable the endpoint
\* under one that joins, and no form changes the parameters of the others.
EndpointServes ==
  \A d \in Device : Live(d) /\ device[d].settings # Unset =>
    /\ link[device[d].link].enabled
    /\ link[device[d].link].settings = device[d].settings

\* The transactions that move devices between nodes never wait for each
\* other's nodes in a cycle.
WaitsForNodeOf(t, u) ==
  /\ At(t, "nodes")
  /\ \E n \in NextNode(t) : <<"node", n>> \in held[u]

NoNodeCycle ==
  \A t, u \in Txn : t # u => ~(WaitsForNodeOf(t, u) /\ WaitsForNodeOf(u, t))

\* Catalogue rows are well formed, every device has a channel of its protocol
\* which is open, and requests that lock nodes never wait for each other.
CatalogSafety == /\ CatalogTypeOK /\ ChannelsMatch /\ EndpointServes
                 /\ NoNodeCycle
=============================================================================
