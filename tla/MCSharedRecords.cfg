SPECIFICATION SpecAll
CONSTANTS
  a = a  b = b
  Worker <- Two
  Token = {1, 2, 3}
  Lease = 4
  Validity = 2
  Slack = 1
  Timeout = 2
  MaxEvents = 1
  Device = {"d1", "d2"}
  Collector = {"c1"}
  Endpoint = {"e1", "e2"}
  NodeOf <- Nodes
  Model = {"mp", "mq"}
  ProtocolOf <- Protocols
  Settings = {"s1", "s2"}
  Txn <- Two
  MaxRequests = 2
  ServiceWorker <- Two
  Loader = {l1}
  Key = 2
  Grace = 3
  MaxProjection = 1
  MaxRead = 1
  MaxVersions = 3
  MaxClock = 4
  MaxFaults = 1
SYMMETRY Alike
INVARIANTS OneConnection LeaseIsConsistent CatalogSafety SnapshotSafety
