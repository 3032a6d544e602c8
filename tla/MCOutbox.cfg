SPECIFICATION SpecBoth
CONSTANTS
  w1 = w1  w2 = w2
  Event <- TwoEvents
  Worker <- TwoWorkers
  BatchLimit = 2
  MaxAttempts = 2
  MaxFaults = 2
  DeviceOf <- OneDevice
  Target = {"mqtt", "web"}
  Mqtt = {"mqtt"}
  Deliverer <- TwoWorkers
  MaxDeliveryFaults = 2
INVARIANTS OutboxSafety DeliverySafety
PROPERTIES EveryEventSettles EveryEventIsDelivered
CHECK_DEADLOCK FALSE
