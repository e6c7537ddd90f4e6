SPECIFICATION Spec
CONSTANTS
    MaxCA = 2
    MaxFaults = 1
INVARIANTS TypeOK SyncedIsDelivered
PROPERTIES Delivery DeliveryCatchesUp VolumeConverges GatewayCertified
