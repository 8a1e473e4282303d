SPECIFICATION FairSpec
CONSTANTS
  Items = {accel, disarm}
  Idle = idle
  Size = 3
INVARIANTS SlotExclusive ReceiveFindsEvent
PROPERTIES ImplementsFifo WaitingIsDelivered
