SPECIFICATION Spec
CONSTANTS
 Pkts=3
 MaxRts=1
 Mtu=2
 Hdr=1
 Cwnds={2, 4}
 Dual=FALSE
 Elephant=FALSE
 FastRecovery=FALSE
 Reorder=1
 LossWrap=8
 SackWidth=2
 AckBytes=4
 MaxLoss=1
 MaxEarly=1
INVARIANTS
 OneHome TimerCoversOldest InFlightExact FinishedMeansDelivered PortNeverIdle
PROPERTIES
 ImplementsTransfer
CHECK_DEADLOCK FALSE
