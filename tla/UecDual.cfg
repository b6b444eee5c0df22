SPECIFICATION Spec
CONSTANTS
 Pkts=3
 MaxRts=1
 Mtu=2
 Hdr=1
 Cwnds={2}
 Dual=TRUE
 Elephant=FALSE
 FastRecovery=TRUE
 Reorder=1
 LossWrap=8
 SackWidth=2
 AckBytes=4
 MaxLoss=1
 MaxEarly=1
INVARIANTS
 DualWindowInvariant WindowsExact StuckHasCause
CHECK_DEADLOCK FALSE
