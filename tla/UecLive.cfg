SPECIFICATION FairSpec
CONSTANTS
 Pkts=4
 MaxRts=1
 Mtu=2
 Hdr=1
 Cwnds={4}
 Dual=FALSE
 Elephant=FALSE
 FastRecovery=FALSE
 Reorder=1
 LossWrap=8
 SackWidth=2
 AckBytes=8
 MaxLoss=2
 MaxEarly=0
INVARIANTS
 NoNeedlessTimeout NeverStuck
PROPERTIES
 EventuallyDone
CHECK_DEADLOCK FALSE
