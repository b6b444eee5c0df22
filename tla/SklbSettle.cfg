SPECIFICATION Spec
CONSTANTS
 Algo="sklb"
 N=3
 KParam=2
 Fixes=FALSE
 Flows={a,b}
 Ports<-CorePorts
 Route<-CoreRoute
 Stateful=TRUE
 SlotsPerLink=1
 Idle=1
 DepthMarks=TRUE
 QuietTime=0
 StreakWrap=3
 MaxFly=1
INVARIANTS DuplicatesArePathZero
PROPERTIES SettledIsStable IncumbentsKept RejectionDeserved
SYMMETRY FlowSymmetry
