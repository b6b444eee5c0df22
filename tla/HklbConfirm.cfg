SPECIFICATION Spec
CONSTANTS
 Algo="hklb"
 N=3
 KParam=2
 Fixes=TRUE
 Flows={"a"}
 Ports<-CorePorts
 Route<-CoreRoute
 Stateful=FALSE
 SlotsPerLink=1
 Idle=0
 DepthMarks=FALSE
 QuietTime=2
 StreakWrap=3
 MaxFly=2
INVARIANTS ConfirmedNotQuiet ListMatchesSet
