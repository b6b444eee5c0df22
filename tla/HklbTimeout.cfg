SPECIFICATION Spec
CONSTANTS
 Algo="hklb"
 N=3
 KParam=2
 Fixes=FALSE
 Flows={"a"}
 Ports<-CorePorts
 Route<-CoreRoute
 Stateful=FALSE
 SlotsPerLink=1
 Idle=0
 DepthMarks=FALSE
 QuietTime=1
 StreakWrap=3
 MaxFly=2
PROPERTY TimeoutEvicts
