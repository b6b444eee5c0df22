SPECIFICATION Spec
CONSTANTS
 Algo="sklb"
 N=2
 KParam=1
 Fixes=FALSE
 Flows={a,b}
 Ports<-CorePorts
 Route<-CoreRoute
 Stateful=TRUE
 SlotsPerLink=1
 Idle=1
 DepthMarks=TRUE
 QuietTime=0
 StreakWrap=3
 MaxFly=2
INVARIANT RtsUnmarked
