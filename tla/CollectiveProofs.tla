-------------------------- MODULE CollectiveProofs --------------------------
(***************************************************************************)
(* The triggers of a collective start every flow once, whatever its size:  *)
(* so no oneshot trigger meets its assert(), and no source runs            *)
(* startFlow() a second time and deletes a ring that others took over      *)
(* (CInv).  On top of it: a node keeps to its window (WInv), flows of a    *)
(* pair that follow one another share one ring (SInv), and what the last   *)
(* flow leaves is the result of the collective (RInv).                     *)
(***************************************************************************)
EXTENDS Collective, FiniteSetTheorems, TLAPS

OneShot == {"ring", "butterfly"}

(* What the proofs need to know of the files that the generators write.    *)
(* A flow without parallel ones has a trigger of its own.                  *)
LEMMA OwnTrigger ==
  ASSUME NEW F, NEW fires,
         \A f \in F : f # None /\ f = <<f[1], f[2], 0>>,
         \A f \in F : fires[f] = None \/ fires[f] = <<f[1], f[2]>>
  PROVE  \A f, g \in F : fires[f] = fires[g] /\ fires[f] # None => f = g
<1> SUFFICES ASSUME NEW f \in F, NEW g \in F, fires[f] = fires[g], fires[f] # None PROVE f = g
  OBVIOUS
<1>1. <<f[1], f[2]>> = <<g[1], g[2]>>
  OBVIOUS
<1>2. f[1] = g[1] /\ f[2] = g[2]
  BY <1>1
<1> QED
  BY <1>2

(* gen_allreduce.py: each trigger is fired by one flow.                    *)
LEMMA RingFile ==
  /\ Ring.kind = "ring" /\ None \notin Ring.flows
  /\ \A f, g \in Ring.flows :
       Ring.fires[f] = Ring.fires[g] /\ Ring.fires[f] # None => f = g
<1> DEFINE F == Ring.flows
           fires == Ring.fires
<1>1. Ring.kind = "ring"
  BY DEF Ring
<1>2. F = {<<a, b, 0>> : a \in 0 .. RingSize - 1, b \in 1 .. Hops}
  BY DEF Ring
<1>3. \A f \in F : f # None /\ f = <<f[1], f[2], 0>>
  BY <1>2 DEF None
<1>4. fires = [f \in F |-> IF f[2] = Hops THEN None ELSE <<f[1], f[2]>>]
  BY <1>2 DEF Ring
<1>5. \A f \in F : fires[f] = None \/ fires[f] = <<f[1], f[2]>>
  <2> HIDE DEF F, fires
  <2> QED
    BY <1>4
<1>6. \A f, g \in F : fires[f] = fires[g] /\ fires[f] # None => f = g
  <2> HIDE DEF F, fires
  <2> QED
    BY <1>3, <1>5, OwnTrigger
<1> QED
  BY <1>1, <1>3, <1>6

(* gen_allreduce_butterfly.py: the same.                                   *)
LEMMA ButterflyFile ==
  /\ Butterfly.kind = "butterfly" /\ None \notin Butterfly.flows
  /\ \A f, g \in Butterfly.flows :
       Butterfly.fires[f] = Butterfly.fires[g] /\ Butterfly.fires[f] # None => f = g
<1> DEFINE F == Butterfly.flows
           fires == Butterfly.fires
<1>1. Butterfly.kind = "butterfly"
  BY DEF Butterfly
<1>2. F = {<<a, b, 0>> : a \in 0 .. 2^Levels - 1, b \in 0 .. Levels - 1}
  BY DEF Butterfly
<1>3. \A f \in F : f # None /\ f = <<f[1], f[2], 0>>
  BY <1>2 DEF None
<1>4. fires = [f \in F |-> IF f[2] = Levels - 1 THEN None ELSE <<f[1], f[2]>>]
  BY <1>2 DEF Butterfly
<1>5. \A f \in F : fires[f] = None \/ fires[f] = <<f[1], f[2]>>
  <2> HIDE DEF F, fires
  <2> QED
    BY <1>4
<1>6. \A f, g \in F : fires[f] = fires[g] /\ fires[f] # None => f = g
  <2> HIDE DEF F, fires
  <2> QED
    BY <1>3, <1>5, OwnTrigger
<1> QED
  BY <1>1, <1>3, <1>6

(* gen_serialn_alltoall.py: parallel flows are numbered from zero.         *)
LEMMA AllToAllFile ==
  /\ AllToAll.kind = "alltoall" /\ None \notin AllToAll.flows
  /\ \A f \in AllToAll.flows : f[3] \in Nat
<1> DEFINE F == {<<s, d, c>> : s \in Senders, d \in 1 .. half, c \in 0 .. Parallel - 1}
                  \cup {<<s, half + 1, c>> : s \in Senders, c \in 0 .. left - 1}
<1>1. AllToAll.kind = "alltoall" /\ AllToAll.flows = F
  BY DEF AllToAll
<1>2. \A f \in F : f # None /\ f[3] \in Nat
  BY DEF None
<1> QED
  BY <1>1, <1>2

(* gen_c3_cm.py: bursts fire no trigger.                                   *)
LEMMA BurstFile ==
  /\ Pauses.kind = "bursts" /\ None \notin Pauses.flows
  /\ \A f \in Pauses.flows : Pauses.fires[f] = None
<1> DEFINE F == {<<0, d, 0>> : d \in 1 .. Bursts}
<1>1. Pauses.kind = "bursts" /\ Pauses.flows = F
  BY DEF Pauses
<1> QED
  BY <1>1 DEF Pauses, None

(* The same of any workload that may be loaded.                            *)
Loaded ==
  /\ kind \in {"ring", "butterfly", "alltoall", "bursts"}
  /\ None \notin Flows
  /\ kind \in OneShot => \A f, g \in Flows : Fires(f) = Fires(g) /\ Fires(f) # None => f = g
  /\ kind = "alltoall" => \A f \in Flows : f[3] \in Nat
  /\ kind = "bursts" => \A f \in Flows : Fires(f) = None

(* Every workload of the generators has these facts.                       *)
LEMMA FileFacts == conns \in Workloads => Loaded
  BY RingFile, ButterflyFile, AllToAllFile, BurstFile
  DEF Workloads, Loaded, kind, Flows, Fires, OneShot

-----------------------------------------------------------------------------
(* The inductive invariant.  A trigger that has been activated often       *)
(* enough has started its target, and only then: a flow that is woken was  *)
(* still waiting.  A flow that waits has no ring, so startFlow() has none  *)
(* to delete.  And a oneshot trigger that was activated was so by its one  *)
(* flow, which is done.                                                    *)
Rank(g) == IF kind = "alltoall" THEN g[3] ELSE 0

Shape ==
  /\ conns  \in Workloads
  /\ status \in [Flows -> Status]
  /\ shots  \in [Triggers -> Nat]
  /\ ring   \in [Flows -> Flows \cup {None}]
  /\ shared \in [Pairs -> Flows \cup {None}]

WokenByShot ==
  \A g \in Flows : On(g) \in Triggers /\ status[g] # "wait" => shots[On(g)] > Rank(g)

BareWhileWaiting == \A g \in Flows : status[g] \in {"wait", "pending"} => ring[g] = None

ShotByDone ==
  kind \in OneShot =>
    \A f \in Flows : Fires(f) # None =>
      shots[Fires(f)] <= 1 /\ (shots[Fires(f)] > 0 => status[f] = "done")

CInv == Shape /\ WokenByShot /\ BareWhileWaiting /\ ShotByDone /\ freed = {}

(* The files never name a flow of a chain as its own trigger's target      *)
(* before it is fired, so what SendDone wakes was waiting.                 *)
LEMMA WokenWait ==
  ASSUME CInv, NEW f \in Flows, SendDone(f)
  PROVE  \A g \in Woken(f) : g \in Flows /\ status[g] = "wait"
<1> SUFFICES ASSUME NEW g \in Woken(f) PROVE g \in Flows /\ status[g] = "wait"
  OBVIOUS
<1>1. Loaded
  BY FileFacts DEF CInv, Shape
<1>2. Fires(f) # None /\ g \in Flows /\ On(g) = Fires(f) /\ Fires(f) \in Triggers
  BY DEF Woken, Targets, Triggers
<1>3. kind = "alltoall" => g[3] = shots[On(g)]
  BY <1>2 DEF Woken, Targets
<1>4. shots[On(g)] \in Nat
  BY <1>2 DEF CInv, Shape
<1>5. kind \in OneShot => shots[On(g)] = 0
  BY <1>2, <1>4 DEF CInv, ShotByDone, SendDone
<1>6. Rank(g) = shots[On(g)]
  BY <1>1, <1>2, <1>3, <1>5 DEF Loaded, Rank, OneShot
<1> QED
  BY <1>2, <1>4, <1>6 DEF CInv, WokenByShot

(* The invariant holds when the matrix has been loaded.                    *)
LEMMA CInit == Init => CInv
<1> SUFFICES ASSUME Init PROVE CInv
  OBVIOUS
<1>1. Loaded
  BY FileFacts DEF Init
<1>2. Shape
  BY DEF Shape, Init, Status, AtZero
<1>3. WokenByShot
  BY <1>1 DEF WokenByShot, Init, AtZero, Triggers
<1>4. BareWhileWaiting
  BY DEF BareWhileWaiting, Init
<1>5. ShotByDone
  <2> SUFFICES ASSUME NEW f \in Flows, Fires(f) # None PROVE shots[Fires(f)] = 0
    BY DEF ShotByDone
  <2> QED
    BY DEF Init, Triggers
<1> QED
  BY <1>2, <1>3, <1>4, <1>5 DEF CInv, Init

(* startFlow() of a flow that waited keeps the invariant.                  *)
LEMMA BeginKeeps ==
  ASSUME CInv, NEW f \in Flows, Begin(f), status[f] \in {"wait", "pending"},
         status[f] = "wait" => On(f) \notin Triggers
  PROVE  CInv'
<1>1. Loaded
  BY FileFacts DEF CInv, Shape
<1>2. conns' = conns /\ shots' = shots /\ shared' = shared
  BY DEF Begin
<1>3. ring[f] = None /\ f # None
  BY <1>1 DEF CInv, BareWhileWaiting, Loaded
<1>4. freed' = {}
  BY <1>3 DEF CInv, Begin
<1>5. Pair(f) \in Pairs
  BY DEF Pairs
<1>6. ring' \in [Flows -> Flows \cup {None}] /\ status' \in [Flows -> Status]
  BY <1>5 DEF Begin, CInv, Shape, Status
<1>7. /\ status'[f] = "active"
      /\ \A g \in Flows : g # f => status'[g] = status[g] /\ ring'[g] = ring[g]
  BY DEF Begin, CInv, Shape
<1>8. Shape'
  BY <1>2, <1>6 DEF CInv, Shape, Flows, Triggers, Pairs, Pair, Src, Dst, Fires
<1>9. WokenByShot'
  BY <1>2, <1>7 DEF CInv, WokenByShot, Flows, Triggers, On, Fires, Rank, kind
<1>10. BareWhileWaiting'
  BY <1>2, <1>7 DEF CInv, BareWhileWaiting, Flows
<1>11. ShotByDone'
  BY <1>2, <1>7 DEF CInv, ShotByDone, Flows, Fires, kind, Triggers, Shape
<1> QED
  BY <1>4, <1>8, <1>9, <1>10, <1>11 DEF CInv

(* The arrival of the last byte keeps the invariant.                       *)
LEMMA DeliverKeeps ==
  ASSUME CInv, NEW f \in Flows, Deliver(f)
  PROVE  CInv'
<1>2. conns' = conns /\ shots' = shots /\ shared' = shared /\ ring' = ring /\ freed' = freed
  BY DEF Deliver
<1>7. /\ status \in [Flows -> Status] /\ status[f] = "active"
      /\ status' = [status EXCEPT ![f] = "delivered"]
  BY DEF Deliver, CInv, Shape
<1>8. Shape'
  BY <1>2, <1>7 DEF CInv, Shape, Flows, Triggers, Pairs, Pair, Src, Dst, Fires, Status
<1>9. WokenByShot'
  BY <1>2, <1>7 DEF CInv, WokenByShot, Flows, Triggers, On, Fires, Rank, kind
<1>10. BareWhileWaiting'
  BY <1>2, <1>7 DEF CInv, BareWhileWaiting, Flows
<1>11. ShotByDone'
  BY <1>2, <1>7 DEF CInv, ShotByDone, Flows, Fires, kind, Triggers, Shape
<1> QED
  BY <1>2, <1>8, <1>9, <1>10, <1>11 DEF CInv

(* The end of a flow, with the triggers it activates, keeps it.            *)
LEMMA SendDoneKeeps ==
  ASSUME CInv, NEW f \in Flows, SendDone(f)
  PROVE  CInv'
<1>1. Loaded
  BY FileFacts DEF CInv, Shape
<1>2. conns' = conns /\ ring' = ring /\ freed' = freed
  BY DEF SendDone
<1>3. status \in [Flows -> Status] /\ status[f] = "delivered"
  BY DEF SendDone, CInv, Shape
<1>4. status' = [g \in Flows |-> IF g = f THEN "done"
                                 ELSE IF g \in Woken(f) THEN "pending" ELSE status[g]]
  BY DEF SendDone
<1>5. \A g \in Woken(f) : g \in Flows /\ status[g] = "wait"
  BY WokenWait
<1>6. /\ shots \in [Triggers -> Nat]
      /\ shots' = [t \in Triggers |-> IF t = Fires(f) THEN shots[t] + 1 ELSE shots[t]]
  BY DEF SendDone, CInv, Shape
<1>7. shared' \in [Pairs -> Flows \cup {None}]
  <2>1. ring[f] \in Flows \cup {None} /\ shared \in [Pairs -> Flows \cup {None}]
    BY DEF CInv, Shape
  <2> QED
    BY <2>1 DEF SendDone, HandOn
<1>8. Shape'
  <2>1. status' \in [Flows -> Status] /\ shots' \in [Triggers -> Nat]
    BY <1>3, <1>4, <1>6 DEF Status
  <2> QED
    BY <1>2, <1>7, <2>1 DEF CInv, Shape, Flows, Triggers, Pairs, Pair, Src, Dst, Fires
<1>9. WokenByShot'
  <2> SUFFICES ASSUME NEW g \in Flows, On(g) \in Triggers, status'[g] # "wait"
               PROVE  shots'[On(g)] > Rank(g)
    BY <1>2 DEF WokenByShot, Flows, Triggers, On, Fires, Rank, kind
  <2>1. CASE g \in Woken(f)
    <3>1. On(g) = Fires(f) /\ (kind = "alltoall" => g[3] = shots[On(g)])
      BY <2>1 DEF Woken, Targets
    <3>2. shots'[On(g)] = shots[On(g)] + 1 /\ shots[On(g)] \in Nat
      BY <3>1, <1>6
    <3> QED
      BY <3>1, <3>2 DEF Rank
  <2>2. CASE g \notin Woken(f)
    <3>1. status[g] # "wait"
      BY <2>2, <1>3, <1>4
    <3>2. shots[On(g)] > Rank(g)
      BY <3>1 DEF CInv, WokenByShot
    <3>3. shots[On(g)] \in Nat /\ shots'[On(g)] \in {shots[On(g)], shots[On(g)] + 1}
      BY <1>6
    <3>4. Rank(g) \in Nat
      BY <1>1 DEF Loaded, Rank
    <3> QED
      BY <3>2, <3>3, <3>4
  <2> QED
    BY <2>1, <2>2
<1>10. BareWhileWaiting'
  <2> SUFFICES ASSUME NEW g \in Flows, status'[g] \in {"wait", "pending"} PROVE ring[g] = None
    BY <1>2 DEF BareWhileWaiting, Flows
  <2>1. status[g] \in {"wait", "pending"}
    BY <1>4, <1>5
  <2> QED
    BY <2>1 DEF CInv, BareWhileWaiting
<1>11. ShotByDone'
  <2> SUFFICES ASSUME kind \in OneShot, NEW g \in Flows, Fires(g) # None
               PROVE  shots'[Fires(g)] <= 1 /\ (shots'[Fires(g)] > 0 => status'[g] = "done")
    BY <1>2 DEF ShotByDone, Flows, Fires, kind
  <2>1. Fires(g) \in Triggers
    BY DEF Triggers
  <2>2. shots[Fires(g)] \in Nat /\ shots[Fires(g)] <= 1
        /\ (shots[Fires(g)] > 0 => status[g] = "done")
    BY <2>1, <1>6 DEF CInv, ShotByDone
  <2>3. CASE g = f
    BY <2>1, <2>2, <2>3, <1>3, <1>4, <1>6
  <2>4. CASE g # f
    <3>1. Fires(g) # Fires(f)
      BY <2>4, <1>1 DEF Loaded
    <3>2. shots'[Fires(g)] = shots[Fires(g)]
      BY <3>1, <2>1, <1>6
    <3>3. status[g] = "done" => status'[g] = "done"
      BY <2>4, <1>4, <1>5
    <3> QED
      BY <2>2, <3>2, <3>3
  <2> QED
    BY <2>3, <2>4
<1> QED
  BY <1>2, <1>8, <1>9, <1>10, <1>11 DEF CInv

(* So every step keeps it.                                                 *)
LEMMA CNext == CInv /\ [Next]_vars => CInv'
<1> SUFFICES ASSUME CInv, [Next]_vars PROVE CInv'
  OBVIOUS
<1>1. Loaded
  BY FileFacts DEF CInv, Shape
<1>2. ASSUME NEW f \in Flows, Activate(f) PROVE CInv'
  BY <1>2, BeginKeeps DEF Activate
<1>3. ASSUME NEW f \in Flows, StartBurst(f) PROVE CInv'
  <2>1. \A t \in Triggers : FALSE
    BY <1>1, <1>3 DEF Loaded, StartBurst, Triggers
  <2> QED
    BY <1>3, <2>1, BeginKeeps DEF StartBurst
<1>4. ASSUME NEW f \in Flows, Deliver(f) PROVE CInv'
  BY <1>4, DeliverKeeps
<1>5. ASSUME NEW f \in Flows, SendDone(f) PROVE CInv'
  BY <1>5, SendDoneKeeps
<1>6. CASE UNCHANGED vars
  BY <1>6 DEF vars, CInv, Shape, WokenByShot, BareWhileWaiting, ShotByDone, Flows, Triggers,
     Pairs, Pair, Src, Dst, Fires, On, Rank, kind
<1> QED
  BY <1>2, <1>3, <1>4, <1>5, <1>6 DEF Next

(* It holds in every reachable state.                                      *)
LEMMA AlwaysC == Spec => []CInv
<1> QED
  BY CInit, CNext, PTL DEF Spec

(* What the data accounts for, and the pairs that overlapped.              *)
DataInv ==
  /\ has   \in [Nodes -> SUBSET (Chunks \X Nodes)]
  /\ sent  \in [Flows -> SUBSET (Chunks \X Nodes)]
  /\ mixed \subseteq Pairs

(* A flow carries what its source has.                                     *)
LEMMA CarriedTyped ==
  ASSUME has \in [Nodes -> SUBSET (Chunks \X Nodes)], NEW f \in Flows
  PROVE  Carried(f) \in SUBSET (Chunks \X Nodes)
<1>1. Src(f) \in Nodes
  BY DEF Nodes
<1>2. has[Src(f)] \in SUBSET (Chunks \X Nodes)
  BY <1>1
<1>3. Carried(f) \subseteq has[Src(f)]
  BY DEF Carried
<1> QED
  BY <1>2, <1>3

(* It does when the matrix has been loaded.                                *)
LEMMA DataInit == Init => DataInv
<1> SUFFICES ASSUME Init PROVE DataInv
  OBVIOUS
<1>1. has \in [Nodes -> SUBSET (Chunks \X Nodes)]
  <2>1. ASSUME NEW n \in Nodes PROVE (Chunks \X {n}) \in SUBSET (Chunks \X Nodes)
    OBVIOUS
  <2>2. has = [n \in Nodes |-> Chunks \X {n}]
    BY DEF Init
  <2> QED
    BY <2>1, <2>2
<1>2. sent \in [Flows -> SUBSET (Chunks \X Nodes)]
  <2>1. \A f \in Flows : Carried(f) \in SUBSET (Chunks \X Nodes)
    BY <1>1, CarriedTyped
  <2>2. sent = [f \in Flows |-> IF AtZero(f) THEN Carried(f) ELSE {}]
    BY DEF Init
  <2> QED
    BY <2>1, <2>2
<1> QED
  BY <1>1, <1>2 DEF DataInv, Init

(* And after every step.                                                   *)
LEMMA DataNext == DataInv /\ [Next]_vars => DataInv'
<1> SUFFICES ASSUME DataInv, [Next]_vars PROVE DataInv'
  OBVIOUS
<1> USE DEF DataInv
<1>1. conns' = conns =>
        Nodes' = Nodes /\ Flows' = Flows /\ Pairs' = Pairs /\ Chunks' = Chunks
  BY DEF Nodes, Flows, Pairs, Pair, Chunks, Src, Dst, kind
<1>2. ASSUME NEW f \in Flows, Begin(f) PROVE DataInv'
  <2>1. conns' = conns /\ has' = has /\ sent' = [sent EXCEPT ![f] = Carried(f)]
    BY <1>2 DEF Begin
  <2>2. mixed' \subseteq Pairs
    BY <1>2 DEF Begin, Pairs
  <2>3. sent' \in [Flows -> SUBSET (Chunks \X Nodes)]
    BY <2>1, CarriedTyped
  <2> QED
    BY <1>1, <2>1, <2>2, <2>3
<1>3. ASSUME NEW f \in Flows, Deliver(f) PROVE DataInv'
  <2>1. /\ conns' = conns /\ sent' = sent /\ mixed' = mixed
        /\ has' = [has EXCEPT ![Dst(f)] = @ \cup sent[f]]
    BY <1>3 DEF Deliver
  <2>2. Dst(f) \in Nodes
    BY DEF Nodes
  <2>3. has[Dst(f)] \cup sent[f] \in SUBSET (Chunks \X Nodes)
    BY <2>2
  <2>4. has' \in [Nodes -> SUBSET (Chunks \X Nodes)]
    BY <2>1, <2>3
  <2> QED
    BY <1>1, <2>1, <2>4
<1>4. ASSUME NEW f \in Flows, SendDone(f) PROVE DataInv'
  BY <1>1, <1>4 DEF SendDone
<1>5. CASE UNCHANGED vars
  BY <1>1, <1>5 DEF vars
<1> QED
  BY <1>2, <1>3, <1>4, <1>5 DEF Next, Activate, StartBurst

(* Flows, triggers, rings and data keep their types, for every workload    *)
(* and its size.                                                           *)
THEOREM TypeCorrect == Spec => []TypeOK
<1>1. Spec => []DataInv
  BY DataInit, DataNext, PTL DEF Spec
<1>2. CInv /\ DataInv => TypeOK
  BY DEF CInv, Shape, DataInv, TypeOK
<1> QED
  BY <1>1, <1>2, AlwaysC, PTL

(* No chain of a ring or a butterfly of any size activates a oneshot       *)
(* trigger twice: the assert(!_done) of SingleShotTrigger never fails.     *)
THEOREM OneShotHolds == Spec => []OneShotOnce
<1>1. CInv => OneShotOnce
  BY DEF CInv, ShotByDone, OneShotOnce, OneShot, Triggers
<1> QED
  BY <1>1, AlwaysC, PTL

(* Whatever the workload and its size, with or without                     *)
(* -connections_mapping, no source uses a ring another source deleted.     *)
THEOREM RingStaysAlive == Spec => []RingAlive
<1>1. CInv => RingAlive
  BY DEF CInv, RingAlive
<1> QED
  BY <1>1, AlwaysC, PTL

-----------------------------------------------------------------------------
(* A window of parallel flows is handed over one flow at a time.           *)

(* The rounds of gen_serialn_alltoall.py: a flow of a later round waits    *)
(* for the round before it, and the first round has Parallel flows.        *)
LEMMA AllToAllRounds ==
  \A f \in AllToAll.flows :
    /\ f = <<f[1], f[2], f[3]>> /\ f[1] \in Senders /\ f[2] \in Nat \ {0} /\ f[3] \in Nat
    /\ f[2] = 1 => f[3] \in 0 .. Parallel - 1
    /\ AllToAll.src[f] = f[1]
    /\ AllToAll.on[f] = IF f[2] = 1 THEN None ELSE <<f[1], f[2] - 1>>
    /\ AllToAll.fires[f] \in {None, <<f[1], f[2]>>}
<1> DEFINE F == {<<s, d, c>> : s \in Senders, d \in 1 .. half, c \in 0 .. Parallel - 1}
                  \cup {<<s, half + 1, c>> : s \in Senders, c \in 0 .. left - 1}
           last(f) == f[2] = half + 1 \/ (f[2] = half /\ left = 0)
           on == [f \in F |-> IF f[2] = 1 THEN None ELSE <<f[1], f[2] - 1>>]
           fires == [f \in F |-> IF last(f) THEN None ELSE <<f[1], f[2]>>]
           src == [f \in F |-> f[1]]
<1>1. /\ AllToAll.flows = F /\ AllToAll.src = src
      /\ AllToAll.on = on /\ AllToAll.fires = fires
  BY DEF AllToAll
<1>2. half \in Nat /\ left \in 0 .. Parallel - 1
  <2> DEFINE n == AllSize - 1
             p == Parallel
  <2>1. n \in Nat /\ p \in Nat \ {0}
    BY CollectiveAssumption
  <2> HIDE DEF n, p
  <2>2. n \div p \in Nat /\ n % p \in 0 .. p - 1
    BY <2>1
  <2> QED
    BY <2>2 DEF half, left, n, p
<1>3. ASSUME NEW f \in F
      PROVE  /\ f = <<f[1], f[2], f[3]>> /\ f[1] \in Senders
             /\ f[2] \in Nat \ {0} /\ f[3] \in Nat
             /\ f[3] \in 0 .. Parallel - 1
  <2>1. CASE f \in {<<s, d, c>> : s \in Senders, d \in 1 .. half, c \in 0 .. Parallel - 1}
    BY <1>2, <2>1
  <2>2. CASE f \in {<<s, half + 1, c>> : s \in Senders, c \in 0 .. left - 1}
    <3>1. PICK s \in Senders, c \in 0 .. left - 1 : f = <<s, half + 1, c>>
      BY <2>2
    <3>2. c \in 0 .. Parallel - 1 /\ half + 1 \in Nat \ {0}
      BY <1>2, CollectiveAssumption
    <3> QED
      BY <3>1, <3>2
  <2> QED
    BY <2>1, <2>2
<1> HIDE DEF F, last
<1>4. ASSUME NEW f \in F
      PROVE  /\ src[f] = f[1]
             /\ on[f] = IF f[2] = 1 THEN None ELSE <<f[1], f[2] - 1>>
             /\ fires[f] \in {None, <<f[1], f[2]>>}
  OBVIOUS
<1> HIDE DEF src, on, fires
<1> QED
  BY <1>1, <1>3, <1>4

(* What a multishot trigger wakes is one flow of the sender that fired it. *)
LEMMA WokenOne ==
  ASSUME conns \in Workloads, kind = "alltoall", NEW f \in Flows, NEW g \in Woken(f)
  PROVE  g \in Flows /\ g = <<f[1], f[2] + 1, shots[Fires(f)]>> /\ Src(g) = Src(f)
<1>1. conns = AllToAll
  BY RingFile, ButterflyFile, AllToAllFile, BurstFile DEF Workloads, kind
<1>2. g \in Flows /\ Fires(f) # None /\ On(g) = Fires(f) /\ g[3] = shots[Fires(f)]
  BY DEF Woken, Targets
<1>3. /\ g = <<g[1], g[2], g[3]>> /\ g[2] \in Nat \ {0} /\ Src(g) = g[1]
      /\ On(g) = IF g[2] = 1 THEN None ELSE <<g[1], g[2] - 1>>
  BY <1>1, <1>2, AllToAllRounds DEF Flows, Src, On
<1>4. Fires(f) = <<f[1], f[2]>> /\ Src(f) = f[1] /\ f[2] \in Nat
  BY <1>1, <1>2, AllToAllRounds DEF Flows, Src, Fires
<1>5. <<g[1], g[2] - 1>> = <<f[1], f[2]>>
  BY <1>2, <1>3, <1>4
<1>6. g[1] = f[1] /\ g[2] - 1 = f[2]
  BY <1>5
<1>7. g[2] = f[2] + 1
  BY <1>3, <1>4, <1>6
<1> QED
  BY <1>2, <1>3, <1>4, <1>6, <1>7

(* Replacing a member by at most one other does not make a set larger.     *)
LEMMA ReplaceOne ==
  ASSUME NEW A, IsFiniteSet(A), NEW x \in A, NEW y, NEW B, B \subseteq (A \ {x}) \cup {y}
  PROVE  IsFiniteSet(B) /\ Cardinality(B) <= Cardinality(A)
<1> DEFINE C == A \ {x}
           D == C \cup {y}
<1>1. IsFiniteSet(C) /\ Cardinality(C) = Cardinality(A) - 1 /\ Cardinality(A) \in Nat
  BY FS_RemoveElement, FS_CardinalityType
<1>2. B \in SUBSET D
  OBVIOUS
<1> HIDE DEF C
<1>3. /\ IsFiniteSet(D) /\ Cardinality(D) \in Nat
      /\ Cardinality(D) = IF y \in C THEN Cardinality(C) ELSE Cardinality(C) + 1
  BY <1>1, FS_AddElement, FS_CardinalityType
<1>4. Cardinality(D) <= Cardinality(A)
  BY <1>1, <1>3
<1> HIDE DEF D
<1>5. IsFiniteSet(B) /\ Cardinality(B) <= Cardinality(D) /\ Cardinality(B) \in Nat
  BY <1>2, <1>3, FS_Subset, FS_CardinalityType
<1> QED
  BY <1>1, <1>3, <1>4, <1>5

(* The flows of a node that are under way.                                 *)
Busy(n) == {f \in Flows : Src(f) = n /\ (Started(f) \/ status[f] = "pending")}

WInv ==
  kind = "alltoall" =>
    \A n \in Nodes : IsFiniteSet(Busy(n)) /\ Cardinality(Busy(n)) <= Parallel

(* At time 0 they are the first round.                                     *)
LEMMA WindowInit == Init => WInv
<1> SUFFICES ASSUME Init, kind = "alltoall", NEW n \in Nodes
             PROVE  IsFiniteSet(Busy(n)) /\ Cardinality(Busy(n)) <= Parallel
  BY DEF WInv
<1>1. conns = AllToAll
  BY RingFile, ButterflyFile, AllToAllFile, BurstFile DEF Init, Workloads, kind
<1>2. ASSUME NEW f \in Busy(n) PROVE f = <<n, 1, f[3]>> /\ f[3] \in 0 .. Parallel - 1
  <2>1. f \in Flows /\ Src(f) = n /\ On(f) = None
    BY DEF Busy, Init, Started, AtZero
  <2>2. /\ f = <<f[1], f[2], f[3]>> /\ Src(f) = f[1]
        /\ f[2] = 1 => f[3] \in 0 .. Parallel - 1
        /\ On(f) = IF f[2] = 1 THEN None ELSE <<f[1], f[2] - 1>>
    BY <1>1, <2>1, AllToAllRounds DEF Flows, Src, On
  <2>3. f[2] = 1
    BY <2>1, <2>2 DEF None
  <2> QED
    BY <2>1, <2>2, <2>3
<1> DEFINE S == Busy(n)
           T == 0 .. Parallel - 1
           h == [f \in S |-> f[3]]
<1>3. h \in Injection(S, T)
  <2>1. h \in [S -> T]
    BY <1>2
  <2>2. \A f, g \in S : h[f] = h[g] => f = g
    BY <1>2
  <2> QED
    BY <2>1, <2>2 DEF Injection, IsInjective
<1>4. IsFiniteSet(T) /\ Cardinality(T) = Parallel
  BY FS_Interval, CollectiveAssumption
<1> QED
  BY <1>3, <1>4, FS_Injection

(* A flow that ends leaves its place to one that its trigger wakes.        *)
LEMMA WindowNext == CInv /\ WInv /\ [Next]_vars => WInv'
<1> SUFFICES ASSUME CInv, WInv, [Next]_vars PROVE WInv'
  OBVIOUS
<1>0. conns' = conns
  BY DEF Next, Activate, StartBurst, Begin, Deliver, SendDone, vars
<1> SUFFICES ASSUME kind = "alltoall", NEW n \in Nodes
             PROVE  IsFiniteSet(Busy(n)') /\ Cardinality(Busy(n)') <= Parallel
  BY <1>0 DEF WInv, kind, Nodes, Src, Dst, Flows
<1>1. IsFiniteSet(Busy(n)) /\ Cardinality(Busy(n)) <= Parallel /\ status \in [Flows -> Status]
  BY DEF WInv, CInv, Shape
<1>2. ASSUME Busy(n)' \subseteq Busy(n)
      PROVE  IsFiniteSet(Busy(n)') /\ Cardinality(Busy(n)') <= Parallel
  <2> DEFINE A == Busy(n)
             B == Busy(n)'
  <2>1. B \in SUBSET A
    BY <1>2
  <2> HIDE DEF A, B
  <2>2. IsFiniteSet(A) /\ Cardinality(A) \in Nat /\ Cardinality(A) <= Parallel
    BY <1>1, FS_CardinalityType DEF A
  <2>3. IsFiniteSet(B) /\ Cardinality(B) <= Cardinality(A) /\ Cardinality(B) \in Nat
    BY <2>1, <2>2, FS_Subset, FS_CardinalityType
  <2>4. Cardinality(B) <= Parallel
    BY <2>2, <2>3, CollectiveAssumption
  <2> QED
    BY <2>3, <2>4 DEF B
<1>3. ASSUME NEW f \in Flows, Activate(f)
      PROVE  IsFiniteSet(Busy(n)') /\ Cardinality(Busy(n)') <= Parallel
  <2>1. /\ conns' = conns /\ status[f] = "pending"
        /\ status' = [status EXCEPT ![f] = "active"]
    BY <1>3 DEF Activate, Begin
  <2>2. Busy(n)' \subseteq Busy(n)
    BY <1>1, <2>1 DEF Busy, Started, Flows, Src
  <2> QED
    BY <1>2, <2>2
<1>4. ASSUME NEW f \in Flows, Deliver(f)
      PROVE  IsFiniteSet(Busy(n)') /\ Cardinality(Busy(n)') <= Parallel
  <2>1. /\ conns' = conns /\ status[f] = "active"
        /\ status' = [status EXCEPT ![f] = "delivered"]
    BY <1>4 DEF Deliver
  <2>2. Busy(n)' \subseteq Busy(n)
    BY <1>1, <2>1 DEF Busy, Started, Flows, Src
  <2> QED
    BY <1>2, <2>2
<1>5. ASSUME NEW f \in Flows, SendDone(f)
      PROVE  IsFiniteSet(Busy(n)') /\ Cardinality(Busy(n)') <= Parallel
  <2> DEFINE w == <<f[1], f[2] + 1, shots[Fires(f)]>>
  <2>1. /\ conns' = conns /\ status[f] = "delivered"
        /\ status' = [g \in Flows |-> IF g = f THEN "done"
                                      ELSE IF g \in Woken(f) THEN "pending" ELSE status[g]]
    BY <1>5 DEF SendDone
  <2>2. \A g \in Woken(f) : g = w /\ Src(g) = Src(f)
    BY WokenOne DEF CInv, Shape
  <2> HIDE DEF w
  <2>3. ASSUME NEW g \in Busy(n)'
        PROVE  /\ g \in Flows /\ Src(g) = n /\ g # f
               /\ g \in Woken(f) \/ g \in Busy(n)
    <3>1. g \in Flows /\ Src(g) = n /\ status'[g] \in {"active", "delivered", "pending"}
      BY <2>1, <2>3 DEF Busy, Started, Flows, Src
    <3>2. g # f
      BY <2>1, <3>1
    <3>3. CASE g \in Woken(f)
      BY <3>1, <3>2, <3>3
    <3>4. CASE g \notin Woken(f)
      <4>1. status'[g] = status[g]
        BY <2>1, <3>1, <3>2, <3>4
      <4> QED
        BY <3>1, <3>2, <4>1 DEF Busy, Started
    <3> QED
      BY <3>3, <3>4
  <2>4. CASE Src(f) = n
    <3>1. f \in Busy(n)
      BY <2>1, <2>4 DEF Busy, Started
    <3>2. Busy(n)' \subseteq (Busy(n) \ {f}) \cup {w}
      BY <2>2, <2>3
    <3>3. IsFiniteSet(Busy(n)') /\ Cardinality(Busy(n)') <= Cardinality(Busy(n))
      <4> DEFINE A == Busy(n)
                 B == Busy(n)'
      <4>1. IsFiniteSet(A) /\ f \in A /\ B \subseteq (A \ {f}) \cup {w}
        BY <1>1, <3>1, <3>2
      <4> SUFFICES IsFiniteSet(B) /\ Cardinality(B) <= Cardinality(A)
        OBVIOUS
      <4> HIDE DEF A, B
      <4> QED
        BY <4>1, ReplaceOne
    <3>4. Cardinality(Busy(n)') \in Nat /\ Cardinality(Busy(n)) \in Nat
      BY <1>1, <3>3, FS_CardinalityType
    <3> QED
      BY <1>1, <3>3, <3>4, CollectiveAssumption
  <2>5. CASE Src(f) # n
    <3>1. Busy(n)' \subseteq Busy(n)
      BY <2>2, <2>3, <2>5
    <3> QED
      BY <1>2, <3>1
  <2> QED
    BY <2>4, <2>5
<1>6. ASSUME NEW f \in Flows, StartBurst(f) PROVE FALSE
  BY <1>6 DEF StartBurst
<1>7. ASSUME UNCHANGED vars
      PROVE  IsFiniteSet(Busy(n)') /\ Cardinality(Busy(n)') <= Parallel
  <2>1. Busy(n)' = Busy(n)
    BY <1>7 DEF vars, Busy, Started, Flows, Src
  <2> QED
    BY <1>1, <2>1
<1> QED
  BY <1>3, <1>4, <1>5, <1>6, <1>7 DEF Next

(* Whatever the group size and in whatever order its flows finish, a node  *)
(* of an all-to-all never has more than parallel_cons flows under way.     *)
THEOREM WindowHolds == Spec => []WindowKept
<1>1. WInv => WindowKept
  BY DEF WInv, WindowKept, Busy
<1> QED
  BY <1>1, WindowInit, WindowNext, AlwaysC, PTL DEF Spec

-----------------------------------------------------------------------------
(* A ring that is handed on.                                               *)

(* n \div p parts of n fit into it p times, and are not empty.             *)
LEMMA Parts ==
  ASSUME NEW n \in Nat, NEW p \in 1 .. n
  PROVE  /\ n \div p \in Nat \ {0}
         /\ \A c \in 0 .. p - 1 : c * (n \div p) + (n \div p) <= n
<1> DEFINE h == n \div p
           m == n % p
<1>1. h \in Nat /\ m \in 0 .. p - 1 /\ n = p * h + m
  BY SMT
<1>2. h # 0
  BY <1>1
<1> HIDE DEF h, m
<1>3. ASSUME NEW c \in 0 .. p - 1 PROVE c * h + h <= n
  <2>1. (c + 1) * h <= p * h
    BY <1>1
  <2>2. (c + 1) * h = c * h + h
    BY <1>1
  <2>3. p * h <= n /\ p * h \in Nat /\ c * h \in Nat
    BY <1>1
  <2> QED
    BY <1>1, <2>1, <2>2, <2>3
<1> QED
  BY <1>1, <1>2, <1>3 DEF h

(* Quotient and remainder.                                                 *)
LEMMA Divides ==
  ASSUME NEW n \in Nat, NEW p \in Nat \ {0}
  PROVE  n \div p \in Nat /\ n % p \in 0 .. p - 1 /\ n = p * (n \div p) + (n % p)
  BY SMT

(* Different numbers of steps around a circle end at different nodes.      *)
LEMMA Around ==
  ASSUME NEW n \in Nat \ {0}, NEW s \in 0 .. n - 1, NEW x \in 0 .. n - 1, NEW y \in 0 .. n - 1,
         (s + x) % n = (s + y) % n
  PROVE  x = y
<1>1. ASSUME NEW z \in 0 .. n - 1
      PROVE  (s + z) % n = IF s + z < n THEN s + z ELSE s + z - n
  <2>1. CASE s + z < n
    BY <2>1
  <2>2. CASE s + z >= n
    <3>1. s + z - n \in 0 .. n - 1 /\ s + z = (s + z - n) + n
      BY <2>2
    <3> QED
      BY <2>2, <3>1
  <2> QED
    BY <2>1, <2>2
<1> QED
  BY <1>1

(* The flows of a matrix that start at time 0 are of different pairs.      *)
LEMMA FirstPairs ==
  ASSUME conns \in Workloads, NEW f \in Flows, NEW g \in Flows,
         AtZero(f), AtZero(g), Pair(f) = Pair(g)
  PROVE  f = g
<1>1. Src(f) = Src(g) /\ Dst(f) = Dst(g)
  BY DEF Pair
<1>2. CASE conns = Ring
  <2> DEFINE F == {<<s, d, 0>> : s \in 0 .. RingSize - 1, d \in 1 .. Hops}
             src == [h \in F |-> (h[1] + h[2] - 1) % RingSize]
             on == [h \in F |-> IF h[2] = 1 THEN None ELSE <<h[1], h[2] - 1>>]
  <2>1. Flows = F /\ conns.src = src /\ conns.on = on
    BY <1>2 DEF Flows, Ring
  <2>2. ASSUME NEW h \in F PROVE h[1] \in 0 .. RingSize - 1 /\ h = <<h[1], h[2], 0>>
    OBVIOUS
  <2>3. ASSUME NEW h \in F, AtZero(h) PROVE h = <<h[1], 1, 0>> /\ Src(h) = h[1]
    <3> HIDE DEF F
    <3>1. on[h] = None
      BY <2>1, <2>3 DEF AtZero, On
    <3>2. h[2] = 1
      BY <3>1 DEF None
    <3>3. src[h] = (h[1] + 1 - 1) % RingSize
      BY <3>2
    <3>4. (h[1] + 1 - 1) % RingSize = h[1]
      BY <2>2, CollectiveAssumption
    <3> QED
      BY <2>1, <2>2, <3>2, <3>3, <3>4 DEF Src
  <2> HIDE DEF F
  <2> QED
    BY <1>1, <2>1, <2>3
<1>3. CASE conns = Butterfly
  <2> DEFINE F == {<<n, d, 0>> : n \in 0 .. 2^Levels - 1, d \in 0 .. Levels - 1}
             src == [h \in F |-> h[1]]
             on == [h \in F |-> IF h[2] = 0 THEN None
                                ELSE <<Peer(h[1], h[2] - 1), h[2] - 1>>]
  <2>1. Flows = F /\ conns.src = src /\ conns.on = on
    BY <1>3 DEF Flows, Butterfly
  <2>2. ASSUME NEW h \in F PROVE h = <<h[1], h[2], 0>>
    OBVIOUS
  <2>3. ASSUME NEW h \in F, AtZero(h) PROVE h = <<h[1], 0, 0>> /\ Src(h) = h[1]
    <3> HIDE DEF F
    <3>1. on[h] = None
      BY <2>1, <2>3 DEF AtZero, On
    <3>2. h[2] = 0
      BY <3>1 DEF None
    <3> QED
      BY <2>1, <2>2, <3>2 DEF Src
  <2> HIDE DEF F
  <2> QED
    BY <1>1, <2>1, <2>3
<1>4. CASE conns = AllToAll
  <2> DEFINE F == AllToAll.flows
             dst == [h \in F |-> (IF h[2] <= half THEN h[1] + h[2] + h[3] * half
                                  ELSE h[1] + Parallel * half + h[3] + 1) % AllSize]
             n == AllSize - 1
  <2>1. Flows = F /\ conns.dst = dst
    BY <1>4 DEF Flows, AllToAll
  <2>2. /\ n \in Nat /\ Parallel \in 1 .. n /\ Senders \subseteq 0 .. n
        /\ AllSize = n + 1
    BY CollectiveAssumption
  <2>3. half \in Nat \ {0} /\ \A c \in 0 .. Parallel - 1 : c * half + half <= n
    <3> HIDE DEF n
    <3>1. /\ n \div Parallel \in Nat \ {0}
          /\ \A c \in 0 .. Parallel - 1 : c * (n \div Parallel) + (n \div Parallel) <= n
      BY <2>2, Parts
    <3> QED
      BY <3>1 DEF half, n
  <2>4. ASSUME NEW h \in F, AtZero(h)
        PROVE  /\ h = <<h[1], 1, h[3]>> /\ Src(h) = h[1] /\ h[1] \in 0 .. n
               /\ h[3] \in 0 .. Parallel - 1
               /\ Dst(h) = (h[1] + 1 + h[3] * half) % AllSize
    <3>1. /\ h = <<h[1], h[2], h[3]>> /\ h[1] \in Senders
          /\ h[2] = 1 => h[3] \in 0 .. Parallel - 1
          /\ Src(h) = h[1]
          /\ On(h) = IF h[2] = 1 THEN None ELSE <<h[1], h[2] - 1>>
      BY <1>4, AllToAllRounds DEF Src, On
    <3>2. h[2] = 1
      BY <2>4, <3>1 DEF AtZero, None
    <3>3. Dst(h) = (IF h[2] <= half THEN h[1] + h[2] + h[3] * half
                    ELSE h[1] + Parallel * half + h[3] + 1) % AllSize
      <4> HIDE DEF F
      <4> QED
        BY <2>1 DEF Dst
    <3>4. h[2] <= half
      BY <2>3, <3>2
    <3> QED
      BY <2>2, <3>1, <3>2, <3>3, <3>4
  <2>5. /\ f = <<f[1], 1, f[3]>> /\ g = <<g[1], 1, g[3]>> /\ f[1] = g[1]
        /\ f[3] \in 0 .. Parallel - 1 /\ g[3] \in 0 .. Parallel - 1 /\ f[1] \in 0 .. n
        /\ (f[1] + 1 + f[3] * half) % AllSize = (f[1] + 1 + g[3] * half) % AllSize
    BY <1>1, <2>1, <2>4
  <2> DEFINE a == f[3] * half
             b == g[3] * half
  <2>6. a \in Nat /\ b \in Nat /\ a + half <= n /\ b + half <= n
    BY <2>3, <2>5
  <2>7. a = b
    <3> HIDE DEF a, b, n
    <3>1. 1 + a \in 0 .. AllSize - 1 /\ 1 + b \in 0 .. AllSize - 1 /\ AllSize \in Nat \ {0}
          /\ f[1] \in 0 .. AllSize - 1
      BY <2>2, <2>3, <2>5, <2>6
    <3>2. (f[1] + (1 + a)) % AllSize = (f[1] + (1 + b)) % AllSize
      <4>1. f[1] + 1 + a = f[1] + (1 + a) /\ f[1] + 1 + b = f[1] + (1 + b)
        BY <2>5, <2>6
      <4> QED
        BY <2>5, <4>1 DEF a, b
    <3>3. 1 + a = 1 + b
      BY <3>1, <3>2, Around
    <3> QED
      BY <2>6, <3>3
  <2>8. f[3] = g[3]
    <3>1. ASSUME NEW x \in Nat, NEW y \in Nat, NEW h \in Nat \ {0}, x * h = y * h
          PROVE  x = y
      BY <3>1
    <3> QED
      BY <2>3, <2>5, <2>7, <3>1
  <2> QED
    BY <2>5, <2>8
<1>5. conns # Pauses
  BY BurstFile DEF AtZero, kind
<1> QED
  BY <1>2, <1>3, <1>4, <1>5 DEF Workloads

(* The flows of a pair that has never had two at a time: one is started at *)
(* most, and what was handed on is what all of them have used.             *)
OneAtATime(p) ==
  /\ \A f, g \in Flows :
       Pair(f) = p /\ Pair(g) = p /\ Started(f) /\ Started(g) => f = g
  /\ \A f \in Flows :
       Pair(f) = p /\ ring[f] # None =>
         IF shared[p] = None THEN Started(f) ELSE ring[f] = shared[p]

StartedHasRing == \A f \in Flows : Started(f) => ring[f] # None

SInv == StartedHasRing /\ (kind \in Mapped => \A p \in Pairs \ mixed : OneAtATime(p))

(* At time 0 a pair has one flow at most.                                  *)
LEMMA SharedInit == Init => SInv
<1> SUFFICES ASSUME Init PROVE SInv
  OBVIOUS
<1>1. Loaded /\ conns \in Workloads
  BY FileFacts DEF Init
<1>2. /\ \A f \in Flows : Started(f) <=> AtZero(f)
      /\ \A f \in Flows : ring[f] # None => AtZero(f)
      /\ \A f \in Flows : AtZero(f) => ring[f] = f
      /\ \A p \in Pairs : shared[p] = None
  BY DEF Init, Started
<1>3. StartedHasRing
  BY <1>1, <1>2 DEF StartedHasRing, Loaded
<1>4. ASSUME NEW p \in Pairs PROVE OneAtATime(p)
  <2>1. \A f, g \in Flows : Pair(f) = p /\ Pair(g) = p /\ Started(f) /\ Started(g) => f = g
    BY <1>1, <1>2, FirstPairs
  <2>2. \A f \in Flows : ring[f] # None => Started(f)
    BY <1>2
  <2> QED
    BY <1>2, <2>1, <2>2 DEF OneAtATime
<1> QED
  BY <1>3, <1>4 DEF SInv

(* A flow that starts takes over what the pair hands on, or makes a ring   *)
(* of its own when no flow of the pair has one.                            *)
LEMMA SharedBegin ==
  ASSUME CInv, SInv, NEW f \in Flows, Begin(f), status[f] \in {"wait", "pending"}
  PROVE  SInv'
<1>1. Loaded /\ status \in [Flows -> Status] /\ ring \in [Flows -> Flows \cup {None}]
  BY FileFacts DEF CInv, Shape
<1>2. /\ conns' = conns /\ shared' = shared
      /\ status'[f] = "active"
      /\ ring'[f] = IF shared[Pair(f)] = None THEN f ELSE shared[Pair(f)]
      /\ \A g \in Flows : g # f => status'[g] = status[g] /\ ring'[g] = ring[g]
      /\ mixed \subseteq mixed'
      /\ \A g \in Flows : Pair(g) = Pair(f) /\ Started(g) => Pair(f) \in mixed'
  BY <1>1 DEF Begin
<1>3. /\ Flows' = Flows /\ Pairs' = Pairs /\ kind' = kind
      /\ \A g \in Flows : Pair(g)' = Pair(g)
  BY <1>2 DEF Flows, Pairs, Pair, Src, Dst, kind
<1>4. ring'[f] # None /\ Started(f)' /\ ~Started(f)
  BY <1>1, <1>2 DEF Loaded, Started
<1>5. \A g \in Flows : g # f => (Started(g)' <=> Started(g))
  BY <1>2 DEF Started
<1>6. StartedHasRing'
  BY <1>2, <1>3, <1>4, <1>5 DEF SInv, StartedHasRing
<1>7. ASSUME kind \in Mapped, NEW p \in Pairs, p \notin mixed' PROVE OneAtATime(p)'
  <2>1. OneAtATime(p)
    BY <1>2, <1>7 DEF SInv
  <2>2. CASE Pair(f) # p
    BY <1>2, <1>3, <1>5, <2>1, <2>2 DEF OneAtATime
  <2>3. CASE Pair(f) = p
    <3>1. \A g \in Flows : Pair(g) = p => ~Started(g)
      BY <1>2, <1>7, <2>3
    <3>2. \A g \in Flows : Pair(g) = p /\ Started(g)' => g = f
      BY <1>5, <3>1
    <3>3. ASSUME NEW g \in Flows, Pair(g) = p, ring'[g] # None
          PROVE  IF shared[p] = None THEN Started(g)' ELSE ring'[g] = shared[p]
      BY <1>2, <1>4, <2>1, <2>3, <3>1, <3>3 DEF OneAtATime
    <3> QED
      BY <1>2, <1>3, <3>2, <3>3 DEF OneAtATime
  <2> QED
    BY <2>2, <2>3
<1> QED
  BY <1>3, <1>6, <1>7 DEF SInv

(* A flow that ends hands on the ring that all flows of its pair used.     *)
LEMMA SharedDone ==
  ASSUME CInv, SInv, NEW f \in Flows, SendDone(f)
  PROVE  SInv'
<1>1. /\ status \in [Flows -> Status] /\ shared \in [Pairs -> Flows \cup {None}]
      /\ Pair(f) \in Pairs /\ Started(f)
  BY DEF CInv, Shape, SendDone, Pairs, Started
<1>2. conns' = conns /\ ring' = ring /\ mixed' = mixed /\ shared' = HandOn(f)
  BY DEF SendDone
<1>3. /\ Flows' = Flows /\ Pairs' = Pairs /\ kind' = kind
      /\ \A g \in Flows : Pair(g)' = Pair(g)
  BY <1>2 DEF Flows, Pairs, Pair, Src, Dst, kind
<1>4. \A g \in Flows :
        status'[g] = IF g = f THEN "done"
                     ELSE IF g \in Woken(f) THEN "pending" ELSE status[g]
  BY DEF SendDone
<1>5. ~Started(f)' /\ \A g \in Flows : Started(g)' => Started(g)
  BY <1>4 DEF Started
<1>6. \A g \in Flows : Started(g) /\ g # f => Started(g)'
  BY <1>4, WokenWait DEF Started
<1>7. StartedHasRing'
  BY <1>2, <1>3, <1>5 DEF SInv, StartedHasRing
<1>8. ASSUME kind \in Mapped, NEW p \in Pairs, p \notin mixed PROVE OneAtATime(p)'
  <2>1. OneAtATime(p)
    BY <1>8 DEF SInv
  <2>2. shared' = [shared EXCEPT ![Pair(f)] = ring[f]]
    BY <1>2, <1>8 DEF HandOn
  <2>3. CASE Pair(f) # p
    <3>1. shared'[p] = shared[p]
      BY <1>1, <1>8, <2>2, <2>3
    <3>2. \A g \in Flows : Pair(g) = p => (Started(g)' <=> Started(g))
      BY <1>5, <1>6, <2>3
    <3> QED
      BY <1>2, <1>3, <2>1, <3>1, <3>2 DEF OneAtATime
  <2>4. CASE Pair(f) = p
    <3>1. shared'[p] = ring[f] /\ ring[f] # None
      BY <1>1, <2>2, <2>4 DEF SInv, StartedHasRing
    <3>2. \A g \in Flows : Pair(g) = p /\ ring[g] # None => ring[g] = ring[f]
      BY <1>1, <2>1, <2>4, <3>1 DEF OneAtATime
    <3> QED
      BY <1>2, <1>3, <1>5, <2>1, <3>1, <3>2 DEF OneAtATime
  <2> QED
    BY <2>3, <2>4
<1> QED
  BY <1>2, <1>3, <1>7, <1>8 DEF SInv

(* Every step keeps what the pairs share.                                  *)
LEMMA SharedNext == CInv /\ SInv /\ [Next]_vars => SInv'
<1> SUFFICES ASSUME CInv, SInv, [Next]_vars PROVE SInv'
  OBVIOUS
<1>1. ASSUME NEW f \in Flows, Activate(f) \/ StartBurst(f) PROVE SInv'
  BY <1>1, SharedBegin DEF Activate, StartBurst
<1>2. ASSUME NEW f \in Flows, Deliver(f) PROVE SInv'
  <2>1. /\ conns' = conns /\ ring' = ring /\ shared' = shared /\ mixed' = mixed
        /\ status[f] = "active" /\ status' = [status EXCEPT ![f] = "delivered"]
        /\ status \in [Flows -> Status]
    BY <1>2 DEF Deliver, CInv, Shape
  <2>2. /\ Flows' = Flows /\ Pairs' = Pairs /\ kind' = kind
        /\ \A g \in Flows : Pair(g)' = Pair(g)
    BY <2>1 DEF Flows, Pairs, Pair, Src, Dst, kind
  <2>3. \A g \in Flows : Started(g)' <=> Started(g)
    BY <2>1 DEF Started
  <2> QED
    BY <2>1, <2>2, <2>3 DEF SInv, StartedHasRing, OneAtATime
<1>3. ASSUME NEW f \in Flows, SendDone(f) PROVE SInv'
  BY <1>3, SharedDone
<1>4. CASE UNCHANGED vars
  BY <1>4 DEF vars, SInv, StartedHasRing, OneAtATime, Started, Flows, Pairs, Pair, Src, Dst, kind
<1> QED
  BY <1>1, <1>2, <1>3, <1>4 DEF Next

(* With -connections_mapping, the flows of a pair that never overlap all   *)
(* use the ring that the first of them made, however many they are.        *)
THEOREM SharedHolds == Spec => []SharedAcrossGaps
<1>1. CInv /\ SInv => SharedAcrossGaps
  <2> SUFFICES ASSUME CInv, SInv, kind \in Mapped, NEW p \in Pairs \ mixed
               PROVE  Cardinality({ring[f] : f \in {g \in Flows : Pair(g) = p}} \ {None}) <= 1
    BY DEF SharedAcrossGaps
  <2> DEFINE R == {ring[f] : f \in {g \in Flows : Pair(g) = p}} \ {None}
  <2>1. OneAtATime(p)
    BY DEF SInv
  <2>2. \A x, y \in R : x = y
    BY <2>1 DEF OneAtATime
  <2>3. CASE R = {}
    BY <2>3, FS_EmptySet
  <2>4. ASSUME NEW x \in R PROVE Cardinality(R) <= 1
    <3>1. R = {x}
      BY <2>2
    <3>2. Cardinality({x}) = 1
      BY FS_Singleton
    <3> HIDE DEF R
    <3> QED
      BY <3>1, <3>2
  <2> QED
    BY <2>3, <2>4
<1> QED
  BY <1>1, AlwaysC, SharedInit, SharedNext, PTL DEF Spec

-----------------------------------------------------------------------------
(* What the collective computes.                                           *)

(* Going round a circle once or twice ends at the same node.               *)
LEMMA Turns ==
  ASSUME NEW n \in Nat \ {0}, NEW x \in 0 .. n - 1
  PROVE  x % n = x /\ (x + n) % n = x /\ (x + n + n) % n = x
<1>1. x % n = x
  OBVIOUS
<1>2. (x + n) % n = x
  BY <1>1
<1>3. (x + n + n) % n = (x + n) % n
  OBVIOUS
<1> QED
  BY <1>1, <1>2, <1>3

(* gen_allreduce.py: hop d of chunk s goes from the (d - 1)-th node after  *)
(* s to the next, triggered by the hop before.                             *)
LEMMA RingRounds ==
  \A f \in Ring.flows :
    /\ f = <<f[1], f[2], 0>> /\ f[1] \in 0 .. RingSize - 1 /\ f[2] \in Nat \ {0}
    /\ Ring.src[f] = (f[1] + f[2] - 1) % RingSize
    /\ Ring.dst[f] = (f[1] + f[2]) % RingSize
    /\ Ring.on[f] = IF f[2] = 1 THEN None ELSE <<f[1], f[2] - 1>>
    /\ Ring.fires[f] \in {None, <<f[1], f[2]>>}
<1> DEFINE F == {<<s, d, 0>> : s \in 0 .. RingSize - 1, d \in 1 .. Hops}
           src == [f \in F |-> (f[1] + f[2] - 1) % RingSize]
           dst == [f \in F |-> (f[1] + f[2]) % RingSize]
           on == [f \in F |-> IF f[2] = 1 THEN None ELSE <<f[1], f[2] - 1>>]
           fires == [f \in F |-> IF f[2] = Hops THEN None ELSE <<f[1], f[2]>>]
<1>1. /\ Ring.flows = F /\ Ring.src = src /\ Ring.dst = dst
      /\ Ring.on = on /\ Ring.fires = fires
  BY DEF Ring
<1>2. ASSUME NEW f \in F
      PROVE  f = <<f[1], f[2], 0>> /\ f[1] \in 0 .. RingSize - 1 /\ f[2] \in Nat \ {0}
  BY CollectiveAssumption DEF Hops
<1> HIDE DEF F
<1>3. ASSUME NEW f \in F
      PROVE  /\ src[f] = (f[1] + f[2] - 1) % RingSize
             /\ dst[f] = (f[1] + f[2]) % RingSize
             /\ on[f] = IF f[2] = 1 THEN None ELSE <<f[1], f[2] - 1>>
             /\ fires[f] \in {None, <<f[1], f[2]>>}
  OBVIOUS
<1> HIDE DEF src, dst, on, fires
<1> QED
  BY <1>1, <1>2, <1>3

(* The peers in a butterfly of up to two rounds.                           *)
LEMMA Peers ==
  \A n \in 0 .. 3 :
    /\ Peer(n, 0) = IF n \in {0, 2} THEN n + 1 ELSE n - 1
    /\ Peer(n, 1) = IF n \in {0, 1} THEN n + 2 ELSE n - 2
<1> SUFFICES ASSUME NEW n \in 0 .. 3
             PROVE  /\ Peer(n, 0) = IF n \in {0, 2} THEN n + 1 ELSE n - 1
                    /\ Peer(n, 1) = IF n \in {0, 1} THEN n + 2 ELSE n - 2
  OBVIOUS
<1>1. 2^0 = 1 /\ 2^1 = 2
  OBVIOUS
<1>2. n = 0 \/ n = 1 \/ n = 2 \/ n = 3
  OBVIOUS
<1> QED
  BY <1>1, <1>2 DEF Peer

(* gen_allreduce_butterfly.py; of up to two rounds the second is triggered *)
(* by the peer of the first.                                               *)
LEMMA OfButterfly ==
  ASSUME conns \in Workloads, kind = "butterfly", NEW f \in Flows
  PROVE  /\ Src(f) = f[1] /\ Dst(f) = Peer(f[1], f[2]) /\ f[1] \in 0 .. 2^Levels - 1
         /\ Levels <= 2 => /\ f[1] \in 0 .. 3 /\ f[2] \in {0, 1} /\ f[2] < Levels
                           /\ On(f) = IF f[2] = 0 THEN None ELSE <<Peer(f[1], 0), 0>>
         /\ Fires(f) \in {None, <<f[1], f[2]>>}
<1> DEFINE F == {<<n, d, 0>> : n \in 0 .. 2^Levels - 1, d \in 0 .. Levels - 1}
           src == [h \in F |-> h[1]]
           dst == [h \in F |-> Peer(h[1], h[2])]
           on == [h \in F |-> IF h[2] = 0 THEN None ELSE <<Peer(h[1], h[2] - 1), h[2] - 1>>]
           fires == [h \in F |-> IF h[2] = Levels - 1 THEN None ELSE <<h[1], h[2]>>]
<1>1. conns = Butterfly
  BY RingFile, ButterflyFile, AllToAllFile, BurstFile DEF Workloads, kind
<1>2. /\ Flows = F /\ conns.src = src /\ conns.dst = dst
      /\ conns.on = on /\ conns.fires = fires
  BY <1>1 DEF Butterfly, Flows
<1>3. f[1] \in 0 .. 2^Levels - 1 /\ f[2] \in 0 .. Levels - 1
  BY <1>2
<1> HIDE DEF F
<1>4. /\ Src(f) = f[1] /\ Dst(f) = Peer(f[1], f[2])
      /\ On(f) = IF f[2] = 0 THEN None ELSE <<Peer(f[1], f[2] - 1), f[2] - 1>>
      /\ Fires(f) \in {None, <<f[1], f[2]>>}
  BY <1>2 DEF Src, Dst, On, Fires
<1>5. ASSUME Levels <= 2
      PROVE  /\ f[1] \in 0 .. 3 /\ f[2] \in {0, 1} /\ f[2] < Levels
             /\ f[2] # 0 => f[2] - 1 = 0
  <2> DEFINE N == 2^Levels
  <2>1. Levels \in {1, 2} /\ N = IF Levels = 1 THEN 2 ELSE 4
    <3>1. Levels \in {1, 2} /\ 2^1 = 2 /\ 2^2 = 4
      BY <1>5, CollectiveAssumption
    <3> QED
      BY <3>1
  <2>2. f[1] \in 0 .. N - 1
    BY <1>3
  <2> HIDE DEF N
  <2> QED
    BY <1>3, <2>1, <2>2
<1> QED
  BY <1>3, <1>4, <1>5

(* What a flow brings to its sink: the chunk of a ring with the parts of   *)
(* all nodes it has passed; the block of an all-to-all; in a butterfly the *)
(* part of its source, and of the node that it heard of before.            *)
Due(f) ==
  IF kind = "ring" THEN {<<f[1], (f[1] + j) % RingSize>> : j \in 0 .. f[2] - 1}
  ELSE IF kind = "alltoall" THEN {<<Dst(f), Src(f)>>}
  ELSE IF f[2] = 0 THEN {<<0, f[1]>>} ELSE {<<0, f[1]>>, <<0, Peer(f[1], 0)>>}

(* The collectives in which what triggers a flow brings all that is due:   *)
(* not the butterflies of three rounds or more.                            *)
Ordered == kind \in {"ring", "alltoall"} \/ (kind = "butterfly" /\ Levels <= 2)

OwnKept == \A n \in Nodes : Chunks \X {n} \subseteq has[n]

(* A flow that follows no other carries its source's part.                 *)
LEMMA FirstCarries ==
  ASSUME conns \in Workloads, Ordered, OwnKept, NEW f \in Flows,
         kind = "ring" => f[2] = 1, kind = "butterfly" => f[2] = 0
  PROVE  Due(f) \subseteq Carried(f)
<1>1. Src(f) \in Nodes /\ Dst(f) \in Nodes
      /\ Chunks = IF kind = "butterfly" THEN {0} ELSE Nodes
  BY DEF Nodes, Chunks, Ordered
<1>2. CASE kind = "ring"
  <2>1. conns = Ring
    BY <1>2, RingFile, ButterflyFile, AllToAllFile, BurstFile DEF Workloads, kind
  <2>2. f[1] \in 0 .. RingSize - 1 /\ Src(f) = (f[1] + 1 - 1) % RingSize /\ f[2] = 1
    BY <1>2, <2>1, RingRounds DEF Flows, Src
  <2>3. Src(f) = f[1] /\ (f[1] + 0) % RingSize = f[1]
    BY <2>2, Turns, CollectiveAssumption
  <2>4. Due(f) = {<<f[1], f[1]>>}
    BY <1>2, <2>2, <2>3 DEF Due
  <2>5. <<f[1], f[1]>> \in has[Src(f)]
    BY <1>1, <1>2, <2>3 DEF OwnKept
  <2> QED
    BY <1>2, <2>4, <2>5 DEF Carried
<1>3. CASE kind = "alltoall"
  <2>1. <<Dst(f), Src(f)>> \in has[Src(f)]
    BY <1>1, <1>3 DEF OwnKept
  <2> QED
    BY <1>3, <2>1 DEF Due, Carried
<1>4. CASE kind = "butterfly"
  <2>1. Due(f) = {<<0, f[1]>>} /\ Src(f) = f[1]
    BY <1>4, OfButterfly DEF Due
  <2>2. <<0, Src(f)>> \in has[Src(f)]
    BY <1>1, <1>4 DEF OwnKept
  <2> QED
    BY <1>4, <2>1, <2>2 DEF Carried
<1> QED
  BY <1>2, <1>3, <1>4 DEF Ordered

(* A later hop of a ring carries what the hop before it brought, and its   *)
(* source's part.                                                          *)
LEMMA NextCarries ==
  ASSUME conns \in Workloads, Ordered, OwnKept, NEW f \in Flows,
         NEW g \in Flows, On(f) # None, Fires(g) = On(f), Due(g) \subseteq has[Dst(g)]
  PROVE  Due(f) \subseteq Carried(f)
<1>1. Src(f) \in Nodes /\ Dst(f) \in Nodes
      /\ Chunks = IF kind = "butterfly" THEN {0} ELSE Nodes
  BY DEF Nodes, Chunks, Ordered
<1>2. CASE kind = "ring"
  <2>1. conns = Ring
    BY <1>2, RingFile, ButterflyFile, AllToAllFile, BurstFile DEF Workloads, kind
  <2>2. /\ f = <<f[1], f[2], 0>> /\ f[1] \in 0 .. RingSize - 1 /\ f[2] \in Nat \ {0, 1}
        /\ Src(f) = (f[1] + f[2] - 1) % RingSize
        /\ On(f) = <<f[1], f[2] - 1>>
    <3>1. /\ f = <<f[1], f[2], 0>> /\ f[1] \in 0 .. RingSize - 1 /\ f[2] \in Nat \ {0}
          /\ Src(f) = (f[1] + f[2] - 1) % RingSize
          /\ On(f) = IF f[2] = 1 THEN None ELSE <<f[1], f[2] - 1>>
      BY <2>1, RingRounds DEF Flows, Src, On
    <3> QED
      BY <3>1
  <2>3. /\ g = <<g[1], g[2], 0>> /\ g[2] \in Nat
        /\ Dst(g) = (g[1] + g[2]) % RingSize
        /\ <<g[1], g[2]>> = <<f[1], f[2] - 1>>
    <3>1. /\ g = <<g[1], g[2], 0>> /\ g[2] \in Nat
          /\ Dst(g) = (g[1] + g[2]) % RingSize
          /\ Fires(g) \in {None, <<g[1], g[2]>>}
      BY <2>1, RingRounds DEF Flows, Dst, Fires
    <3> QED
      BY <2>2, <3>1
  <2>4. g[1] = f[1] /\ g[2] = f[2] - 1
    BY <2>3
  <2>5. f[1] + f[2] - 1 = f[1] + (f[2] - 1)
    BY <2>2
  <2>6. Dst(g) = Src(f) /\ Src(f) = (f[1] + (f[2] - 1)) % RingSize
    BY <2>2, <2>3, <2>4, <2>5
  <2>7. <<f[1], Src(f)>> \in has[Src(f)]
    <3>1. f[1] \in Nodes
      <4> DEFINE h == <<f[1], 1, 0>>
      <4>1. h \in Ring.flows
        BY <2>2, CollectiveAssumption DEF Ring, Hops
      <4>2. Src(h) = (f[1] + 1 - 1) % RingSize
        BY <2>1, <4>1, RingRounds DEF Src
      <4>3. Src(h) = f[1]
        BY <2>2, <4>2, Turns, CollectiveAssumption
      <4> QED
        BY <2>1, <4>1, <4>3 DEF Nodes, Flows
    <3> QED
      BY <1>1, <1>2, <3>1 DEF OwnKept
  <2>8. ASSUME NEW x \in Due(f) PROVE x \in Carried(f)
    <3>1. PICK j \in 0 .. f[2] - 1 : x = <<f[1], (f[1] + j) % RingSize>>
      BY <1>2 DEF Due
    <3>2. CASE j = f[2] - 1
      BY <1>2, <2>6, <2>7, <3>1, <3>2 DEF Carried
    <3>3. CASE j # f[2] - 1
      <4>1. j \in 0 .. g[2] - 1
        BY <2>2, <2>4, <3>3
      <4>2. x \in Due(g)
        BY <1>2, <2>4, <3>1, <4>1 DEF Due
      <4> QED
        BY <1>2, <2>6, <3>1, <4>2 DEF Carried
    <3> QED
      BY <3>2, <3>3
  <2> QED
    BY <2>8
<1>3. CASE kind = "alltoall"
  BY <1>3, FirstCarries
<1>4. CASE kind = "butterfly"
  <2>1. Levels <= 2
    BY <1>4 DEF Ordered
  <2>2. /\ f[1] \in 0 .. 3 /\ f[2] = 1 /\ Src(f) = f[1]
        /\ On(f) = <<Peer(f[1], 0), 0>>
    BY <1>4, <2>1, OfButterfly
  <2>3. /\ g[1] \in 0 .. 3 /\ g[2] \in {0, 1} /\ Dst(g) = Peer(g[1], g[2])
        /\ Fires(g) \in {None, <<g[1], g[2]>>}
    BY <1>4, <2>1, OfButterfly
  <2>4. g[1] = Peer(f[1], 0) /\ g[2] = 0
    BY <2>2, <2>3 DEF None
  <2>5. Dst(g) = f[1]
    BY <2>2, <2>3, <2>4, Peers
  <2>6. <<0, f[1]>> \in has[Src(f)]
    BY <1>1, <1>4, <2>2 DEF OwnKept
  <2>7. <<0, Peer(f[1], 0)>> \in has[Src(f)]
    BY <1>4, <2>2, <2>4, <2>5 DEF Due
  <2>8. Due(f) = {<<0, f[1]>>, <<0, Peer(f[1], 0)>>}
    BY <1>4, <2>2 DEF Due
  <2> QED
    BY <1>4, <2>6, <2>7, <2>8 DEF Carried
<1> QED
  BY <1>2, <1>3, <1>4 DEF Ordered

(* The inductive invariant: a flow under way carries what is due, a        *)
(* finished one has brought it, and a flow that was started by a trigger   *)
(* follows one that is finished.                                           *)
Filled ==
  \A f \in Flows :
    /\ status[f] \in {"active", "delivered", "done"} => Due(f) \subseteq sent[f]
    /\ status[f] \in {"delivered", "done"} => Due(f) \subseteq has[Dst(f)]

Followed ==
  \A f \in Flows :
    status[f] # "wait" /\ On(f) # None =>
      \E g \in Flows : Fires(g) = On(f) /\ status[g] = "done"

RInv == Ordered => OwnKept /\ Filled /\ Followed

(* What a flow carries when it starts.                                     *)
LEMMA StartCarries ==
  ASSUME conns \in Workloads, Ordered, OwnKept, NEW f \in Flows,
         \/ On(f) = None
         \/ \E g \in Flows : Fires(g) = On(f) /\ Due(g) \subseteq has[Dst(g)]
  PROVE  Due(f) \subseteq Carried(f)
<1>1. CASE On(f) = None
  <2>1. ASSUME kind = "ring" PROVE f[2] = 1
    <3>1. conns = Ring
      BY <2>1, RingFile, ButterflyFile, AllToAllFile, BurstFile DEF Workloads, kind
    <3>2. On(f) = IF f[2] = 1 THEN None ELSE <<f[1], f[2] - 1>>
      BY <3>1, RingRounds DEF Flows, On
    <3> QED
      BY <1>1, <3>2 DEF None
  <2>2. kind = "butterfly" => f[2] = 0
    BY <1>1, OfButterfly DEF Ordered, None
  <2> QED
    BY <2>1, <2>2, FirstCarries
<1>2. CASE On(f) # None
  BY <1>2, NextCarries
<1> QED
  BY <1>1, <1>2

(* The first flows carry their sources' parts.                             *)
LEMMA ResultInit == Init => RInv
<1> SUFFICES ASSUME Init, Ordered PROVE OwnKept /\ Filled /\ Followed
  BY DEF RInv
<1>1. OwnKept /\ conns \in Workloads
  BY DEF Init, OwnKept
<1>2. /\ \A f \in Flows : status[f] = IF AtZero(f) THEN "active" ELSE "wait"
      /\ \A f \in Flows : AtZero(f) => sent[f] = Carried(f) /\ On(f) = None
  BY DEF Init, AtZero
<1>3. \A f \in Flows : AtZero(f) => Due(f) \subseteq sent[f]
  BY <1>1, <1>2, StartCarries
<1> QED
  BY <1>1, <1>2, <1>3 DEF Filled, Followed

(* A step adds to what the nodes have, and takes nothing away.             *)
LEMMA ResultNext == CInv /\ DataInv /\ RInv /\ [Next]_vars => RInv'
<1> SUFFICES ASSUME CInv, DataInv, RInv, [Next]_vars PROVE RInv'
  OBVIOUS
<1>0. conns' = conns
  BY DEF Next, Activate, StartBurst, Begin, Deliver, SendDone, vars
<1>1. /\ Flows' = Flows /\ Nodes' = Nodes /\ Chunks' = Chunks /\ kind' = kind
      /\ \A f \in Flows : Due(f)' = Due(f) /\ Dst(f)' = Dst(f) /\ On(f)' = On(f)
                          /\ Fires(f)' = Fires(f)
  BY <1>0 DEF Flows, Nodes, Chunks, kind, Due, Src, Dst, On, Fires
<1> SUFFICES ASSUME Ordered PROVE (OwnKept /\ Filled /\ Followed)'
  BY <1>1 DEF RInv, Ordered
<1>2. /\ conns \in Workloads /\ status \in [Flows -> Status]
      /\ sent \in [Flows -> SUBSET (Chunks \X Nodes)]
      /\ has \in [Nodes -> SUBSET (Chunks \X Nodes)]
      /\ OwnKept /\ Filled /\ Followed
  BY DEF CInv, Shape, DataInv, RInv
<1>3. ASSUME NEW f \in Flows, Activate(f) PROVE (OwnKept /\ Filled /\ Followed)'
  <2>1. /\ status[f] = "pending" /\ status' = [status EXCEPT ![f] = "active"]
        /\ sent' = [sent EXCEPT ![f] = Carried(f)] /\ has' = has
    BY <1>3 DEF Activate, Begin
  <2>2. Due(f) \subseteq Carried(f)
    BY <1>2, <2>1, StartCarries DEF Filled, Followed
  <2>3. /\ status'[f] = "active" /\ sent'[f] = Carried(f)
        /\ \A g \in Flows : g # f => status'[g] = status[g] /\ sent'[g] = sent[g]
    BY <1>2, <2>1
  <2>4. Filled'
    BY <1>1, <1>2, <2>1, <2>2, <2>3 DEF Filled
  <2>5. Followed'
    BY <1>1, <1>2, <2>1, <2>3 DEF Followed
  <2> QED
    BY <1>1, <1>2, <2>1, <2>4, <2>5 DEF OwnKept
<1>4. ASSUME NEW f \in Flows, Deliver(f) PROVE (OwnKept /\ Filled /\ Followed)'
  <2>1. /\ status[f] = "active" /\ status' = [status EXCEPT ![f] = "delivered"]
        /\ has' = [has EXCEPT ![Dst(f)] = @ \cup sent[f]] /\ sent' = sent
        /\ Dst(f) \in Nodes
    BY <1>4 DEF Deliver, Nodes
  <2>2. /\ \A n \in Nodes : has[n] \subseteq has'[n]
        /\ sent[f] \subseteq has'[Dst(f)]
    BY <1>2, <2>1
  <2>3. /\ status'[f] = "delivered"
        /\ \A g \in Flows : g # f => status'[g] = status[g]
    BY <1>2, <2>1
  <2>4. \A g \in Flows : Dst(g) \in Nodes
    BY DEF Nodes
  <2>5. OwnKept'
    BY <1>1, <1>2, <2>2 DEF OwnKept
  <2>6. Filled'
    BY <1>1, <1>2, <2>1, <2>2, <2>3, <2>4 DEF Filled
  <2>7. Followed'
    BY <1>1, <1>2, <2>1, <2>3 DEF Followed
  <2> QED
    BY <2>5, <2>6, <2>7
<1>5. ASSUME NEW f \in Flows, SendDone(f) PROVE (OwnKept /\ Filled /\ Followed)'
  <2>1. /\ status[f] = "delivered" /\ has' = has /\ sent' = sent
        /\ \A g \in Flows :
             status'[g] = IF g = f THEN "done"
                          ELSE IF g \in Woken(f) THEN "pending" ELSE status[g]
    BY <1>5 DEF SendDone
  <2>2. \A g \in Woken(f) : status[g] = "wait" /\ On(g) = Fires(f)
    BY <1>5, WokenWait DEF Woken, Targets
  <2>3. Filled'
    BY <1>1, <1>2, <2>1, <2>2 DEF Filled
  <2>4. \A g \in Flows : status[g] = "done" => status'[g] = "done"
    BY <2>1, <2>2
  <2>5. status'[f] = "done"
    BY <2>1
  <2>6. Followed'
    BY <1>1, <1>2, <2>1, <2>2, <2>4, <2>5 DEF Followed
  <2> QED
    BY <1>1, <1>2, <2>1, <2>3, <2>6 DEF OwnKept
<1>6. ASSUME NEW f \in Flows, StartBurst(f) PROVE (OwnKept /\ Filled /\ Followed)'
  BY <1>6 DEF StartBurst, Ordered
<1>7. CASE UNCHANGED vars
  BY <1>1, <1>2, <1>7 DEF vars, OwnKept, Filled, Followed
<1> QED
  BY <1>3, <1>4, <1>5, <1>6, <1>7 DEF Next

(* The chunk s of a ring comes to every node after at least RingSize - 1   *)
(* hops, so with the parts of all others.                                  *)
LEMMA RingReaches ==
  ASSUME conns = Ring, NEW s \in 0 .. RingSize - 1, NEW n \in 0 .. RingSize - 1
  PROVE  \E f \in Flows :
           /\ Dst(f) = n
           /\ \A m \in 0 .. RingSize - 1 : m # n => <<s, m>> \in Due(f)
<1> DEFINE R == RingSize
           d == IF n = s - 1 THEN R - 1
                ELSE IF n >= s THEN (IF n - s = R - 1 THEN R - 1 ELSE n - s + R)
                ELSE n - s + R + R
<1>1. R \in Nat \ {0, 1} /\ Hops = 2 * R - 1
  BY CollectiveAssumption DEF Hops
<1>2. d \in R - 1 .. 2 * R - 2
  BY <1>1
<1>3. s + d = n \/ s + d = n + R \/ s + d = n + R + R
  BY <1>1
<1> HIDE DEF d
<1>4. (s + d) % R = n
  BY <1>1, <1>3, Turns
<1> DEFINE f == <<s, d, 0>>
<1>5. f \in Flows
  BY <1>1, <1>2 DEF Flows, Ring
<1>6. Dst(f) = n
  BY <1>4, <1>5, RingRounds DEF Dst, Flows
<1>7. ASSUME NEW m \in 0 .. R - 1, m # n PROVE <<s, m>> \in Due(f)
  <2> DEFINE j == IF m >= s THEN m - s ELSE m - s + R
  <2>1. j \in 0 .. R - 1 /\ (s + j = m \/ s + j = m + R)
    BY <1>1
  <2> HIDE DEF j
  <2>2. (s + j) % R = m
    BY <1>1, <2>1, Turns
  <2>3. j \in 0 .. d - 1
    BY <1>1, <1>2, <1>4, <1>7, <2>1, <2>2
  <2>4. kind = "ring"
    BY RingFile DEF kind
  <2> QED
    BY <2>2, <2>3, <2>4 DEF Due
<1> QED
  BY <1>5, <1>6, <1>7

(* A sender of an all-to-all has a flow to every other node.               *)
LEMMA AllToAllReaches ==
  ASSUME conns = AllToAll, NEW s \in Senders, NEW n \in 0 .. AllSize - 1, n # s
  PROVE  \E f \in Flows : Src(f) = s /\ Dst(f) = n
<1> DEFINE F == AllToAll.flows
           dst == [h \in F |-> (IF h[2] <= half THEN h[1] + h[2] + h[3] * half
                                ELSE h[1] + Parallel * half + h[3] + 1) % AllSize]
           N == AllSize - 1
           k == IF n > s THEN n - s ELSE n - s + AllSize
<1>1. Flows = F /\ conns.dst = dst
  BY DEF Flows, AllToAll
<1>2. N \in Nat /\ Parallel \in 1 .. N /\ s \in 0 .. N /\ AllSize = N + 1 /\ n \in 0 .. N
  BY CollectiveAssumption
<1>3. k \in 1 .. N /\ (s + k = n \/ s + k = n + AllSize)
  BY <1>2
<1>4. half \in Nat \ {0} /\ left \in 0 .. Parallel - 1 /\ N = Parallel * half + left
  <2> DEFINE q == N \div Parallel
             r == N % Parallel
  <2>1. half = q /\ left = r
    BY DEF half, left
  <2> HIDE DEF N
  <2>2. q \in Nat \ {0}
    BY <1>2, Parts
  <2>3. r \in 0 .. Parallel - 1 /\ N = Parallel * q + r
    BY <1>2, Divides
  <2> HIDE DEF q, r
  <2> QED
    BY <2>1, <2>2, <2>3
<1> HIDE DEF k
<1>5. (s + k) % AllSize = n
  <2>1. n % AllSize = n /\ (n + AllSize) % AllSize = n
    BY <1>2, Turns
  <2> QED
    BY <1>3, <2>1
<1> HIDE DEF N
<1>6. ASSUME NEW f \in F, f[1] = s,
             (IF f[2] <= half THEN f[1] + f[2] + f[3] * half
              ELSE f[1] + Parallel * half + f[3] + 1) = s + k
      PROVE  Src(f) = s /\ Dst(f) = n
  <2> HIDE DEF F
  <2>1. dst[f] = n
    BY <1>5, <1>6
  <2> QED
    BY <1>1, <1>6, <2>1, AllToAllRounds DEF Src, Dst, F
<1>7. CASE k <= Parallel * half
  <2> DEFINE c == (k - 1) \div half
             d == ((k - 1) % half) + 1
  <2>1. k - 1 \in Nat
    BY <1>2, <1>3
  <2> DEFINE e == (k - 1) % half
  <2>2. c \in Nat /\ d \in 1 .. half /\ k - 1 = half * c + (d - 1)
    <3>1. c \in Nat /\ e \in 0 .. half - 1 /\ k - 1 = half * c + e
      BY <1>4, <2>1, Divides
    <3>2. d = e + 1
      OBVIOUS
    <3> HIDE DEF c, d, e
    <3> QED
      BY <1>4, <3>1, <3>2
  <2> HIDE DEF c, d
  <2>3. c \in 0 .. Parallel - 1
    <3>1. half * c < half * Parallel
      BY <1>2, <1>3, <1>4, <1>7, <2>2
    <3>2. c < Parallel
      BY <1>2, <1>4, <2>2, <3>1
    <3> QED
      BY <1>2, <2>2, <3>2
  <2>4. <<s, d, c>> \in F
    BY <2>2, <2>3 DEF AllToAll
  <2>5. s + d + c * half = s + k
    <3>1. c * half = half * c /\ half * c \in Nat
      BY <1>4, <2>2
    <3> QED
      BY <1>2, <1>3, <2>2, <3>1
  <2> QED
    BY <1>1, <1>6, <2>2, <2>4, <2>5
<1>8. CASE k > Parallel * half
  <2> DEFINE c == k - Parallel * half - 1
  <2>1. Parallel * half \in Nat
    BY <1>2, <1>4
  <2>2. c \in 0 .. left - 1 /\ s + Parallel * half + c + 1 = s + k
    BY <1>2, <1>3, <1>4, <1>8, <2>1
  <2> HIDE DEF c
  <2>3. <<s, half + 1, c>> \in F
    BY <2>2 DEF AllToAll
  <2>4. ~(half + 1 <= half)
    BY <1>4
  <2> QED
    BY <1>1, <1>6, <2>2, <2>3, <2>4
<1> QED
  BY <1>2, <1>3, <1>4, <1>7, <1>8

(* A node of a butterfly of one or two rounds hears of every other.        *)
LEMMA ButterflyReaches ==
  ASSUME conns \in Workloads, kind = "butterfly", Levels <= 2,
         NEW n \in Nodes, NEW m \in Nodes, m # n
  PROVE  \E f \in Flows : Dst(f) = n /\ <<0, m>> \in Due(f)
<1> DEFINE N == 2^Levels
<1>1. Levels \in {1, 2} /\ N = IF Levels = 1 THEN 2 ELSE 4
  <2>1. Levels \in {1, 2} /\ 2^1 = 2 /\ 2^2 = 4
    BY CollectiveAssumption
  <2> QED
    BY <2>1
<1>2. \A f \in Flows :
        /\ Src(f) = f[1] /\ Dst(f) = Peer(f[1], f[2])
        /\ f[1] \in 0 .. N - 1 /\ f[2] \in {0, 1} /\ f[2] < Levels
  BY OfButterfly
<1>3. n \in 0 .. N - 1 /\ m \in 0 .. N - 1
  <2>1. \A a \in 0 .. N - 1, d \in {0, 1} :
          d < Levels => Peer(a, d) \in 0 .. N - 1
    BY <1>1, Peers
  <2> QED
    BY <1>2, <2>1 DEF Nodes
<1>4. \A a \in 0 .. N - 1, d \in 0 .. Levels - 1 : <<a, d, 0>> \in Flows
  <2>1. conns = Butterfly
    BY RingFile, ButterflyFile, AllToAllFile, BurstFile DEF Workloads, kind
  <2> QED
    BY <2>1 DEF Flows, Butterfly
<1> HIDE DEF N
<1>5. CASE m = Peer(n, 0)
  <2> DEFINE f == <<m, 0, 0>>
  <2>1. f \in Flows
    BY <1>1, <1>3, <1>4
  <2>2. Dst(f) = Peer(m, 0)
    BY <1>2, <2>1
  <2>3. Peer(m, 0) = n
    BY <1>1, <1>3, <1>5, Peers
  <2>4. <<0, m>> \in Due(f)
    BY DEF Due
  <2> QED
    BY <2>1, <2>2, <2>3, <2>4
<1>6. CASE m # Peer(n, 0)
  <2> DEFINE a == Peer(n, 1)
             f == <<a, 1, 0>>
  <2>1. Levels = 2 /\ a \in 0 .. 3 /\ Peer(a, 1) = n /\ m \in {a, Peer(a, 0)}
    BY <1>1, <1>3, <1>6, Peers
  <2> HIDE DEF a
  <2>2. f \in Flows
    BY <1>1, <1>4, <2>1
  <2>3. Dst(f) = Peer(a, 1)
    BY <1>2, <2>2
  <2>4. Due(f) = {<<0, a>>, <<0, Peer(a, 0)>>}
    BY DEF Due
  <2> QED
    BY <2>1, <2>2, <2>3, <2>4
<1> QED
  BY <1>5, <1>6

(* When every flow is done, in whatever order they finished, every node    *)
(* has all that the collective promises: for rings and all-to-alls of any  *)
(* size, and for butterflies of up to two rounds.                          *)
THEOREM ResultHolds == Spec => []ResultComplete
<1>1. CInv /\ RInv => ResultComplete
  <2> SUFFICES ASSUME CInv, RInv, kind = "butterfly" => Levels <= 2,
                      \A f \in Flows : status[f] = "done", NEW n \in Nodes
               PROVE  Whole(n) \subseteq has[n]
    BY DEF ResultComplete
  <2>1. /\ conns \in Workloads
        /\ (conns = Ring /\ kind = "ring") \/ (conns = AllToAll /\ kind = "alltoall")
           \/ (conns = Pauses /\ kind = "bursts") \/ kind = "butterfly"
    BY RingFile, ButterflyFile, AllToAllFile, BurstFile DEF CInv, Shape, Workloads, kind
  <2>2. CASE conns = Ring /\ kind = "ring"
    <3>1. Chunks = Nodes /\ OwnKept /\ \A f \in Flows : Due(f) \subseteq has[Dst(f)]
      BY <2>2 DEF Chunks, RInv, Filled, Ordered
    <3>2. Nodes \subseteq 0 .. RingSize - 1
      <4>1. ASSUME NEW f \in Flows PROVE Src(f) \in 0 .. RingSize - 1 /\ Dst(f) \in 0 .. RingSize - 1
        <5>1. /\ f[1] \in 0 .. RingSize - 1 /\ f[2] \in Nat \ {0}
              /\ Src(f) = (f[1] + f[2] - 1) % RingSize
              /\ Dst(f) = (f[1] + f[2]) % RingSize
          BY <2>2, RingRounds DEF Flows, Src, Dst
        <5>2. f[1] + f[2] - 1 \in Nat /\ f[1] + f[2] \in Nat
          BY <5>1, CollectiveAssumption
        <5> QED
          BY <5>1, <5>2, CollectiveAssumption
      <4> QED
        BY <4>1 DEF Nodes
    <3>3. ASSUME NEW s \in Nodes, NEW m \in Nodes PROVE <<s, m>> \in has[n]
      <4>1. PICK f \in Flows :
              /\ Dst(f) = n
              /\ \A l \in 0 .. RingSize - 1 : l # n => <<s, l>> \in Due(f)
        BY <2>2, <3>2, RingReaches
      <4>2. CASE m = n
        BY <3>1, <4>2 DEF OwnKept
      <4>3. CASE m # n
        BY <3>1, <3>2, <4>1, <4>3
      <4> QED
        BY <4>2, <4>3
    <3> QED
      BY <2>2, <3>1, <3>3 DEF Whole
  <2>3. CASE conns = AllToAll /\ kind = "alltoall"
    <3>1. Chunks = Nodes /\ OwnKept /\ \A f \in Flows : <<Dst(f), Src(f)>> \in has[Dst(f)]
      BY <2>3 DEF Chunks, RInv, Filled, Due, Ordered
    <3>2. n \in 0 .. AllSize - 1
      <4> DEFINE F == AllToAll.flows
                 dst == [h \in F |-> (IF h[2] <= half THEN h[1] + h[2] + h[3] * half
                                      ELSE h[1] + Parallel * half + h[3] + 1) % AllSize]
      <4>1. Flows = F /\ conns.dst = dst
        BY <2>3 DEF Flows, AllToAll
      <4>2. ASSUME NEW f \in F PROVE Src(f) \in 0 .. AllSize - 1 /\ Dst(f) \in 0 .. AllSize - 1
        <5>1. f[1] \in 0 .. AllSize - 1 /\ f[2] \in Nat /\ f[3] \in Nat /\ Src(f) = f[1]
          BY <2>3, AllToAllRounds, CollectiveAssumption DEF Src
        <5> DEFINE x == IF f[2] <= half THEN f[1] + f[2] + f[3] * half
                        ELSE f[1] + Parallel * half + f[3] + 1
        <5>2. half \in Nat
          <6>1. AllSize - 1 \in Nat /\ Parallel \in Nat \ {0}
            BY CollectiveAssumption
          <6> QED
            BY <6>1 DEF half
        <5>3. x \in Nat
          <6>1. f[3] * half \in Nat /\ Parallel * half \in Nat
            BY <5>1, <5>2, CollectiveAssumption
          <6> QED
            BY <5>1, <5>2, <6>1
        <5>4. Dst(f) = x % AllSize
          <6> HIDE DEF F
          <6> QED
            BY <4>1 DEF Dst
        <5> HIDE DEF x
        <5> QED
          BY <5>1, <5>3, <5>4, CollectiveAssumption
      <4> HIDE DEF F
      <4> QED
        BY <4>1, <4>2 DEF Nodes
    <3>3. ASSUME NEW s \in Senders PROVE <<n, s>> \in has[n]
      <4>1. CASE s = n
        BY <3>1, <4>1 DEF OwnKept
      <4>2. CASE s # n
        BY <2>3, <3>1, <3>2, <4>2, AllToAllReaches
      <4> QED
        BY <4>1, <4>2
    <3> QED
      BY <2>3, <3>3 DEF Whole
  <2>4. CASE kind = "bursts"
    BY <2>4 DEF Whole
  <2>5. CASE kind = "butterfly"
    <3>1. Chunks = {0} /\ OwnKept /\ \A f \in Flows : Due(f) \subseteq has[Dst(f)]
      BY <2>5 DEF Chunks, RInv, Filled, Ordered
    <3>2. ASSUME NEW m \in Nodes PROVE <<0, m>> \in has[n]
      <4>1. CASE m = n
        BY <3>1, <4>1 DEF OwnKept
      <4>2. CASE m # n
        BY <2>1, <2>5, <3>1, <4>2, ButterflyReaches
      <4> QED
        BY <4>1, <4>2
    <3> QED
      BY <2>5, <3>1, <3>2 DEF Whole
  <2> QED
    BY <2>1, <2>2, <2>3, <2>4, <2>5
<1>2. Spec => []DataInv
  BY DataInit, DataNext, PTL DEF Spec
<1> QED
  BY <1>1, <1>2, AlwaysC, ResultInit, ResultNext, PTL DEF Spec
=============================================================================
