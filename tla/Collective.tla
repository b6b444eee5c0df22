----------------------------- MODULE Collective -----------------------------
(***************************************************************************)
(* The workloads of a collective: the flows that the generators in         *)
(* connection_matrices/ write, chained by the triggers of trigger.cpp, and *)
(* what the sources of one pair hand on to each other through              *)
(* CONNECTION_INFO_MAP (-connections_mapping).                             *)
(*                                                                         *)
(* A flow is <<a, d, c>>: chunk a, hop d of a ring; node a, round d of a   *)
(* butterfly; node a, round d, c-th parallel flow of an all-to-all; burst  *)
(* d of a sender that pauses.  A trigger is named by the <<a, d>> of the   *)
(* flows that fire it.  The simulator moves bytes without contents: "has"  *)
(* and "sent" record what the collective would compute with them.          *)
(***************************************************************************)
EXTENDS Integers, FiniteSets

CONSTANTS
  Kinds,      \* the workloads to look at
  Mapped,     \* those that run with -connections_mapping
  RingSize,   \* groupsize of gen_allreduce.py
  Levels,     \* gen_allreduce_butterfly.py has a groupsize of 2^Levels
  AllSize,    \* groupsize of gen_serialn_alltoall.py
  Parallel,   \* its parallel_cons
  Senders,    \* bound: the nodes of the all-to-all whose flows are looked at
  Bursts      \* --n of gen_c3_cm.py

ASSUME CollectiveAssumption ==
  /\ Mapped \subseteq Kinds
  /\ Kinds \subseteq {"ring", "butterfly", "alltoall", "bursts"}
  /\ RingSize \in Nat \ {0, 1} /\ AllSize \in Nat \ {0, 1} /\ Bursts \in Nat \ {0}
  /\ Levels \in Nat \ {0}
  /\ Parallel \in 1 .. AllSize - 1
  /\ Senders \subseteq 0 .. AllSize - 1 /\ Senders # {}

None  == <<>>     \* no trigger: the flow starts by time, or fires none

(* gen_allreduce.py: chunk s goes round from s, 2 * RingSize - 1 hops.     *)
HopsTooFew == 2 * RingSize - 3
Hops == 2 * RingSize - 1

Ring ==
  LET F == {<<s, d, 0>> : s \in 0 .. RingSize - 1, d \in 1 .. Hops}
  IN [kind |-> "ring", flows |-> F,
      src   |-> [f \in F |-> (f[1] + f[2] - 1) % RingSize],
      dst   |-> [f \in F |-> (f[1] + f[2]) % RingSize],
      on    |-> [f \in F |-> IF f[2] = 1 THEN None ELSE <<f[1], f[2] - 1>>],
      fires |-> [f \in F |-> IF f[2] = Hops THEN None ELSE <<f[1], f[2]>>]]

(* gen_allreduce_butterfly.py: in round d a node exchanges with the one    *)
(* 2^d away; what a node receives in a round triggers its next round.      *)
Peer(n, d) == IF (n \div 2^d) % 2 = 0 THEN n + 2^d ELSE n - 2^d

Butterfly ==
  LET F == {<<n, d, 0>> : n \in 0 .. 2^Levels - 1, d \in 0 .. Levels - 1}
  IN [kind |-> "butterfly", flows |-> F,
      src   |-> [f \in F |-> f[1]],
      dst   |-> [f \in F |-> Peer(f[1], f[2])],
      on    |-> [f \in F |-> IF f[2] = 0 THEN None ELSE <<Peer(f[1], f[2] - 1), f[2] - 1>>],
      fires |-> [f \in F |-> IF f[2] = Levels - 1 THEN None ELSE <<f[1], f[2]>>]]

(* gen_serialn_alltoall.py: "half" rounds of Parallel flows, and a last    *)
(* one of "left".                                                          *)
half == (AllSize - 1) \div Parallel
left == (AllSize - 1) % Parallel

AllToAll ==
  LET F == {<<s, d, c>> : s \in Senders, d \in 1 .. half, c \in 0 .. Parallel - 1}
             \cup {<<s, half + 1, c>> : s \in Senders, c \in 0 .. left - 1}
      last(f) == f[2] = half + 1 \/ (f[2] = half /\ left = 0)
  IN [kind |-> "alltoall", flows |-> F,
      src   |-> [f \in F |-> f[1]],
      dst   |-> [f \in F |-> (IF f[2] <= half THEN f[1] + f[2] + f[3] * half
                              ELSE f[1] + Parallel * half + f[3] + 1) % AllSize],
      on    |-> [f \in F |-> IF f[2] = 1 THEN None ELSE <<f[1], f[2] - 1>>],
      fires |-> [f \in F |-> IF last(f) THEN None ELSE <<f[1], f[2]>>]]

(* gen_c3_cm.py: bursts from one host to another, each with its own start. *)
Pauses ==
  LET F == {<<0, d, 0>> : d \in 1 .. Bursts}
  IN [kind |-> "bursts", flows |-> F,
      src   |-> [f \in F |-> 0],
      dst   |-> [f \in F |-> 1],
      on    |-> [f \in F |-> None],
      fires |-> [f \in F |-> None]]

Workloads == {w \in {Ring, Butterfly, AllToAll, Pauses} : w.kind \in Kinds}

-----------------------------------------------------------------------------
VARIABLES
  conns,    \* the ConnectionMatrix that was loaded
  status,   \* of each flow
  shots,    \* how often each trigger was activated
  has,      \* for each node, the <<chunk, node>> its data accounts for
  sent,     \* for each flow, what it carries
  ring,     \* for each flow, its circular_buffer_reps, named by the flow that made it
  shared,   \* CONNECTION_INFO_MAP: the ring each <<src, dst>> hands on
  freed,    \* rings that were deleted
  mixed     \* history: pairs that had two flows at the same time

vars == <<conns, status, shots, has, sent, ring, shared, freed, mixed>>

kind     == conns.kind
Flows    == conns.flows
Src(f)   == conns.src[f]
Dst(f)   == conns.dst[f]
On(f)    == conns.on[f]
Fires(f) == conns.fires[f]
Pair(f)   == <<Src(f), Dst(f)>>
Nodes     == {Src(f) : f \in Flows} \cup {Dst(f) : f \in Flows}
Triggers  == {Fires(f) : f \in Flows} \ {None}
Pairs     == {Pair(f) : f \in Flows}

(* What a node holds at first: its part of every chunk of a reduction, its *)
(* block for every node in an all-to-all.                                  *)
Chunks == CASE kind = "ring" -> Nodes [] kind = "alltoall" -> Nodes [] OTHER -> {0}

Carried(f) ==
  LET c == CASE kind = "ring" -> f[1] [] kind = "alltoall" -> Dst(f) [] OTHER -> 0
  IN {x \in has[Src(f)] : x[1] = c}

Whole(n) ==
  IF kind = "alltoall" THEN {n} \X Senders
  ELSE IF kind = "bursts" THEN {}
  ELSE Chunks \X Nodes

Status == {"wait", "pending", "active", "delivered", "done"}

TypeOK ==
  /\ conns  \in Workloads
  /\ status \in [Flows -> Status]
  /\ shots  \in [Triggers -> Nat]
  /\ has    \in [Nodes -> SUBSET (Chunks \X Nodes)]
  /\ sent   \in [Flows -> SUBSET (Chunks \X Nodes)]
  /\ ring   \in [Flows -> Flows \cup {None}]
  /\ shared \in [Pairs -> Flows \cup {None}]
  /\ freed  \subseteq Flows
  /\ mixed  \subseteq Pairs

(* The flows without a trigger of a collective all start at time 0, before *)
(* anything else happens; those of the bursts start one after another.     *)
AtZero(f) == On(f) = None /\ kind # "bursts"

Init ==
  /\ conns \in Workloads
  /\ status = [f \in Flows |-> IF AtZero(f) THEN "active" ELSE "wait"]
  /\ shots  = [t \in Triggers |-> 0]
  /\ has    = [n \in Nodes |-> Chunks \X {n}]
  /\ sent   = [f \in Flows |-> IF AtZero(f) THEN Carried(f) ELSE {}]
  /\ ring   = [f \in Flows |-> IF AtZero(f) THEN f ELSE None]
  /\ shared = [p \in Pairs |-> None]
  /\ freed  = {}
  /\ mixed  = {}

Started(f) == status[f] \in {"active", "delivered"}

(* startFlow(): a source that is started again deletes the ring it made; a *)
(* ring in the map is taken over.                                          *)
Begin(f) ==
  /\ status' = [status EXCEPT ![f] = "active"]
  /\ sent'   = [sent EXCEPT ![f] = Carried(f)]
  /\ ring'   = [ring EXCEPT ![f] = IF shared[Pair(f)] = None THEN f ELSE shared[Pair(f)]]
  /\ freed'  = freed \cup {r \in {ring[f]} : r = f /\ shared[Pair(f)] # None}
  /\ mixed'  = mixed \cup {p \in {Pair(f)} : \E g \in Flows : Pair(g) = p /\ Started(g)}
  /\ UNCHANGED <<conns, shots, has, shared>>

(* A pending trigger target goes before every other event.                 *)
Activate(f) == status[f] = "pending" /\ Begin(f)

Quiet == \A f \in Flows : status[f] # "pending"

StartBurst(f) ==
  /\ Quiet
  /\ kind = "bursts" /\ status[f] = "wait"
  /\ \A g \in Flows : g[2] < f[2] => status[g] # "wait"
  /\ Begin(f)

(* The last byte of a flow reaches its sink.                               *)
Deliver(f) ==
  /\ Quiet
  /\ status[f] = "active"
  /\ status' = [status EXCEPT ![f] = "delivered"]
  /\ has'    = [has EXCEPT ![Dst(f)] = @ \cup sent[f]]
  /\ UNCHANGED <<conns, shots, sent, ring, shared, freed, mixed>>

(* A oneshot trigger starts all its targets, a multishot one the next, or  *)
(* none when all have been started.                                        *)
TargetsAlwaysFirst(t) ==
  {g \in Flows : On(g) = t /\ (kind = "alltoall" => g[3] = 0)}

TargetsAtOnce(t) == {g \in Flows : On(g) = t}

TargetsFromSecond(t) ==
  {g \in Flows : On(g) = t /\ (kind = "alltoall" => g[3] = shots[t] + 1)}

Targets(t) ==
  {g \in Flows : On(g) = t /\ (kind = "alltoall" => g[3] = shots[t])}

Woken(f) == IF Fires(f) = None THEN {} ELSE Targets(Fires(f))

HandOnNothing(f) == shared
HandOn(f) == IF kind \in Mapped THEN [shared EXCEPT ![Pair(f)] = ring[f]] ELSE shared

(* checkFinished() at the ACK of the last byte.                            *)
SendDoneAgain(f) ==
  /\ Quiet
  /\ status[f] \in {"delivered", "done"}
  /\ shared' = HandOn(f)
  /\ LET woken == Woken(f)
     IN status' = [g \in Flows |-> IF g = f THEN "done"
                                   ELSE IF g \in woken THEN "pending" ELSE status[g]]
  /\ shots' = [t \in Triggers |-> IF t = Fires(f) THEN shots[t] + 1 ELSE shots[t]]
  /\ UNCHANGED <<conns, has, sent, ring, freed, mixed>>

(* ... which returns early if the flow was done before.                    *)
SendDone(f) ==
  /\ Quiet
  /\ status[f] = "delivered"
  /\ shared' = HandOn(f)
  /\ LET woken == Woken(f)
     IN status' = [g \in Flows |-> IF g = f THEN "done"
                                   ELSE IF g \in woken THEN "pending" ELSE status[g]]
  /\ shots' = [t \in Triggers |-> IF t = Fires(f) THEN shots[t] + 1 ELSE shots[t]]
  /\ UNCHANGED <<conns, has, sent, ring, freed, mixed>>

Next == \E f \in Flows : Activate(f) \/ StartBurst(f) \/ Deliver(f) \/ SendDone(f)

Spec == Init /\ [][Next]_vars

(* Time passes, and the transport of a flow finishes it (EventuallyDone of *)
(* UecFlow).                                                               *)
FairSpec == Spec /\ WF_vars(Next)

-----------------------------------------------------------------------------
(* A oneshot trigger is activated once: its assert() never fails.          *)
OneShotOnce ==
  kind \in {"ring", "butterfly"} => \A t \in Triggers : shots[t] <= 1

(* A node of an all-to-all never has more than Parallel flows under way,   *)
(* in whatever order its flows finish.  (It may have fewer while flows     *)
(* wait: a chain that runs ahead ends early.)                              *)
WindowKept ==
  kind = "alltoall" =>
    \A n \in Nodes :
      Cardinality({f \in Flows : Src(f) = n /\ (Started(f) \/ status[f] = "pending")})
        <= Parallel

(* When every flow is done, every node has what the collective promises:   *)
(* all chunks reduced over all nodes, or a block of every node.  (Of a     *)
(* butterfly of two rounds: in a later round a node may send too early, as *)
(* only what arrives in round d - 1 triggers it, and what was due in round *)
(* d - 2 may still be under way.)                                          *)
ResultComplete ==
  (kind = "butterfly" => Levels <= 2) /\ (\A f \in Flows : status[f] = "done")
    => \A n \in Nodes : Whole(n) \subseteq has[n]

(* No source uses a ring that another source, started again, has deleted.  *)
RingAlive == \A f \in Flows : Started(f) => ring[f] \notin freed

(* Flows of one pair that never overlap all use one ring.                  *)
SharedAcrossGaps ==
  kind \in Mapped => \A p \in Pairs \ mixed :
    Cardinality({ring[f] : f \in {g \in Flows : Pair(g) = p}} \ {None}) <= 1

(* Every flow of the workload is started and finished: no chain stalls.    *)
Completes == <>(\A f \in Flows : status[f] = "done")
=============================================================================
