----------------------------- MODULE KlbFabric -----------------------------
(***************************************************************************)
(* Flows balanced by the KLB family over a fabric whose ports are either   *)
(* all StatefulECNQueues, with an incumbent table each, or all             *)
(* CompositeQueues, which mark and trim as their depth says (not modelled: *)
(* any packet may be marked, trimmed or lost).                             *)
(*                                                                         *)
(* Route gives the ports a path crosses, the ToR downlinks left out: they  *)
(* neither track nor mark.  MaxFly bounds what a flow has under way.       *)
(***************************************************************************)
EXTENDS KlbSender, StatefulEcn, Bags

CONSTANTS
  Flows,
  Ports,
  Route,    \* the ports each path of a flow crosses, in order
  Stateful, \* -queue_type stateful_ecn
  MaxFly

ASSUME FabricAssumption ==
  /\ Route \in [Flows -> [Paths -> Seq(Ports)]]
  /\ Stateful \in BOOLEAN
  /\ MaxFly \in Nat

VARIABLES
  src,   \* the sender of each flow
  table, \* the incumbent table of each port
  wire,  \* bag of packets on their way to their sink
  back,  \* bag of ACKs and NACKs on their way to their sender
  lost   \* bag of packets that are gone and have not timed out yet

vars == <<src, table, wire, back, lost>>

Packets == [flow : Flows, ev : Paths, rts : BOOLEAN, hop : Nat \ {0}, ecn : BOOLEAN]
Answers == [flow : Flows, ev : Paths, fb : {"good", "ecn", "nack"}]

Key(pkt) == <<pkt.flow, pkt.ev>>

RouteOf(pkt) == Route[pkt.flow][pkt.ev]
Arrived(pkt) == pkt.hop > Len(RouteOf(pkt))
PortOf(pkt)  == RouteOf(pkt)[pkt.hop]

Launched(f, p, isRts) == [flow |-> f, ev |-> p, rts |-> isRts, hop |-> 1, ecn |-> FALSE]

One(x) == SetToBag({x})

Copies(x, b) == IF BagIn(x, b) THEN b[x] ELSE 0

UnderWay(f) ==
  LET Of(b) == BagCardinality([x \in {y \in BagToSet(b) : y.flow = f} |-> b[x]])
  IN Of(wire) + Of(back) + Of(lost)

Init ==
  /\ src \in [Flows -> FreshSenders]
  /\ table = [q \in Ports |-> EmptyTable]
  /\ wire = EmptyBag
  /\ back = EmptyBag
  /\ lost = EmptyBag

-----------------------------------------------------------------------------
(* A sender puts a packet on the path its balancer draws.                  *)
Send(f) ==
  /\ UnderWay(f) < MaxFly
  /\ \E p \in Draws(src[f]) : wire' = wire (+) One(Launched(f, p, FALSE))
  /\ src' = [src EXCEPT ![f] = Next1(@)]
  /\ UNCHANGED <<table, back, lost>>

(* receivePacket() of a StatefulECNQueue, for a data packet that finds     *)
(* room in the queue behind the table.                                     *)
CrossStateful(pkt) ==
  LET t == table[PortOf(pkt)] IN
  /\ Stateful /\ ~pkt.rts /\ ~Arrived(pkt)
  /\ \E mark \in Marks(t, Key(pkt)) :
       wire' = wire (-) One(pkt) (+) One([pkt EXCEPT !.hop = @ + 1, !.ecn = mark])
  /\ table' = [table EXCEPT ![PortOf(pkt)] = Arrival(t, Key(pkt))]
  /\ UNCHANGED <<src, back, lost>>

(* The same for a packet the full queue drops: the table keeps its entry.  *)
DropStateful(pkt) ==
  /\ Stateful /\ ~pkt.rts /\ ~Arrived(pkt)
  /\ table' = [table EXCEPT ![PortOf(pkt)] = Arrival(@, Key(pkt))]
  /\ wire' = wire (-) One(pkt)
  /\ lost' = lost (+) One(pkt)
  /\ UNCHANGED <<src, back>>

(* Packets no table tracks: all of them at a CompositeQueue, the RTS at a  *)
(* StatefulECNQueue, which marks those that find its queue deep.           *)
Untracked(pkt) == ~Arrived(pkt) /\ (Stateful => pkt.rts)

(* A mark stays; a CompositeQueue marks no packet of high priority.        *)
UntrackedMarks(pkt) ==
  {m \in BOOLEAN : IF pkt.ecn THEN m ELSE m => IF Stateful THEN DepthMarks ELSE ~pkt.rts}

CrossUntracked(pkt) ==
  /\ Untracked(pkt)
  /\ \E mark \in UntrackedMarks(pkt) :
       wire' = wire (-) One(pkt) (+) One([pkt EXCEPT !.hop = @ + 1, !.ecn = mark])
  /\ UNCHANGED <<src, table, back, lost>>

DropUntracked(pkt) ==
  /\ Untracked(pkt)
  /\ wire' = wire (-) One(pkt)
  /\ lost' = lost (+) One(pkt)
  /\ UNCHANGED <<src, table, back>>

(* A trimmed packet makes the sink send a NACK.                            *)
TrimComposite(pkt) ==
  /\ ~Stateful /\ ~pkt.rts /\ ~Arrived(pkt)
  /\ wire' = wire (-) One(pkt)
  /\ back' = back (+) One([flow |-> pkt.flow, ev |-> pkt.ev, fb |-> "nack"])
  /\ UNCHANGED <<src, table, lost>>

-----------------------------------------------------------------------------
(* The sink answers with an ACK that echoes path and mark.  An assertion   *)
(* of processRts() stops the program when an RTS is marked.                *)
Deliver(pkt) ==
  /\ Arrived(pkt) /\ (pkt.rts => ~pkt.ecn)
  /\ wire' = wire (-) One(pkt)
  /\ back' = back (+) One([flow |-> pkt.flow, ev |-> pkt.ev,
                           fb |-> IF pkt.ecn THEN "ecn" ELSE "good"])
  /\ UNCHANGED <<src, table, lost>>

(* The sink may leave an unmarked packet to a later ACK, an RTS never.     *)
Absorb(pkt) ==
  /\ Arrived(pkt) /\ ~pkt.ecn /\ ~pkt.rts
  /\ wire' = wire (-) One(pkt)
  /\ UNCHANGED <<src, table, back, lost>>

(* The feedback an answer brings reaches the balancer.                     *)
Hear(a) ==
  /\ \E s \in ProcessEv(src[a.flow], a.ev, a.fb) : src' = [src EXCEPT ![a.flow] = s]
  /\ back' = back (-) One(a)
  /\ UNCHANGED <<table, wire, lost>>

(* An answer is lost, or a NACK comes for a packet the sender has settled  *)
(* otherwise.                                                              *)
LoseAnswer(a) ==
  /\ back' = back (-) One(a)
  /\ UNCHANGED <<src, table, wire, lost>>

(* The retransmission timer of a lost packet fires, and may send an RTS on *)
(* the path the balancer draws.                                            *)
Expire(pkt) ==
  LET f == pkt.flow
      s == ProcessTimeout(src[f], pkt.ev)
  IN
  /\ \/ src' = [src EXCEPT ![f] = s] /\ wire' = wire
     \/ /\ src' = [src EXCEPT ![f] = Next1(s)]
        /\ \E p \in Draws(s) : wire' = wire (+) One(Launched(f, p, TRUE))
  /\ lost' = lost (-) One(pkt)
  /\ UNCHANGED <<table, back>>

Tick ==
  /\ src' = [f \in Flows |-> Calmer(src[f])]
  /\ table' = [q \in Ports |-> Older(table[q])]
  /\ UNCHANGED <<wire, back, lost>>

OnWire(pkt) ==
  \/ CrossStateful(pkt) \/ DropStateful(pkt)
  \/ CrossUntracked(pkt) \/ DropUntracked(pkt) \/ TrimComposite(pkt)
  \/ Deliver(pkt) \/ Absorb(pkt)

Next ==
  \/ \E f \in Flows : Send(f)
  \/ \E pkt \in BagToSet(wire) : OnWire(pkt)
  \/ \E a \in BagToSet(back) : Hear(a) \/ LoseAnswer(a)
  \/ \E pkt \in BagToSet(lost) : Expire(pkt)
  \/ Tick

Spec == Init /\ [][Next]_vars

-----------------------------------------------------------------------------
Tables == UNION {[keys -> Ages] : keys \in SUBSET (Flows \X Paths)}

BagOf(b, S) == BagToSet(b) \subseteq S /\ \A x \in BagToSet(b) : b[x] \in Nat \ {0}

(* Everything keeps its type: slots, streaks and cooldowns of the sender,  *)
(* ages of the tables, and what travels.                                   *)
TypeOK ==
  /\ src \in [Flows -> Sender]
  /\ table \in [Ports -> Tables]
  /\ BagOf(wire, Packets) /\ BagOf(lost, Packets) /\ BagOf(back, Answers)

(* Two slots of KLB or SKLB hold the same path only if it is path 0, what  *)
(* klb_pick_fresh_path() answers when all of its draws clash.              *)
DuplicatesArePathZero ==
  Algo # "hklb" /\ K <= N =>
    \A f \in Flows : \A i, j \in Slots :
      i # j /\ src[f].slots[i] = src[f].slots[j] => src[f].slots[i] = 0

(* The list HKLB rotates over holds each confirmed path once and nothing   *)
(* else: the draw never indexes past its end, nor favours a path.          *)
ListMatchesSet ==
  \A f \in Flows : /\ Range(src[f].list) = src[f].confirmed
                   /\ Len(src[f].list) = Cardinality(src[f].confirmed)

(* A path HKLB rotates over does not cool down: a clean ACK that was under *)
(* way when its path was evicted cannot bring it back (Fix A).             *)
ConfirmedNotQuiet ==
  Algo = "hklb" => \A f \in Flows : \A p \in src[f].confirmed : src[f].quiet[p] = 0

(* The fabric has settled: every balancer is full, each of its sub-flows   *)
(* is an incumbent at every port of its path, and nothing else is under    *)
(* way, neither data of other sub-flows, nor marks on data, nor news that  *)
(* would move a balancer.                                                  *)
Holds(f, p) ==
  \A h \in 1 .. Len(Route[f][p]) : <<f, p>> \in Incumbents(table[Route[f][p][h]])

InPlace(pkt) == pkt.rts \/ (pkt.ev \in ActivePaths(src[pkt.flow]) /\ ~pkt.ecn)

Settled ==
  /\ Algo = "hklb" => \A f \in Flows : Steady(src[f])
  /\ \A f \in Flows : \A p \in ActivePaths(src[f]) : Holds(f, p)
  /\ \A pkt \in BagToSet(wire) : InPlace(pkt)
  /\ \A a \in BagToSet(back) : a.fb = "good" \/ a.ev \notin ActivePaths(src[a.flow])

(* Absolute incumbent advantage: a settled fabric stays settled, however   *)
(* deep its queues and however long a sub-flow is silent.                  *)
SettledIsStable == [][Stateful /\ Settled => Settled']_vars

(* An incumbent heard from within the timeout keeps its slot.              *)
IncumbentsKept ==
  [][\A q \in Ports : Fresh(table[q]) \subseteq Incumbents(table'[q])]_vars

Rejection(pkt) == [pkt EXCEPT !.hop = @ + 1, !.ecn = TRUE]

(* A port rejects only when other sub-flows, each heard from within the    *)
(* timeout, hold all of its slots: no ghost keeps a newcomer out.          *)
RejectionDeserved ==
  [][\A pkt \in BagToSet(wire) :
       /\ ~Arrived(pkt) /\ ~pkt.ecn /\ ~pkt.rts
       /\ Copies(pkt, wire') < Copies(pkt, wire)
       /\ Copies(Rejection(pkt), wire') > Copies(Rejection(pkt), wire)
       => LET t == table'[PortOf(pkt)]
          IN Cardinality(Fresh(t)) >= SlotsPerLink /\ Key(pkt) \notin Incumbents(t)]_vars

(* No RTS reaches its sink with a mark: an assertion of processRts().      *)
RtsUnmarked == \A pkt \in BagToSet(wire) : pkt.rts /\ Arrived(pkt) => ~pkt.ecn

(* A timeout on a path evicts it from the active set of HKLB.              *)
TimeoutEvicts ==
  [][\A pkt \in BagToSet(lost) :
       Algo = "hklb" /\ Copies(pkt, lost') < Copies(pkt, lost)
       => pkt.ev \notin ActivePaths(src'[pkt.flow])]_vars
=============================================================================
