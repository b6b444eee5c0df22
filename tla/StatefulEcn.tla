---------------------------- MODULE StatefulEcn ----------------------------
(***************************************************************************)
(* The incumbent table of one switch port (StatefulECNQueue): which        *)
(* sub-flows, pairs of a flow and an entropy value, hold a slot, and how   *)
(* long ago each was heard from.                                           *)
(*                                                                         *)
(* A table maps each incumbent to the age of its entry, now - last_seen.   *)
(* Ages stop at Idle + 1: the code only compares them with the timeout.    *)
(***************************************************************************)
EXTENDS Integers, FiniteSets, Functions

CONSTANTS
  SlotsPerLink, \* _max_incumbents
  Idle,         \* _idle_timeout_ps
  DepthMarks    \* _ecn_threshold > 0

ASSUME TableAssumption == SlotsPerLink \in Nat /\ Idle \in Nat /\ DepthMarks \in BOOLEAN

Ages == 0 .. Idle + 1

EmptyTable == [key \in {} |-> 0]

Incumbents(table) == DOMAIN table

Fresh(table) == {key \in Incumbents(table) : table[key] <= Idle}

(* Mutants: an entry that has just reached the timeout is evicted too;     *)
(* nothing is evicted, and ghosts keep their slots.                        *)
EvictTooEarly(table) == Restrict(table, {key \in Incumbents(table) : table[key] < Idle})
EvictNone(table) == Restrict(table, Incumbents(table))

(* evict_expired().                                                        *)
EvictExpired(table) == Restrict(table, Fresh(table))

Seen(table, key) == [x \in Incumbents(table) \cup {key} |-> IF x = key THEN 0 ELSE table[x]]

HasRoom(table) == Cardinality(Incumbents(table)) < SlotsPerLink

(* The table after a packet of sub-flow key arrived: the entries of others *)
(* are evicted only when a newcomer asks for a slot.                       *)
Arrival(table, key) ==
  IF key \in Incumbents(table) THEN Seen(table, key)
  ELSE LET kept == EvictExpired(table)
       IN IF HasRoom(kept) THEN Seen(kept, key) ELSE kept

Admitted(table, key) == key \in Incumbents(Arrival(table, key))

(* Mutant: a deep queue marks incumbents too.                              *)
MarksByDepth(table, key) == {~Admitted(table, key), DepthMarks}

(* The ECN mark a data packet of sub-flow key may leave the port with.  Depth   *)
(* marking is for packets that were not admitted, and those are marked     *)
(* already: the depth of the queue makes no difference.                    *)
Marks(table, key) == {~Admitted(table, key)}

(* Time passes.                                                            *)
Older(table) == [key \in Incumbents(table) |-> IF table[key] > Idle THEN table[key] ELSE table[key] + 1]
=============================================================================
