----------------------------- MODULE KlbSender -----------------------------
(***************************************************************************)
(* The sender's side of the KLB family of load balancers: KLB and SKLB     *)
(* rotate over K slots that always hold an entropy value, HKLB over the    *)
(* values that came back clean, once it has K of them.                     *)
(*                                                                         *)
(* rand() is a choice among what it can lead to: draws and feedback have   *)
(* sets of outcomes.  The send index is kept modulo K, a cooldown as the   *)
(* time it has left.                                                       *)
(***************************************************************************)
EXTENDS Integers, Sequences, FiniteSets, SequencesExt

CONSTANTS
  Algo,       \* "klb", "sklb" or "hklb"
  N,          \* _no_of_paths
  KParam,     \* _klb_k_param
  Fixes,      \* _klb_enable_fixes
  QuietTime,  \* the cooldown of Fix A
  StreakWrap  \* a streak is counted modulo this (256, a uint8_t)

ASSUME SenderAssumption ==
  /\ Algo \in {"klb", "sklb", "hklb"}
  /\ N \in Nat \ {0}
  /\ KParam \in Nat \ {0}
  /\ Fixes \in BOOLEAN
  /\ QuietTime \in Nat
  /\ StreakWrap \in Nat \ {0}

Paths == 0 .. N - 1

K == IF Algo = "hklb" /\ N < KParam THEN N ELSE KParam

Slots == 1 .. K

Sender ==
  [slots : [Slots -> Paths],               \* _klb_active_evs
   idx : 0 .. K - 1,                       \* _klb_send_idx, _hklb_send_idx
   streak : [Slots -> 0 .. StreakWrap - 1],     \* _klb_ecn_streak
   quiet : [Paths -> 0 .. QuietTime],           \* _ev_quiet_until
   confirmed : SUBSET Paths,               \* _hklb_active_set
   list : Seq(Paths),                      \* _hklb_active_list
   pathStreak : [Paths -> 0 .. StreakWrap - 1]] \* _hklb_ecn_streak

(* KLB and SKLB start with distinct values as long as there are enough.    *)
FirstSlots ==
  IF Algo = "hklb" THEN {[i \in Slots |-> 0]}
  ELSE {ev \in [Slots -> Paths] : \A i, j \in Slots : i < j /\ j <= N => ev[i] # ev[j]}

FreshSenders ==
  {[slots |-> ev, idx |-> 0, streak |-> [i \in Slots |-> 0],
    quiet |-> [p \in Paths |-> 0], confirmed |-> {}, list |-> <<>>,
    pathStreak |-> [p \in Paths |-> 0]] : ev \in FirstSlots}

Others(s, i) == {s.slots[j] : j \in Slots \ {i}}

(* Mutant: the pick forgets the other slots.                               *)
PickAnyPath(s, i) == Paths

(* klb_pick_fresh_path(): 4N draws look for a path no other slot holds and *)
(* that does not cool down.  The last distinct one is taken otherwise, so  *)
(* a cooldown makes a path less likely, never impossible; and when every   *)
(* draw clashes with another slot the answer is path 0.                    *)
PickFreshPath(s, i) ==
  IF K > N THEN Paths
  ELSE (Paths \ Others(s, i)) \cup {p \in {0} : K > 1}

Next1(s) == [s EXCEPT !.idx = (s.idx + 1) % K]

Steady(s) == Cardinality(s.confirmed) >= K

(* nextEntropy_KLB(), nextEntropy_SKLB() and nextEntropy_HybridKLB(): the  *)
(* values a draw may yield.  HKLB looks for a path that does not cool down *)
(* but takes any other when its draws find none.                           *)
Draws(s) ==
  IF Algo # "hklb" THEN {s.slots[s.idx + 1]}
  ELSE IF Steady(s) THEN {s.list[Next1(s).idx + 1]}
  ELSE Paths

(* Every path that is evicted with the fixes on cools down.                *)
Cooled(s, p) == IF Fixes THEN [s EXCEPT !.quiet[p] = QuietTime] ELSE s

(* KLB and HKLB ignore a mark with probability 1/K, so with K = 1 always;  *)
(* SKLB never does.                                                        *)
Spares == Algo # "sklb"
Evicts == Algo = "sklb" \/ K > 1

SlotOf(s, p) == Min({i \in Slots : s.slots[i] = p})

Marked(s, i) == IF Fixes THEN [s EXCEPT !.streak[i] = (s.streak[i] + 1) % StreakWrap] ELSE s

Replaced(s, i) ==
  LET cool == IF Fixes THEN [Cooled(s, s.slots[i]) EXCEPT !.streak[i] = 0] ELSE s
  IN {[cool EXCEPT !.slots[i] = p] : p \in PickFreshPath(s, i)}

(* processEv_KLB() and processEv_SKLB().                                   *)
SlotFeedback(s, p, fb) ==
  LET i == SlotOf(s, p)
      t == Marked(s, i)
  IN IF p \notin Range(s.slots) THEN {s}
     ELSE IF fb # "ecn" THEN {IF Fixes THEN [s EXCEPT !.streak[i] = 0] ELSE s}
     ELSE IF Fixes /\ t.streak[i] < 2 THEN {t}
     ELSE {u \in {t} : Spares} \cup {u \in Replaced(t, i) : Evicts}

Confirm(s, p) == [s EXCEPT !.confirmed = @ \cup {p}, !.list = Append(@, p)]

(* Mutant: only the set forgets the path.                                  *)
EvictSetOnly(s, p) ==
  LET t == IF Fixes THEN [Cooled(s, p) EXCEPT !.pathStreak[p] = 0] ELSE s
  IN [t EXCEPT !.confirmed = @ \ {p}]

(* A path leaves the set and the list HKLB rotates over.                   *)
Evict(s, p) ==
  LET t == IF Fixes THEN [Cooled(s, p) EXCEPT !.pathStreak[p] = 0] ELSE s
  IN [t EXCEPT !.confirmed = @ \ {p}, !.list = RemoveFirst(@, p)]

(* Mutant: a clean ACK confirms a path that cools down.                    *)
MayConfirmHot(s, p) == p \notin s.confirmed /\ ~Steady(s)

MayConfirm(s, p) ==
  /\ p \notin s.confirmed
  /\ ~Steady(s)
  /\ Fixes => s.quiet[p] = 0

(* processEv_HybridKLB().                                                  *)
ConfirmedFeedback(s, p, fb) ==
  LET clean  == IF Fixes THEN [s EXCEPT !.pathStreak[p] = 0] ELSE s
      marked == IF Fixes THEN [s EXCEPT !.pathStreak[p] = (@ + 1) % StreakWrap] ELSE s
  IN IF fb = "good" THEN {IF MayConfirm(clean, p) THEN Confirm(clean, p) ELSE clean}
     ELSE IF p \notin s.confirmed THEN {s}
     ELSE IF fb = "nack" THEN {Evict(s, p)}
     ELSE IF Fixes /\ marked.pathStreak[p] < 2 THEN {marked}
     ELSE {u \in {marked} : Spares} \cup {u \in {Evict(marked, p)} : Evicts}

ProcessEv(s, p, fb) ==
  IF Algo = "hklb" THEN ConfirmedFeedback(s, p, fb) ELSE SlotFeedback(s, p, fb)

(* rtxTimerExpired() tells the balancer nothing.                           *)
ProcessTimeout(s, p) == s

(* Time passes.                                                            *)
Calmer(s) == [s EXCEPT !.quiet = [p \in Paths |-> IF s.quiet[p] = 0 THEN 0 ELSE s.quiet[p] - 1]]

ActivePaths(s) == IF Algo = "hklb" THEN s.confirmed ELSE Range(s.slots)
=============================================================================
