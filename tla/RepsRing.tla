------------------------------ MODULE RepsRing ------------------------------
(***************************************************************************)
(* The circular buffer of recycled entropy values (EVs) that REPS keeps    *)
(* per sender: class CircularBufferREPS of buffer_reps.h / buffer_reps.cpp.*)
(* A ring is a record; each method of the class is an operator from rings  *)
(* to rings.  Slots are numbered 0..RingSize-1 as in the code.             *)
(*                                                                         *)
(* Two members are left out because no code path changes or reads them:    *)
(* tail (remove() exits the program) and usable_lifetime, which is 1 for   *)
(* the whole run (setUsableLifetime() has no caller), so compressed_acks   *)
(* is FALSE and every pop invalidates its slot.                            *)
(***************************************************************************)
EXTENDS Integers, FiniteSets

CONSTANTS
  RingSize,  \* repsBufferSize, the number of slots
  Paths      \* _no_of_paths, the number of EVs a sender chooses from

ASSUME RingAssumption == RingSize \in Nat \ {0} /\ Paths \in Nat \ {0}

Slots == 0 .. RingSize - 1
Ev    == 0 .. Paths - 1

Ring == [ value      : [Slots -> Ev],
          valid      : [Slots -> BOOLEAN],
          head       : Slots,               \* next slot to write
          count      : 0 .. RingSize,       \* slots written since the reset
          frozenHead : Slots,               \* next slot a frozen source reads
          fresh      : 0 .. RingSize ]      \* number_fresh_entropies

(* The constructor, and resetBuffer(): T() and the reset both store EV 0.  *)
EmptyRing == [ value      |-> [i \in Slots |-> 0],
               valid      |-> [i \in Slots |-> FALSE],
               head       |-> 0,
               count      |-> 0,
               frozenHead |-> 0,
               fresh      |-> 0 ]

(* resetBuffer() leaves nothing of the old ring behind.                     *)
Reset(r) == EmptyRing

AtMost(n, bound) == IF n > bound THEN bound ELSE n

IsEmpty(r) == r.count = 0

AddCountsOverwrite(r, ev) ==
  [ r EXCEPT !.value[r.head] = ev, !.valid[r.head] = TRUE, !.head = (r.head + 1) % RingSize,
             !.fresh = AtMost(r.fresh + 1, RingSize), !.count = AtMost(r.count + 1, RingSize) ]

(* add(): overwrite the slot at head, oldest entry first.                  *)
Add(r, ev) ==
  [ value      |-> [r.value EXCEPT ![r.head] = ev],
    valid      |-> [r.valid EXCEPT ![r.head] = TRUE],
    head       |-> (r.head + 1) % RingSize,
    count      |-> AtMost(r.count + 1, RingSize),
    frozenHead |-> r.frozenHead,
    fresh      |-> AtMost(IF r.valid[r.head] THEN r.fresh ELSE r.fresh + 1, RingSize) ]

(* The slot remove_earliest_fresh() and peek_earliest_fresh() read: fresh  *)
(* slots behind head.  Only asked for when HasFresh(r).                    *)
HasFresh(r) == r.count # 0 /\ r.fresh # 0

NewestSlot(r) == (r.head + RingSize - 1) % RingSize
FreshSlot(r) ==
  IF r.head - r.fresh < 0 THEN r.head + RingSize - r.fresh ELSE r.head - r.fresh

FreshValue(r) == r.value[FreshSlot(r)]

PopFreshKeepsSlot(r) == [r EXCEPT !.fresh = r.fresh]
PopFresh(r) ==
  [ value      |-> r.value,
    valid      |-> [r.valid EXCEPT ![FreshSlot(r)] = FALSE],
    head       |-> r.head,
    count      |-> r.count,
    frozenHead |-> r.frozenHead,
    fresh      |-> r.fresh - 1 ]

(* remove_frozen(): cycle over the written slots, valid or not.            *)
FrozenValue(r) == r.value[r.frozenHead]
FrozenValid(r) == r.valid[r.frozenHead]

PopFrozenStays(r) ==
  [ r EXCEPT !.valid[r.frozenHead] = FALSE,
             !.fresh = IF FrozenValid(r) THEN r.fresh - 1 ELSE r.fresh ]
PopFrozen(r) ==
  [ value      |-> r.value,
    valid      |-> [r.valid EXCEPT ![r.frozenHead] = FALSE],
    head       |-> r.head,
    count      |-> r.count,
    frozenHead |-> (r.frozenHead + 1) % r.count,
    fresh      |-> IF FrozenValid(r) THEN r.fresh - 1 ELSE r.fresh ]

(* containsEntropy(): compares every slot, whatever its state.             *)
ContainsEntropy(r, ev) == \E i \in Slots : r.value[i] = ev

ValidSlots(r) == { i \in Slots : r.valid[i] }
=============================================================================
