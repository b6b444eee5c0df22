-------------------------- MODULE RepsBufferProofs --------------------------
(***************************************************************************)
(* Proofs about RepsBuffer, for every ring size and number of paths.       *)
(*                                                                         *)
(* The counters of the ring are right because of three facts that hold     *)
(* together: the counter equals the number of valid slots, only written    *)
(* slots are valid, and until the ring is full the slot at head is the     *)
(* first one never written.  RingOK(r) is their conjunction; each ring     *)
(* operation preserves it (lemmas), hence every action does (theorem).     *)
(* For the refinement the ring is read as a queue: Behind(r, n) are the    *)
(* EVs of the last n additions.                                            *)
(***************************************************************************)
EXTENDS RepsBuffer, FiniteSetTheorems, SequenceTheorems, TLAPS

RingOK(r) ==
  /\ r \in Ring
  /\ r.fresh = Cardinality(ValidSlots(r))
  /\ r.count < RingSize => r.head = r.count
  /\ \A i \in Slots : r.valid[i] => i < r.count
  /\ r.frozenHead < r.count \/ r.frozenHead = 0

(* The valid slots are the fresh ones behind head.                         *)
Contiguous(r) == \A i \in Slots : r.valid[i] <=> Back(r, i) < r.fresh

(* The slots 0..count-1 hold EVs of the set S.                             *)
Holds(r, S) == \A i \in Slots : Written(r, i) => r.value[i] \in S

IInv ==
  /\ TypeOK
  /\ RingOK(ring)
  /\ ~frozen => Contiguous(ring)
  /\ Holds(ring, learnt)
  /\ NeverFrozenExploring

-----------------------------------------------------------------------------
(* Arithmetic modulo the ring size, and the counting of valid slots.       *)

(* The successor of a slot stays in the ring and wraps at the end only.    *)
LEMMA NextSlot ==
  ASSUME NEW n \in Nat \ {0}, NEW i \in 0 .. n - 1
  PROVE  (i + 1) % n = IF i + 1 = n THEN 0 ELSE i + 1
  OBVIOUS

(* A ring has at most RingSize valid slots, and a finite number of them.   *)
LEMMA ValidSlotsFinite ==
  ASSUME NEW r
  PROVE  /\ IsFiniteSet(ValidSlots(r))
         /\ Cardinality(ValidSlots(r)) \in 0 .. RingSize
<1>1. IsFiniteSet(Slots) /\ Cardinality(Slots) = RingSize
  BY FS_Interval, RingAssumption DEF Slots
<1>2. ValidSlots(r) \in SUBSET Slots
  BY DEF ValidSlots
<1>3. IsFiniteSet(ValidSlots(r)) /\ Cardinality(ValidSlots(r)) <= RingSize
  BY <1>1, <1>2, FS_Subset
<1>4. Cardinality(ValidSlots(r)) \in Nat
  BY <1>3, FS_CardinalityType
<1> QED
  BY <1>3, <1>4, RingAssumption

(* An empty ring is a correct ring.                                        *)
LEMMA EmptyRingOK == RingOK(EmptyRing) /\ Contiguous(EmptyRing)
<1>1. EmptyRing \in Ring
  BY RingAssumption DEF EmptyRing, Ring, Slots, Ev
<1>2. ValidSlots(EmptyRing) = {}
  BY DEF ValidSlots, EmptyRing
<1>3. Contiguous(EmptyRing)
  BY RingAssumption DEF Contiguous, EmptyRing, Back, Slots
<1> QED
  BY <1>1, <1>2, <1>3, FS_EmptySet DEF RingOK, EmptyRing

(* Writing a slot counts it once, whether it was valid or not.             *)
LEMMA AddOK ==
  ASSUME NEW r, RingOK(r), NEW ev \in Ev
  PROVE  RingOK(Add(r, ev))
<1> DEFINE q == Add(r, ev)
<1>1. r \in Ring /\ r.head \in Slots /\ RingSize \in Nat \ {0}
  BY RingAssumption DEF RingOK, Ring
<1>2. (r.head + 1) % RingSize = IF r.head + 1 = RingSize THEN 0 ELSE r.head + 1
  BY <1>1, NextSlot DEF Slots
<1>3. ValidSlots(q) = ValidSlots(r) \cup {r.head}
  BY <1>1 DEF ValidSlots, Add, Ring
<1>4. Cardinality(ValidSlots(q))
        = IF r.valid[r.head] THEN r.fresh ELSE r.fresh + 1
  <2>1. r.fresh = Cardinality(ValidSlots(r)) /\ IsFiniteSet(ValidSlots(r))
    BY ValidSlotsFinite DEF RingOK
  <2>2. r.head \in ValidSlots(r) <=> r.valid[r.head]
    BY <1>1 DEF ValidSlots
  <2> QED
    BY <1>3, <2>1, <2>2, FS_AddElement
<1>5. Cardinality(ValidSlots(q)) \in 0 .. RingSize
  BY ValidSlotsFinite
<1>6. q.fresh = Cardinality(ValidSlots(q))
  BY <1>1, <1>4, <1>5 DEF Add, AtMost, Ring
<1>7. q \in Ring
  BY <1>1, <1>2, <1>5, <1>6 DEF Add, AtMost, Ring, Slots
<1>8. q.count < RingSize => q.head = q.count
  BY <1>1, <1>2 DEF Add, AtMost, Ring, RingOK, Slots
<1>9. \A i \in Slots : q.valid[i] => i < q.count
  BY <1>1 DEF Add, AtMost, Ring, RingOK, Slots
<1>10. q.frozenHead < q.count \/ q.frozenHead = 0
  BY <1>1 DEF Add, AtMost, Ring, RingOK, Slots
<1> QED
  BY <1>6, <1>7, <1>8, <1>9, <1>10 DEF RingOK

(* Writing at head puts the new slot behind it and pushes out the oldest.  *)
LEMMA AddContiguous ==
  ASSUME NEW r, RingOK(r), Contiguous(r), NEW ev \in Ev
  PROVE  Contiguous(Add(r, ev))
<1> DEFINE q == Add(r, ev)
<1>1. r \in Ring /\ r.head \in Slots /\ RingSize \in Nat \ {0} /\ r.fresh \in 0 .. RingSize
  BY RingAssumption DEF RingOK, Ring
<1>2. q.head = IF r.head + 1 = RingSize THEN 0 ELSE r.head + 1
  BY <1>1, NextSlot DEF Slots, Add, Ring
<1>3. r.valid[r.head] <=> r.fresh = RingSize
  BY <1>1 DEF Contiguous, Back, Slots
<1>4. q.fresh = IF r.fresh = RingSize THEN RingSize ELSE r.fresh + 1
  BY <1>1, <1>3 DEF Add, AtMost, Ring
<1> SUFFICES ASSUME NEW i \in Slots
             PROVE  q.valid[i] <=> Back(q, i) < q.fresh
  BY DEF Contiguous
<1>5. CASE i = r.head
  <2>1. q.valid[i]
    BY <1>1, <1>5 DEF Add, Ring
  <2>2. Back(q, i) = 0
    BY <1>1, <1>2, <1>5 DEF Back, Slots
  <2> QED
    BY <1>1, <1>4, <2>1, <2>2
<1>6. CASE i # r.head
  <2>1. q.valid[i] <=> r.valid[i]
    BY <1>1, <1>6 DEF Add, Ring
  <2>2. r.valid[i] <=> Back(r, i) < r.fresh
    BY DEF Contiguous
  <2>3. Back(q, i) = Back(r, i) + 1 /\ Back(r, i) \in 0 .. RingSize - 2
    BY <1>1, <1>2, <1>6 DEF Back, Slots
  <2> QED
    BY <1>1, <1>4, <2>1, <2>2, <2>3
<1> QED
  BY <1>5, <1>6

(* The slot found from head and the counter is the oldest valid one.       *)
LEMMA FreshSlotValid ==
  ASSUME NEW r, RingOK(r), Contiguous(r), HasFresh(r)
  PROVE  /\ FreshSlot(r) \in Slots
         /\ r.valid[FreshSlot(r)]
         /\ Back(r, FreshSlot(r)) = r.fresh - 1
<1>1. r.head \in Slots /\ RingSize \in Nat \ {0} /\ r.fresh \in 1 .. RingSize
  BY RingAssumption DEF RingOK, Ring, HasFresh
<1>2. FreshSlot(r) \in Slots /\ Back(r, FreshSlot(r)) = r.fresh - 1
  BY <1>1 DEF FreshSlot, Back, Slots
<1> QED
  BY <1>1, <1>2 DEF Contiguous

(* Taking the oldest fresh EV.                                             *)
LEMMA PopFreshOK ==
  ASSUME NEW r, RingOK(r), Contiguous(r), HasFresh(r)
  PROVE  RingOK(PopFresh(r)) /\ Contiguous(PopFresh(r))
<1> DEFINE q == PopFresh(r)
           s == FreshSlot(r)
<1>1. r \in Ring /\ r.head \in Slots /\ RingSize \in Nat \ {0} /\ r.fresh \in 1 .. RingSize
  BY RingAssumption DEF RingOK, Ring, HasFresh
<1>2. s \in Slots /\ r.valid[s] /\ Back(r, s) = r.fresh - 1
  BY FreshSlotValid
<1>3. ValidSlots(q) = ValidSlots(r) \ {s}
  BY <1>1, <1>2 DEF ValidSlots, PopFresh, Ring
<1>4. Cardinality(ValidSlots(q)) = r.fresh - 1
  <2>1. r.fresh = Cardinality(ValidSlots(r)) /\ IsFiniteSet(ValidSlots(r))
    BY ValidSlotsFinite DEF RingOK
  <2>2. s \in ValidSlots(r)
    BY <1>2 DEF ValidSlots
  <2> HIDE DEF s, q
  <2> QED
    BY <1>3, <2>1, <2>2, FS_RemoveElement
<1>5. q \in Ring /\ q.fresh = r.fresh - 1
  BY <1>1, <1>2 DEF PopFresh, Ring
<1>6. RingOK(q)
  BY <1>1, <1>2, <1>4, <1>5 DEF RingOK, PopFresh, Ring
<1>7. ASSUME NEW i \in Slots
      PROVE  q.valid[i] <=> Back(q, i) < q.fresh
  <2>1. Back(q, i) = Back(r, i) /\ Back(r, i) \in 0 .. RingSize - 1
    BY <1>1 DEF Back, PopFresh, Slots, Ring
  <2>2. r.valid[i] <=> Back(r, i) < r.fresh
    BY DEF Contiguous
  <2>3. CASE i = s
    BY <1>1, <1>2, <1>5, <2>1, <2>3 DEF PopFresh, Ring
  <2>4. CASE i # s
    <3>1. Back(r, i) # r.fresh - 1
      BY <1>1, <1>2, <2>4 DEF Back, Slots
    <3>2. q.valid[i] = r.valid[i]
      BY <1>1, <2>4 DEF PopFresh, Ring
    <3> QED
      BY <1>1, <1>5, <2>1, <2>2, <3>1, <3>2
  <2> QED
    BY <2>3, <2>4
<1> QED
  BY <1>6, <1>7 DEF Contiguous

(* Taking the EV under the frozen cursor.                                  *)
LEMMA PopFrozenOK ==
  ASSUME NEW r, RingOK(r), ~IsEmpty(r)
  PROVE  RingOK(PopFrozen(r))
<1> DEFINE q == PopFrozen(r)
           s == r.frozenHead
<1>1. r \in Ring /\ s \in Slots /\ RingSize \in Nat \ {0} /\ r.count \in 1 .. RingSize
  BY RingAssumption DEF RingOK, Ring, IsEmpty
<1>2. s \in 0 .. r.count - 1 /\ r.count \in Nat \ {0}
  BY <1>1 DEF RingOK, Slots
<1>3. (s + 1) % r.count \in 0 .. r.count - 1
  BY <1>2, NextSlot
<1>4. ValidSlots(q) = ValidSlots(r) \ {s}
  BY <1>1 DEF ValidSlots, PopFrozen, Ring
<1>5. Cardinality(ValidSlots(q)) = IF FrozenValid(r) THEN r.fresh - 1 ELSE r.fresh
  <2>1. r.fresh = Cardinality(ValidSlots(r)) /\ IsFiniteSet(ValidSlots(r))
    BY ValidSlotsFinite DEF RingOK
  <2>2. s \in ValidSlots(r) <=> FrozenValid(r)
    BY <1>1 DEF ValidSlots, FrozenValid
  <2> HIDE DEF s, q
  <2> QED
    BY <1>4, <2>1, <2>2, FS_RemoveElement
<1>6. Cardinality(ValidSlots(q)) \in 0 .. RingSize
  BY ValidSlotsFinite
<1>7. q \in Ring /\ q.fresh = Cardinality(ValidSlots(q))
  BY <1>1, <1>3, <1>5, <1>6 DEF PopFrozen, Ring, Slots
<1> QED
  BY <1>1, <1>3, <1>7 DEF RingOK, PopFrozen, Ring

(* Writing a slot keeps every written slot inside the learnt EVs.          *)
LEMMA AddHolds ==
  ASSUME NEW r, RingOK(r), NEW S, Holds(r, S), NEW ev \in Ev
  PROVE  Holds(Add(r, ev), S \cup {ev})
<1>1. r \in Ring /\ r.head \in Slots /\ RingSize \in Nat \ {0}
  BY RingAssumption DEF RingOK, Ring
<1> SUFFICES ASSUME NEW i \in Slots, Written(Add(r, ev), i)
             PROVE  Add(r, ev).value[i] \in S \cup {ev}
  BY DEF Holds
<1>2. CASE i = r.head
  BY <1>1, <1>2 DEF Add, Ring
<1>3. CASE i # r.head
  <2>1. i < r.count
    BY <1>1, <1>3 DEF Written, Add, AtMost, Ring, RingOK, Slots
  <2> QED
    BY <1>1, <1>3, <2>1 DEF Holds, Written, Add, Ring
<1> QED
  BY <1>2, <1>3

-----------------------------------------------------------------------------
(* The initial state satisfies the invariant.                              *)
LEMMA InitOK == Init => IInv
<1> SUFFICES ASSUME Init PROVE IInv
  OBVIOUS
<1>1. RingOK(ring) /\ Contiguous(ring)
  BY EmptyRingOK DEF Init
<1>2. TypeOK
  <2>1. ring \in Ring
    BY <1>1 DEF RingOK
  <2>2. 0 \in Ev /\ 0 \in 0 .. Burst
    BY BufferAssumption, RingAssumption DEF Ev
  <2>3. evEcn \in [Ev -> BOOLEAN] /\ last \in [src : Source, ev : Ev]
    BY <2>2 DEF Init, Source
  <2>4. /\ frozen \in BOOLEAN /\ exitDue \in BOOLEAN
        /\ explore \in 0 .. Burst /\ cursor \in Ev
        /\ sent \subseteq Ev /\ learnt \subseteq Ev
    BY <2>2 DEF Init
  <2> QED
    BY <2>1, <2>3, <2>4 DEF TypeOK
<1>3. Holds(ring, learnt)
  BY DEF Init, Holds, Written, EmptyRing, Slots
<1> QED
  BY <1>1, <1>2, <1>3 DEF Init, IInv, NeverFrozenExploring

(* Every draw preserves it.                                                *)
LEMMA DrawKeeps == IInv /\ Draw => IInv'
<1> SUFFICES ASSUME IInv, Draw PROVE IInv'
  OBVIOUS
<1>1. TypeOK /\ RingOK(ring) /\ NeverFrozenExploring /\ Holds(ring, learnt)
      /\ (~frozen => Contiguous(ring))
  BY DEF IInv
<1>2. CASE \E ev \in Ev : DrawExplore(ev)
  BY <1>1, <1>2, BufferAssumption
     DEF DrawExplore, Drawn, IInv, TypeOK, NeverFrozenExploring, Source
<1>3. CASE \E ev \in Ev : DrawRandom(ev)
  BY <1>1, <1>3 DEF DrawRandom, Drawn, IInv, TypeOK, NeverFrozenExploring, Source
<1>4. CASE \E ev \in Ev : DrawReplay(ev)
  <2>1. \A ev \in Ev : (ev + 1) % Paths \in Ev
    BY RingAssumption, NextSlot DEF Ev
  <2> QED
    BY <1>1, <1>4, <2>1 DEF DrawReplay, Drawn, IInv, TypeOK, NeverFrozenExploring, Source
<1>5. CASE DrawFrozen
  <2>1. ring' = PopFrozen(ring) /\ frozen /\ ~IsEmpty(ring)
    BY <1>5 DEF DrawFrozen
  <2>2. RingOK(ring')
    BY <1>1, <2>1, PopFrozenOK
  <2>3. FrozenValue(ring) \in Ev
    BY <1>1 DEF TypeOK, Ring, FrozenValue
  <2>4. TypeOK'
    BY <1>1, <1>5, <2>2, <2>3 DEF DrawFrozen, Drawn, TypeOK, Source, RingOK
  <2>5. Holds(ring', learnt')
    BY <1>1, <1>5, <2>1 DEF DrawFrozen, Drawn, Holds, Written, PopFrozen
  <2> QED
    BY <1>1, <1>5, <2>2, <2>4, <2>5 DEF DrawFrozen, Drawn, IInv, NeverFrozenExploring
<1>6. CASE DrawFresh
  <2>1. ring' = PopFresh(ring) /\ ~frozen /\ HasFresh(ring)
    BY <1>6 DEF DrawFresh
  <2>2. RingOK(ring') /\ Contiguous(ring')
    BY <1>1, <2>1, PopFreshOK
  <2>3. FreshValue(ring) \in Ev
    BY <1>1, <2>1, FreshSlotValid DEF TypeOK, Ring, FreshValue
  <2>4. TypeOK'
    BY <1>1, <1>6, <2>2, <2>3 DEF DrawFresh, Drawn, TypeOK, Source, RingOK
  <2>5. Holds(ring', learnt')
    BY <1>1, <1>6, <2>1 DEF DrawFresh, Drawn, Holds, Written, PopFresh
  <2> QED
    BY <1>1, <1>6, <2>2, <2>4, <2>5 DEF DrawFresh, Drawn, IInv, NeverFrozenExploring
<1> QED
  BY <1>2, <1>3, <1>4, <1>5, <1>6 DEF Draw

(* Feedback preserves it, whether or not it ends a freeze.                 *)
LEMMA FeedbackKeeps ==
  ASSUME IInv, NEW ev \in Ev, NEW fb \in {"GOOD", "ECN", "NACK"}, Feedback(ev, fb)
  PROVE  IInv'
<1> DEFINE base == IF Thaws THEN Reset(ring) ELSE ring
           kept == IF Thaws THEN {} ELSE learnt
<1>1. TypeOK /\ RingOK(ring) /\ NeverFrozenExploring /\ Holds(ring, learnt)
      /\ (~frozen => Contiguous(ring))
  BY DEF IInv
<1>2. /\ ring'    = (IF fb = "GOOD" THEN Add(base, ev) ELSE base)
      /\ learnt'  = (IF fb = "GOOD" THEN kept \cup {ev} ELSE kept)
      /\ frozen'  = (frozen /\ ~Thaws)
      /\ exitDue' = (exitDue /\ ~Thaws)
      /\ explore' = (IF Thaws THEN Burst ELSE explore)
      /\ evEcn'   = (IF fb = "NACK" THEN evEcn ELSE [evEcn EXCEPT ![ev] = (fb = "ECN")])
      /\ UNCHANGED <<cursor, last, sent>>
  BY DEF Feedback
<1>3. RingOK(base) /\ (~frozen' => Contiguous(base)) /\ Holds(base, kept)
  <2>1. CASE Thaws
    <3>1. base = EmptyRing
      BY <2>1 DEF Reset
    <3> QED
      BY <3>1, EmptyRingOK DEF Holds, Written, EmptyRing, Slots
  <2>2. CASE ~Thaws
    BY <1>1, <1>2, <2>2
  <2> QED
    BY <2>1, <2>2
<1> HIDE DEF base, kept
<1>4. RingOK(ring') /\ (~frozen' => Contiguous(ring')) /\ Holds(ring', learnt')
  <2>1. CASE fb = "GOOD"
    BY <1>2, <1>3, <2>1, AddOK, AddContiguous, AddHolds
  <2>2. CASE fb # "GOOD"
    BY <1>2, <1>3, <2>2
  <2> QED
    BY <2>1, <2>2
<1>5. learnt' \subseteq Ev
  BY <1>1, <1>2 DEF TypeOK, kept
<1>6. TypeOK'
  BY <1>1, <1>2, <1>4, <1>5, BufferAssumption DEF TypeOK, RingOK
<1>7. NeverFrozenExploring'
  BY <1>1, <1>2 DEF NeverFrozenExploring, Thaws
<1> QED
  BY <1>4, <1>6, <1>7 DEF IInv

(* A timeout preserves it: it freezes only a source that is not exploring. *)
LEMMA TimeoutKeeps ==
  ASSUME IInv, NEW lowRtt \in BOOLEAN, Timeout(lowRtt)
  PROVE  IInv'
<1>1. TypeOK /\ RingOK(ring) /\ Holds(ring, learnt) /\ (~frozen => Contiguous(ring))
  BY DEF IInv
<1>2. /\ ~frozen /\ explore = 0 /\ frozen' = UseFreezing /\ exitDue' = FALSE
      /\ UNCHANGED <<ring, explore, cursor, evEcn, last, sent, learnt>>
  BY DEF Timeout
<1>3. frozen' \in BOOLEAN /\ exitDue' \in BOOLEAN
  BY <1>2, BufferAssumption
<1>4. TypeOK'
  BY <1>1, <1>2, <1>3 DEF TypeOK
<1>5. RingOK(ring') /\ Holds(ring', learnt') /\ Contiguous(ring')
  BY <1>1, <1>2
<1>6. NeverFrozenExploring'
  BY <1>2 DEF NeverFrozenExploring
<1> QED
  BY <1>4, <1>5, <1>6 DEF IInv

(* The invariant holds in every reachable state.                           *)
THEOREM BufferInvariant == Spec => []IInv
<1>1. IInv /\ [Next]_vars => IInv'
  <2> SUFFICES ASSUME IInv, [Next]_vars PROVE IInv'
    OBVIOUS
  <2>1. CASE SomeFeedback
    BY <2>1, FeedbackKeeps DEF SomeFeedback
  <2>2. CASE \E lowRtt \in BOOLEAN : Timeout(lowRtt)
    BY <2>2, TimeoutKeeps
  <2>3. CASE DeadlinePasses
    BY <2>3 DEF DeadlinePasses, IInv, TypeOK, NeverFrozenExploring
  <2>4. CASE UNCHANGED vars
    BY <2>4 DEF vars, IInv, TypeOK, NeverFrozenExploring
  <2> QED
    BY <2>1, <2>2, <2>3, <2>4, DrawKeeps DEF Next
<1> QED
  BY <1>1, InitOK, PTL DEF Spec

(* The variables always have their types.                                  *)
THEOREM TypeCorrect == Spec => []TypeOK
  BY BufferInvariant, PTL DEF IInv

(* number_fresh_entropies equals the number of valid slots.                *)
THEOREM FreshCountCorrect == Spec => []FreshCountExact
<1>1. IInv => FreshCountExact
  BY DEF IInv, RingOK, FreshCountExact
<1> QED
  BY <1>1, BufferInvariant, PTL

(* Outside frozen mode the valid slots are the fresh ones behind head, so  *)
(* remove_earliest_fresh() never returns a used or unwritten slot.         *)
THEOREM FreshBehindHeadCorrect == Spec => []FreshBehindHead
<1>1. IInv => FreshBehindHead
  BY DEF IInv, Contiguous, FreshBehindHead
<1> QED
  BY <1>1, BufferInvariant, PTL

(* A frozen source reads written slots only.                               *)
THEOREM FrozenHeadCorrect == Spec => []FrozenHeadWritten
<1>1. IInv => FrozenHeadWritten
  BY DEF IInv, RingOK, Ring, FrozenHeadWritten, Written
<1> QED
  BY <1>1, BufferInvariant, PTL

(* No EV learnt before a thaw is recycled after it.                        *)
THEOREM WrittenSlotsCorrect == Spec => []WrittenSlotsLearnt
<1>1. IInv => WrittenSlotsLearnt
  BY DEF IInv, Holds, WrittenSlotsLearnt
<1> QED
  BY <1>1, BufferInvariant, PTL

(* A source never is frozen and exploring at once.                         *)
THEOREM NeverFrozenExploringCorrect == Spec => []NeverFrozenExploring
  BY BufferInvariant, PTL DEF IInv

(* The books of the ring are kept, for every ring size, number of paths    *)
(* and burst.                                                              *)
THEOREM RingSoundHolds == Spec => []RingSound
  BY TypeCorrect, FreshCountCorrect, FreshBehindHeadCorrect, FrozenHeadCorrect,
     WrittenSlotsCorrect, NeverFrozenExploringCorrect, PTL DEF RingSound

(* A draw always belongs to the window its read-only prediction named.     *)
THEOREM PredictorCorrect == Spec => PredictorMatchesDraw
<1>1. IInv /\ Draw => TagOf(last'.src) = PredictedTag
  <2> SUFFICES ASSUME IInv, Draw PROVE TagOf(last'.src) = PredictedTag
    OBVIOUS
  <2>1. explore \in Nat /\ NeverFrozenExploring
    BY DEF IInv, TypeOK
  <2>2. CASE \E ev \in Ev : DrawExplore(ev)
    BY <2>1, <2>2 DEF DrawExplore, Drawn, TagOf, PredictedTag
  <2>3. CASE \E ev \in Ev : DrawRandom(ev)
    BY <2>1, <2>3 DEF DrawRandom, MustGuess, Drawn, TagOf, PredictedTag
  <2>4. CASE \E ev \in Ev : DrawReplay(ev)
    BY <2>1, <2>4 DEF DrawReplay, MustGuess, Drawn, TagOf, PredictedTag
  <2>5. CASE DrawFrozen
    BY <2>1, <2>5 DEF DrawFrozen, Drawn, TagOf, PredictedTag
  <2>6. CASE DrawFresh
    BY <2>1, <2>6 DEF DrawFresh, Drawn, TagOf, PredictedTag
  <2> QED
    BY <2>2, <2>3, <2>4, <2>5, <2>6 DEF Draw
<1>2. IInv /\ [Next]_vars => [Draw => TagOf(last'.src) = PredictedTag]_vars
  BY <1>1 DEF vars
<1> QED
  BY <1>2, BufferInvariant, PTL DEF Spec, PredictorMatchesDraw

(* The size of an interval of slots.                                       *)
LEMMA SlotsBelow ==
  ASSUME NEW n \in Nat
  PROVE  IsFiniteSet(0 .. n - 1) /\ Cardinality(0 .. n - 1) = n
  BY FS_Interval

(* number_fresh_entropies never exceeds the slots written.                 *)
LEMMA FreshWritten ==
  ASSUME NEW r, RingOK(r)
  PROVE  r.fresh \in 0 .. RingSize /\ r.fresh <= r.count
<1>1. r.fresh = Cardinality(ValidSlots(r)) /\ r.count \in Nat /\ r.fresh \in 0 .. RingSize
  BY DEF RingOK, Ring
<1>2. ValidSlots(r) \subseteq 0 .. r.count - 1
  BY <1>1 DEF RingOK, ValidSlots, Slots
<1>3. IsFiniteSet(0 .. r.count - 1) /\ Cardinality(0 .. r.count - 1) = r.count
  BY <1>1, SlotsBelow
<1>4. Cardinality(ValidSlots(r)) <= Cardinality(0 .. r.count - 1)
  BY <1>2, <1>3, FS_Subset
<1> QED
  BY <1>1, <1>3, <1>4

(* One more fresh EV, up to the size of the ring.                          *)
LEMMA AddFresh ==
  ASSUME NEW r, RingOK(r), Contiguous(r), NEW ev
  PROVE  Add(r, ev).fresh = AtMost(r.fresh + 1, RingSize)
<1>1. r.head \in Slots /\ r.fresh \in 0 .. RingSize /\ RingSize \in Nat \ {0}
  BY RingAssumption DEF RingOK, Ring
<1>2. r.valid[r.head] <=> RingSize - 1 < r.fresh
  BY <1>1 DEF Contiguous, Back, Slots
<1> QED
  BY <1>1, <1>2 DEF Add, AtMost

-----------------------------------------------------------------------------
(* The ring as queues.  Slot Ago(r, j) was written j additions ago, and    *)
(* Behind(r, n) is what the last n additions left, oldest first.           *)
Ago(r, j) == (r.head + RingSize - j) % RingSize
Behind(r, n) == [i \in 1 .. n |-> r.value[Ago(r, n - i + 1)]]

(* One turn around the ring.                                               *)
LEMMA Wrap ==
  ASSUME NEW n \in Nat \ {0}, NEW x \in 0 .. 2 * n - 1
  PROVE  x % n = IF x < n THEN x ELSE x - n
<1>1. CASE x < n
  BY <1>1
<1>2. CASE x >= n
  <2>1. x - n \in 0 .. n - 1 /\ x = (x - n) + n
    BY <1>2
  <2> QED
    BY <1>2, <2>1
<1> QED
  BY <1>1, <1>2

(* Ago() counted out.                                                      *)
LEMMA AgoIs ==
  ASSUME NEW r, r.head \in Slots, NEW j \in 1 .. RingSize
  PROVE  /\ Ago(r, j) = IF j <= r.head THEN r.head - j ELSE r.head + RingSize - j
         /\ Ago(r, j) \in Slots
<1> DEFINE n == RingSize
           h == r.head
           x == h + n - j
<1>1. n \in Nat \ {0} /\ h \in 0 .. n - 1 /\ j \in 1 .. n /\ Slots = 0 .. n - 1
  BY RingAssumption DEF Slots
<1>2. Ago(r, j) = x % n
  BY DEF Ago
<1> SUFFICES /\ Ago(r, j) = IF j <= h THEN h - j ELSE h + n - j
             /\ Ago(r, j) \in Slots
  OBVIOUS
<1> HIDE DEF n, h
<1>3. x \in 0 .. 2 * n - 1
  BY <1>1
<1>4. x % n = IF x < n THEN x ELSE x - n
  <2> HIDE DEF x
  <2> QED
    BY <1>1, <1>3, Wrap
<1> QED
  BY <1>1, <1>2, <1>4

(* An addition makes every slot one addition older.                        *)
LEMMA AgoAdd ==
  ASSUME NEW r, r.head \in Slots, NEW ev, NEW j \in 1 .. RingSize
  PROVE  /\ Ago(Add(r, ev), j) = IF j = 1 THEN r.head ELSE Ago(r, j - 1)
         /\ j < RingSize => Ago(r, j) # r.head
<1> DEFINE q == Add(r, ev)
<1>1. RingSize \in Nat \ {0} /\ r.head \in 0 .. RingSize - 1 /\ Slots = 0 .. RingSize - 1
  BY RingAssumption DEF Slots
<1>2. q.head = IF r.head + 1 = RingSize THEN 0 ELSE r.head + 1
  BY <1>1, NextSlot DEF Add
<1>3. q.head \in Slots
  BY <1>1, <1>2
<1> HIDE DEF q
<1>4. Ago(q, j) = IF j <= q.head THEN q.head - j ELSE q.head + RingSize - j
  BY <1>3, AgoIs
<1>5. Ago(r, j) = IF j <= r.head THEN r.head - j ELSE r.head + RingSize - j
  BY AgoIs
<1>6. ASSUME j # 1
      PROVE  Ago(r, j - 1) = IF j - 1 <= r.head THEN r.head - (j - 1)
                             ELSE r.head + RingSize - (j - 1)
  <2>1. j - 1 \in 1 .. RingSize
    BY <1>1, <1>6
  <2> QED
    BY <2>1, AgoIs
<1>7. Ago(q, j) = IF j = 1 THEN r.head ELSE Ago(r, j - 1)
  BY <1>1, <1>2, <1>4, <1>6
<1>8. j < RingSize => Ago(r, j) # r.head
  BY <1>1, <1>5
<1> QED
  BY <1>7, <1>8 DEF q

(* A function on 1 .. n is a sequence of length n.                         *)
LEMMA SeqOn ==
  ASSUME NEW S, NEW n \in Nat, NEW f \in [1 .. n -> S]
  PROVE  f \in Seq(S) /\ Len(f) = n
BY SeqDef

(* The queues are sequences of EVs.                                        *)
LEMMA BehindSeq ==
  ASSUME NEW r \in Ring, NEW n \in 0 .. RingSize
  PROVE  /\ Behind(r, n) \in Seq(Ev) /\ Len(Behind(r, n)) = n
         /\ \A i \in 1 .. n : Behind(r, n)[i] = r.value[Ago(r, n - i + 1)]
<1>1. r.head \in Slots /\ r.value \in [Slots -> Ev] /\ RingSize \in Nat
  BY RingAssumption DEF Ring
<1>2. ASSUME NEW i \in 1 .. n PROVE r.value[Ago(r, n - i + 1)] \in Ev
  <2>1. n - i + 1 \in 1 .. RingSize
    BY <1>1
  <2> QED
    BY <1>1, <2>1, AgoIs
<1>3. Behind(r, n) \in [1 .. n -> Ev]
  BY <1>2 DEF Behind
<1>4. n \in Nat
  BY <1>1
<1> QED
  BY <1>3, <1>4, SeqOn DEF Behind

(* An empty queue.                                                         *)
LEMMA BehindNone ==
  ASSUME NEW r \in Ring
  PROVE  Behind(r, 0) = << >>
<1>1. 0 \in 0 .. RingSize
  BY RingAssumption
<1>2. Behind(r, 0) \in Seq(Ev) /\ Len(Behind(r, 0)) = 0
  BY <1>1, BehindSeq
<1> QED
  BY <1>2, EmptySeq

(* An addition appends to a queue, which keeps the latest RingSize.        *)
LEMMA BehindAdd ==
  ASSUME NEW r \in Ring, RingOK(r), NEW ev \in Ev, NEW n \in 0 .. RingSize
  PROVE  Behind(Add(r, ev), AtMost(n + 1, RingSize))
           = Recycler!Latest(Append(Behind(r, n), ev))
<1> DEFINE q == Add(r, ev)
           m == AtMost(n + 1, RingSize)
           s == Behind(r, n)
           a == Append(s, ev)
           t == Recycler!Latest(a)
<1>1. RingSize \in Nat \ {0} /\ r.head \in Slots /\ r.value \in [Slots -> Ev] /\ q \in Ring
  BY RingAssumption, AddOK DEF Ring, RingOK
<1>2. m \in 1 .. RingSize /\ m <= n + 1 /\ (m # n + 1 => n = RingSize /\ m = RingSize)
  BY <1>1 DEF AtMost
<1>3. s \in Seq(Ev) /\ Len(s) = n /\ \A i \in 1 .. n : s[i] = r.value[Ago(r, n - i + 1)]
  BY BehindSeq
<1>4. q.value = [r.value EXCEPT ![r.head] = ev]
  BY DEF Add
<1>5. /\ a \in Seq(Ev) /\ Len(a) = n + 1 /\ a[n + 1] = ev
      /\ \A i \in 1 .. n : a[i] = s[i]
  <2> HIDE DEF s
  <2> QED
    BY <1>3, AppendProperties
<1> HIDE DEF s, a
<1>6. t \in Seq(Ev) /\ Len(t) = m /\ \A i \in 1 .. m : t[i] = a[i + (n + 1 - m)]
  <2>1. CASE n + 1 <= RingSize
    <3>1. t = a /\ m = n + 1
      BY <1>1, <1>5, <2>1 DEF Recycler!Latest, AtMost
    <3> QED
      BY <1>5, <3>1
  <2>2. CASE n + 1 > RingSize
    <3>1. n = RingSize /\ m = RingSize
      BY <1>1, <2>2 DEF AtMost
    <3>2. t = SubSeq(a, 2, n + 1)
      <4>1. t = SubSeq(a, Len(a) - RingSize + 1, Len(a))
        BY <1>1, <1>5, <2>2 DEF Recycler!Latest
      <4>2. Len(a) - RingSize + 1 = 2
        BY <1>1, <1>5, <3>1
      <4> QED
        BY <1>5, <4>1, <4>2
    <3>3. \A i \in 2 .. n + 1 : a[i] \in Ev
      BY <1>5, ElementOfSeq
    <3>4. /\ t \in Seq(Ev) /\ Len(t) = n
          /\ \A i \in 1 .. n : t[i] = a[i + 1]
      <4>1. 2 \in Int /\ n + 1 \in Int /\ 2 <= n + 1 /\ (n + 1) - 2 + 1 = n
        BY <1>1, <3>1
      <4>2. /\ SubSeq(a, 2, n + 1) \in Seq(Ev)
            /\ Len(SubSeq(a, 2, n + 1)) = IF 2 <= n + 1 THEN (n + 1) - 2 + 1 ELSE 0
            /\ \A i \in 1 .. (n + 1) - 2 + 1 : SubSeq(a, 2, n + 1)[i] = a[2 + i - 1]
        BY <3>3, <4>1, SubSeqProperties
      <4>3. \A i \in 1 .. n : 2 + i - 1 = i + 1
        OBVIOUS
      <4> QED
        BY <3>2, <4>1, <4>2, <4>3
    <3> QED
      BY <1>1, <3>1, <3>4
  <2> QED
    BY <1>1, <2>1, <2>2
<1> HIDE DEF t, m, q
<1>7. /\ Behind(q, m) \in Seq(Ev) /\ Len(Behind(q, m)) = m
      /\ \A i \in 1 .. m : Behind(q, m)[i] = q.value[Ago(q, m - i + 1)]
  <2>1. m \in 0 .. RingSize
    BY <1>1, <1>2
  <2> QED
    BY <1>1, <2>1, BehindSeq
<1>8. ASSUME NEW i \in 1 .. m PROVE Behind(q, m)[i] = t[i]
  <2>1. Behind(q, m)[i] = q.value[Ago(q, m - i + 1)] /\ t[i] = a[i + (n + 1 - m)]
    BY <1>6, <1>7
  <2>2. m - i + 1 \in 1 .. RingSize
    BY <1>1, <1>2
  <2>3. Ago(q, m - i + 1) = IF m - i + 1 = 1 THEN r.head ELSE Ago(r, (m - i + 1) - 1)
    BY <1>1, <2>2, AgoAdd DEF q
  <2>4. CASE i = m
    <3>1. Ago(q, m - i + 1) = r.head /\ i + (n + 1 - m) = n + 1
      BY <1>1, <1>2, <2>3, <2>4
    <3> QED
      BY <1>1, <1>4, <1>5, <2>1, <3>1
  <2>5. CASE i # m
    <3>1. m - i \in 1 .. RingSize /\ m - i < RingSize
      BY <1>1, <1>2, <2>5
    <3>2. Ago(q, m - i + 1) = Ago(r, m - i)
      <4>1. m - i + 1 # 1 /\ (m - i + 1) - 1 = m - i
        BY <1>2, <2>5
      <4> QED
        BY <2>3, <4>1
    <3>3. Ago(r, m - i) # r.head /\ Ago(r, m - i) \in Slots
      BY <1>1, <3>1, AgoAdd, AgoIs
    <3>4. q.value[Ago(q, m - i + 1)] = r.value[Ago(r, m - i)]
      BY <1>1, <1>4, <3>2, <3>3
    <3>5. i + (n + 1 - m) \in 1 .. n /\ n - (i + (n + 1 - m)) + 1 = m - i
      BY <1>1, <1>2, <2>5
    <3>6. a[i + (n + 1 - m)] = r.value[Ago(r, m - i)]
      <4>1. a[i + (n + 1 - m)] = s[i + (n + 1 - m)]
        BY <1>5, <3>5
      <4>2. s[i + (n + 1 - m)] = r.value[Ago(r, n - (i + (n + 1 - m)) + 1)]
        BY <1>3, <3>5
      <4> QED
        BY <3>5, <4>1, <4>2
    <3> QED
      BY <2>1, <3>4, <3>6
  <2> QED
    BY <2>4, <2>5
<1> QED
  BY <1>6, <1>7, <1>8, SeqEqual DEF q, m, t, a, s

(* A pop of the oldest fresh EV takes the head of the queue.               *)
LEMMA BehindPop ==
  ASSUME NEW r \in Ring, r.fresh # 0
  PROVE  /\ Behind(r, r.fresh) # << >>
         /\ Head(Behind(r, r.fresh)) = FreshValue(r)
         /\ Tail(Behind(r, r.fresh)) = Behind(PopFresh(r), PopFresh(r).fresh)
<1> DEFINE n == r.fresh
           s == Behind(r, n)
           q == PopFresh(r)
<1>1. /\ RingSize \in Nat \ {0} /\ r.head \in Slots /\ r.value \in [Slots -> Ev]
      /\ n \in 1 .. RingSize /\ r.valid \in [Slots -> BOOLEAN]
  BY RingAssumption DEF Ring
<1>2. q.value = r.value /\ q.head = r.head /\ q.fresh = n - 1
  BY DEF PopFresh
<1>3. q \in Ring
  <2>1. r.fresh - 1 \in 0 .. RingSize
    BY <1>1
  <2>2. [r.valid EXCEPT ![FreshSlot(r)] = FALSE] \in [Slots -> BOOLEAN]
    BY <1>1
  <2> QED
    BY <1>1, <2>1, <2>2 DEF PopFresh, Ring
<1> SUFFICES s # << >> /\ Head(s) = FreshValue(r) /\ Tail(s) = Behind(q, n - 1)
  BY <1>2
<1>4. s \in Seq(Ev) /\ Len(s) = n /\ \A i \in 1 .. n : s[i] = r.value[Ago(r, n - i + 1)]
  <2>1. n \in 0 .. RingSize
    BY <1>1
  <2> HIDE DEF n
  <2> QED
    BY <2>1, BehindSeq
<1>5. /\ Behind(q, n - 1) \in Seq(Ev) /\ Len(Behind(q, n - 1)) = n - 1
      /\ \A i \in 1 .. n - 1 : Behind(q, n - 1)[i] = r.value[Ago(r, n - i)]
  <2>1. n - 1 \in 0 .. RingSize
    BY <1>1
  <2>2. \A i \in 1 .. n - 1 : Ago(q, (n - 1) - i + 1) = Ago(r, n - i)
    <3>1. \A i \in 1 .. n - 1 : (n - 1) - i + 1 = n - i
      BY <1>1
    <3> QED
      BY <1>2, <3>1 DEF Ago
  <2>3. /\ Behind(q, n - 1) \in Seq(Ev) /\ Len(Behind(q, n - 1)) = n - 1
        /\ \A i \in 1 .. n - 1 : Behind(q, n - 1)[i] = q.value[Ago(q, (n - 1) - i + 1)]
    BY <1>3, <2>1, BehindSeq
  <2> QED
    BY <1>2, <2>2, <2>3
<1>6. FreshValue(r) = r.value[Ago(r, n)]
  <2>1. Ago(r, n) = IF n <= r.head THEN r.head - n ELSE r.head + RingSize - n
    BY <1>1, AgoIs
  <2>2. r.head \in 0 .. RingSize - 1
    BY <1>1 DEF Slots
  <2> QED
    BY <1>1, <2>1, <2>2 DEF FreshValue, FreshSlot
<1> HIDE DEF s, n, q
<1>7. s # << >>
  BY <1>1, <1>4
<1>8. Head(s) = s[1] /\ s[1] = r.value[Ago(r, n)]
  <2>1. 1 \in 1 .. n /\ n - 1 + 1 = n
    BY <1>1
  <2> QED
    BY <1>4, <2>1
<1>9. Tail(s) \in Seq(Ev) /\ Len(Tail(s)) = n - 1 /\ \A i \in 1 .. n - 1 : Tail(s)[i] = s[i + 1]
  BY <1>4, <1>7, HeadTailProperties
<1>10. \A i \in 1 .. n - 1 : Tail(s)[i] = Behind(q, n - 1)[i]
  <2>1. \A i \in 1 .. n - 1 : i + 1 \in 1 .. n /\ n - (i + 1) + 1 = n - i
    BY <1>1
  <2> QED
    BY <1>4, <1>5, <1>9, <2>1
<1> QED
  BY <1>5, <1>6, <1>7, <1>8, <1>9, <1>10, SeqEqual

(* A written slot is somewhere in the queue of all written ones.           *)
LEMMA BehindAll ==
  ASSUME NEW r, RingOK(r), NEW x \in Slots, x < r.count
  PROVE  \E i \in 1 .. r.count : Behind(r, r.count)[i] = r.value[x]
<1> DEFINE n == r.count
           j == IF x < r.head THEN r.head - x ELSE r.head + RingSize - x
<1>1. /\ RingSize \in Nat \ {0} /\ r.head \in 0 .. RingSize - 1 /\ x \in 0 .. RingSize - 1
      /\ n \in 1 .. RingSize /\ (n < RingSize => r.head = n) /\ r.head \in Slots /\ r \in Ring
  BY RingAssumption DEF RingOK, Ring, Slots
<1>2. j \in 1 .. n /\ x < n
  BY <1>1
<1>3. Ago(r, j) = x
  <2>1. j \in 1 .. RingSize
    BY <1>1, <1>2
  <2>2. Ago(r, j) = IF j <= r.head THEN r.head - j ELSE r.head + RingSize - j
    <3> HIDE DEF j
    <3> QED
      BY <1>1, <2>1, AgoIs
  <2> QED
    BY <1>1, <2>2
<1> HIDE DEF j
<1>4. n - j + 1 \in 1 .. n /\ n - (n - j + 1) + 1 = j
  BY <1>1, <1>2
<1>5. Behind(r, n)[n - j + 1] = r.value[Ago(r, n - (n - j + 1) + 1)]
  BY <1>4 DEF Behind
<1> QED
  BY <1>3, <1>4, <1>5

(* known is the queue of all written slots, in either state of a step.     *)
LEMMA KnownIs ==
  ASSUME NEW r \in Ring
  PROVE  [i \in 1 .. r.count |->
            r.value[(r.head + RingSize - r.count + i - 1) % RingSize]] = Behind(r, r.count)
<1>1. r.head \in Int /\ RingSize \in Int /\ r.count \in Int
  BY RingAssumption DEF Ring, Slots
<1>2. ASSUME NEW i \in 1 .. r.count
      PROVE  r.head + RingSize - r.count + i - 1 = r.head + RingSize - (r.count - i + 1)
  BY <1>1
<1> QED
  BY <1>2 DEF Behind, Ago

(* fresh is the queue of the fresh slots behind head.                      *)
LEMMA FreshIs ==
  ASSUME NEW r \in Ring
  PROVE  [i \in 1 .. r.fresh |-> r.value[(FreshSlot(r) + i - 1) % RingSize]]
           = Behind(r, r.fresh)
<1> DEFINE n == RingSize
           f == r.fresh
           h == r.head
<1>1. n \in Nat \ {0} /\ h \in 0 .. n - 1 /\ f \in 0 .. n /\ h \in Slots
  BY RingAssumption DEF Ring, Slots
<1>2. FreshSlot(r) = IF h - f < 0 THEN h + n - f ELSE h - f
  BY DEF FreshSlot
<1> HIDE DEF n, f, h
<1>3. ASSUME NEW i \in 1 .. f
      PROVE  (FreshSlot(r) + i - 1) % n = Ago(r, f - i + 1)
  <2> DEFINE x == FreshSlot(r) + i - 1
             j == f - i + 1
  <2>1. x \in 0 .. 2 * n - 1 /\ j \in 1 .. n
    BY <1>1, <1>2
  <2>2. Ago(r, j) = IF j <= h THEN h - j ELSE h + n - j
    <3> HIDE DEF j
    <3> QED
      BY <1>1, <2>1, AgoIs DEF h, n
  <2>3. x % n = IF x < n THEN x ELSE x - n
    <3> HIDE DEF x
    <3> QED
      BY <1>1, <2>1, Wrap
  <2>4. (IF x < n THEN x ELSE x - n) = IF j <= h THEN h - j ELSE h + n - j
    BY <1>1, <1>2
  <2> QED
    BY <2>2, <2>3, <2>4
<1> QED
  BY <1>3 DEF Behind, n, f

(* The queues of a correct ring, and an empty one.                         *)
LEMMA QueuesAre ==
  ASSUME NEW r, RingOK(r)
  PROVE  /\ r \in Ring /\ r.fresh \in 0 .. RingSize /\ r.count \in 0 .. RingSize
         /\ DOMAIN Behind(r, r.count) = 1 .. r.count
         /\ IsEmpty(r) => Behind(r, r.count) = << >>
         /\ ~HasFresh(r) => Behind(r, r.fresh) = << >>
<1>1. r \in Ring /\ r.fresh \in 0 .. RingSize /\ r.count \in 0 .. RingSize
  BY DEF RingOK, Ring
<1>2. IsEmpty(r) => Behind(r, r.count) = << >>
  BY <1>1, BehindNone DEF IsEmpty
<1>3. ~HasFresh(r) => r.fresh = 0
  BY <1>1, FreshWritten DEF HasFresh
<1>4. ~HasFresh(r) => Behind(r, r.fresh) = << >>
  BY <1>1, <1>3, BehindNone
<1> QED
  BY <1>1, <1>2, <1>4 DEF Behind

(* What the recycler sees of the source before and after a step.           *)
LEMMA Seen ==
  ASSUME IInv, IInv'
  PROVE  /\ KnownSeq = Behind(ring, ring.count) /\ KnownSeq' = Behind(ring', ring'.count)
         /\ FreshSeq = IF frozen THEN << >> ELSE Behind(ring, ring.fresh)
         /\ FreshSeq' = IF frozen' THEN << >> ELSE Behind(ring', ring'.fresh)
<1>1. ring \in Ring /\ ring' \in Ring
  BY DEF IInv, TypeOK
<1>2. KnownSeq = Behind(ring, ring.count) /\ KnownSeq' = Behind(ring', ring'.count)
  BY <1>1, KnownIs DEF KnownSeq
<1>3. /\ FreshSeq = IF frozen THEN << >> ELSE Behind(ring, ring.fresh)
      /\ FreshSeq' = IF frozen' THEN << >> ELSE Behind(ring', ring'.fresh)
  BY <1>1, FreshIs DEF FreshSeq
<1> QED
  BY <1>2, <1>3

(* A step that leaves ring, freeze, burst and last draw is a stutter.      *)
LEMMA Stutters ==
  ASSUME ring' = ring, frozen' = frozen, explore' = explore, last' = last
  PROVE  UNCHANGED Recycler!vars
BY DEF Recycler!vars, KnownSeq, FreshSeq, DrawnKind

(* A draw is a guess, a recycled EV or one reused while frozen.            *)
LEMMA DrawRefines ==
  ASSUME IInv, IInv', Draw
  PROVE  Recycler!Next
<1>1. /\ RingOK(ring) /\ (~frozen => Contiguous(ring)) /\ ring \in Ring
      /\ explore \in Nat /\ last' \in [src : Source, ev : Ev]
  BY BufferAssumption DEF IInv, TypeOK
<1>2. frozen' = frozen
  BY DEF Draw, DrawExplore, DrawRandom, DrawReplay, DrawFrozen, DrawFresh, Drawn
<1> DEFINE Counts == IF explore > 0 THEN explore' = explore - 1
                     ELSE MustGuess /\ explore' = explore
<1>3. ASSUME NEW ev \in Ev, ring' = ring, last'.src \in {"EXPLORE", "RANDOM", "REPLAY"},
             last'.ev = ev, Counts
      PROVE  Recycler!Next
  <2>1. KnownSeq' = KnownSeq /\ FreshSeq' = FreshSeq
    BY <1>2, <1>3 DEF KnownSeq, FreshSeq
  <2>2. DrawnKind' = [kind |-> "GUESS", ev |-> ev]
    BY <1>3 DEF DrawnKind
  <2>3. MustGuess => explore = 0 /\ IF frozen THEN KnownSeq = << >> ELSE FreshSeq = << >>
    BY <1>1, Seen, QueuesAre DEF MustGuess
  <2>4. IF explore > 0 THEN explore' = explore - 1
        ELSE /\ IF frozen THEN KnownSeq = << >> ELSE FreshSeq = << >>
             /\ explore' = explore
    BY <1>1, <1>3, <2>3
  <2>5. Recycler!Guess(ev)
    BY <1>2, <2>1, <2>2, <2>4 DEF Recycler!Guess, Recycler!Give
  <2> QED
    BY <2>5 DEF Recycler!Next
<1>4. CASE \E ev \in Ev : DrawExplore(ev)
  <2>1. PICK ev \in Ev : DrawExplore(ev)
    BY <1>4
  <2>2. /\ Counts /\ ring' = ring
        /\ last'.src \in {"EXPLORE", "RANDOM", "REPLAY"} /\ last'.ev = ev
    BY <2>1 DEF DrawExplore, Drawn
  <2> HIDE DEF Counts
  <2> QED
    BY <1>3, <2>2
<1>5. CASE \E ev \in Ev : DrawRandom(ev) \/ DrawReplay(ev)
  <2>1. PICK ev \in Ev : DrawRandom(ev) \/ DrawReplay(ev)
    BY <1>5
  <2>2. /\ MustGuess /\ explore' = explore /\ ring' = ring
        /\ last'.src \in {"EXPLORE", "RANDOM", "REPLAY"} /\ last'.ev = ev
    BY <2>1 DEF DrawRandom, DrawReplay, Drawn
  <2>3. Counts
    BY <1>1, <2>2 DEF MustGuess
  <2> HIDE DEF Counts
  <2> QED
    BY <1>3, <2>2, <2>3
<1>6. CASE DrawFrozen
  <2>1. /\ explore = 0 /\ frozen /\ ~IsEmpty(ring) /\ ring' = PopFrozen(ring)
        /\ last' = [src |-> IF FrozenValid(ring) THEN "VALID" ELSE "STALE",
                    ev |-> FrozenValue(ring)]
        /\ explore' = explore
    BY <1>6 DEF DrawFrozen, Drawn
  <2>2. ring'.value = ring.value /\ ring'.head = ring.head /\ ring'.count = ring.count
    BY <2>1 DEF PopFrozen
  <2>3. KnownSeq' = KnownSeq /\ FreshSeq' = FreshSeq
    BY <1>2, <2>1, <2>2 DEF KnownSeq, FreshSeq
  <2>4. ring.frozenHead \in Slots /\ ring.frozenHead < ring.count
    BY <1>1, <2>1 DEF RingOK, Ring, IsEmpty
  <2>5. \E i \in DOMAIN KnownSeq : KnownSeq[i] = FrozenValue(ring)
    BY <1>1, <2>4, Seen, QueuesAre, BehindAll DEF FrozenValue
  <2>6. DrawnKind' = [kind |-> "RECYCLED", ev |-> FrozenValue(ring)]
    BY <2>1 DEF DrawnKind
  <2>7. Recycler!Reuse
    BY <1>2, <2>1, <2>3, <2>5, <2>6 DEF Recycler!Reuse, Recycler!Give
  <2> QED
    BY <2>7 DEF Recycler!Next
<1>7. CASE DrawFresh
  <2>1. /\ explore = 0 /\ ~frozen /\ HasFresh(ring) /\ ring' = PopFresh(ring)
        /\ last' = [src |-> "FRESH_POP", ev |-> FreshValue(ring)] /\ explore' = explore
    BY <1>7 DEF DrawFresh, Drawn
  <2>2. ring'.value = ring.value /\ ring'.head = ring.head /\ ring'.count = ring.count
    BY <2>1 DEF PopFresh
  <2>3. KnownSeq' = KnownSeq
    BY <2>2 DEF KnownSeq
  <2>4. FreshSeq = Behind(ring, ring.fresh) /\ FreshSeq' = Behind(ring', ring'.fresh)
    BY <1>2, <2>1, Seen
  <2>5. FreshSeq # << >> /\ Head(FreshSeq) = FreshValue(ring) /\ FreshSeq' = Tail(FreshSeq)
    BY <1>1, <2>1, <2>4, BehindPop DEF HasFresh
  <2>6. DrawnKind' = [kind |-> "RECYCLED", ev |-> FreshValue(ring)]
    BY <2>1 DEF DrawnKind
  <2>7. Recycler!Recycle
    BY <1>2, <2>1, <2>3, <2>5, <2>6 DEF Recycler!Recycle, Recycler!Give
  <2> QED
    BY <2>7 DEF Recycler!Next
<1> QED
  BY <1>4, <1>5, <1>6, <1>7 DEF Draw

(* Feedback is learnt, thaws the source, or goes unnoticed.                *)
LEMMA FeedbackRefines ==
  ASSUME IInv, IInv', NEW ev \in Ev, NEW fb \in {"GOOD", "ECN", "NACK"}, Feedback(ev, fb)
  PROVE  Recycler!Next \/ UNCHANGED Recycler!vars
<1>1. /\ RingOK(ring) /\ (~frozen => Contiguous(ring)) /\ ring \in Ring
      /\ frozen \in BOOLEAN /\ RingOK(ring')
  BY DEF IInv, TypeOK
<1>2. CASE Thaws
  <2>1. /\ frozen /\ frozen' = FALSE /\ explore' = Burst /\ last' = last
        /\ ring' = IF fb = "GOOD" THEN Add(EmptyRing, ev) ELSE EmptyRing
    BY <1>2 DEF Feedback, Thaws, Reset
  <2>2. DrawnKind' = DrawnKind
    BY <2>1 DEF DrawnKind
  <2>3. KnownSeq' \in {<< >>} \cup { <<e>> : e \in Ev } /\ FreshSeq' = KnownSeq'
    <3>1. CASE fb = "GOOD"
      <4> DEFINE q == Add(EmptyRing, ev)
      <4>1. ring' = q /\ RingOK(EmptyRing) /\ EmptyRing \in Ring
        BY <2>1, <3>1, EmptyRingOK DEF RingOK
      <4>2. q.count = 1 /\ q.fresh = 1 /\ AtMost(0 + 1, RingSize) = 1
        BY RingAssumption DEF Add, EmptyRing, AtMost, Slots
      <4>3. KnownSeq' = Behind(q, 1) /\ FreshSeq' = Behind(q, 1)
        BY <2>1, <4>1, <4>2, Seen
      <4>4. Behind(q, 1) = Recycler!Latest(Append(Behind(EmptyRing, 0), ev))
        <5>1. 0 \in 0 .. RingSize
          BY RingAssumption
        <5>2. Behind(q, AtMost(0 + 1, RingSize))
                = Recycler!Latest(Append(Behind(EmptyRing, 0), ev))
          BY <4>1, <5>1, BehindAdd
        <5> QED
          BY <4>2, <5>2
      <4>5. Append(<< >>, ev) = <<ev>> /\ Len(<<ev>>) = 1
        OBVIOUS
      <4>6. Behind(q, 1) = <<ev>>
        <5>1. Behind(EmptyRing, 0) = << >>
          BY <4>1, BehindNone
        <5>2. Behind(q, 1) = Recycler!Latest(<<ev>>)
          BY <4>4, <4>5, <5>1
        <5> HIDE DEF q
        <5> QED
          BY <4>5, <5>2, RingAssumption DEF Recycler!Latest
      <4> QED
        BY <4>3, <4>6
    <3>2. CASE fb # "GOOD"
      <4>1. ring' = EmptyRing /\ EmptyRing.count = 0 /\ EmptyRing.fresh = 0
        BY <2>1, <3>2 DEF EmptyRing
      <4>2. KnownSeq' = << >> /\ FreshSeq' = << >>
        BY <1>1, <2>1, <4>1, Seen, QueuesAre DEF IsEmpty, HasFresh
      <4> QED
        BY <4>2
    <3> QED
      BY <3>1, <3>2
  <2>4. Recycler!Thaw
    BY <2>1, <2>2, <2>3 DEF Recycler!Thaw
  <2> QED
    BY <2>4 DEF Recycler!Next
<1>3. CASE ~Thaws /\ fb = "GOOD"
  <2>1. /\ frozen' = frozen /\ explore' = explore /\ last' = last
        /\ ring' = Add(ring, ev)
    BY <1>1, <1>3 DEF Feedback
  <2>2. ring'.count = AtMost(ring.count + 1, RingSize)
    BY <2>1 DEF Add
  <2>3. KnownSeq' = Recycler!Latest(Append(KnownSeq, ev))
    BY <1>1, <2>1, <2>2, Seen, QueuesAre, BehindAdd
  <2>4. FreshSeq' = IF frozen THEN FreshSeq ELSE Recycler!Latest(Append(FreshSeq, ev))
    <3>1. CASE frozen
      BY <2>1, <3>1, Seen
    <3>2. CASE ~frozen
      <4>1. ring'.fresh = AtMost(ring.fresh + 1, RingSize)
        BY <1>1, <2>1, <3>2, AddFresh
      <4> QED
        BY <1>1, <2>1, <3>2, <4>1, Seen, QueuesAre, BehindAdd
    <3> QED
      BY <3>1, <3>2
  <2>5. DrawnKind' = DrawnKind
    BY <2>1 DEF DrawnKind
  <2>6. Recycler!Learn(ev)
    BY <2>1, <2>3, <2>4, <2>5 DEF Recycler!Learn
  <2> QED
    BY <2>6 DEF Recycler!Next
<1>4. CASE ~Thaws /\ fb # "GOOD"
  <2>1. frozen' = frozen /\ explore' = explore /\ last' = last /\ ring' = ring
    BY <1>1, <1>4 DEF Feedback
  <2> QED
    BY <2>1, Stutters
<1> QED
  BY <1>2, <1>3, <1>4

(* A timeout freezes the recycler, or nothing where freezing is not used.  *)
LEMMA TimeoutRefines ==
  ASSUME IInv, NEW lowRtt \in BOOLEAN, Timeout(lowRtt)
  PROVE  Recycler!Next \/ UNCHANGED Recycler!vars
<1>1. /\ ~frozen /\ explore = 0 /\ frozen' = UseFreezing /\ ring' = ring
      /\ explore' = explore /\ last' = last
  BY DEF Timeout
<1>2. UseFreezing \in BOOLEAN
  BY BufferAssumption
<1>3. CASE UseFreezing = TRUE
  <2>1. KnownSeq' = KnownSeq /\ FreshSeq' = << >> /\ DrawnKind' = DrawnKind
    BY <1>1, <1>3 DEF KnownSeq, FreshSeq, DrawnKind
  <2>2. Recycler!Freeze
    BY <1>1, <1>3, <2>1 DEF Recycler!Freeze
  <2> QED
    BY <2>2 DEF Recycler!Next
<1>4. CASE UseFreezing = FALSE
  <2>2. frozen' = frozen
    BY <1>1, <1>4 DEF IInv, TypeOK
  <2> QED
    BY <1>1, <2>2, Stutters
<1> QED
  BY <1>2, <1>3, <1>4

(* The circular buffer with its head, its two counters and its flags is a  *)
(* pair of queues: an EV is used once per good acknowledgement, oldest     *)
(* first, and only a frozen source reuses one.                             *)
THEOREM RecyclerImplemented == Spec => ImplementsRecycler
<1>1. Init => Recycler!Init
  <2> SUFFICES ASSUME Init PROVE Recycler!Init
    OBVIOUS
  <2>1. ring = EmptyRing /\ RingOK(ring)
    BY EmptyRingOK DEF Init
  <2>2. IsEmpty(ring) /\ ~HasFresh(ring) /\ ring \in Ring
    BY <2>1 DEF IsEmpty, HasFresh, EmptyRing, RingOK
  <2>3. KnownSeq = << >> /\ FreshSeq = << >>
    BY <2>1, <2>2, KnownIs, FreshIs, QueuesAre DEF KnownSeq, FreshSeq
  <2>4. DrawnKind = [kind |-> "GUESS", ev |-> 0]
    BY DEF Init, DrawnKind
  <2> QED
    BY <2>3, <2>4 DEF Init, Recycler!Init
<1>2. IInv /\ IInv' /\ [Next]_vars => [Recycler!Next]_(Recycler!vars)
  <2> SUFFICES ASSUME IInv, IInv', [Next]_vars
               PROVE  Recycler!Next \/ UNCHANGED Recycler!vars
    OBVIOUS
  <2>1. CASE SomeFeedback
    BY <2>1, FeedbackRefines DEF SomeFeedback
  <2>2. CASE \E lowRtt \in BOOLEAN : Timeout(lowRtt)
    BY <2>2, TimeoutRefines
  <2>3. CASE DeadlinePasses \/ UNCHANGED vars
    BY <2>3, Stutters DEF DeadlinePasses, vars
  <2> QED
    BY <2>1, <2>2, <2>3, DrawRefines DEF Next
<1> QED
  BY <1>1, <1>2, BufferInvariant, PTL DEF Spec, ImplementsRecycler, Recycler!Spec
=============================================================================
