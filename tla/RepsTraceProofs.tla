-------------------------- MODULE RepsTraceProofs --------------------------
(***************************************************************************)
(* What the analysers conclude from a trace, for every ring size, number   *)
(* of paths and burst: drain.py's epochs are the source's freezes, the     *)
(* draws dropped as warm-up are guesses, and the order of ACKs and draws   *)
(* gives the number of fresh EVs (TInv); every draw and every epoch is     *)
(* classified as what it was, and the checks fail for two reasons only     *)
(* (LInv, which says what the readers remember of the source).             *)
(***************************************************************************)
EXTENDS RepsTrace, RepsBufferProofs

(* A row that the readers have taken leaves these results.                 *)
LEMMA ReadFields ==
  ASSUME NEW l, NEW row
  PROVE  /\ Read(l, row).epoch = Epoch(l, row)
         /\ Read(l, row).acked = Acked(l, row)
         /\ Read(l, row).healthy = (l.healthy /\ row.kind # "FREEZE")
         /\ Read(l, row).k = IF l.healthy /\ row.kind # "FREEZE" THEN Level(l, row) ELSE 0
  BY DEF Read

(* A thaw writes an UNFREEZE row.                                          *)
LEMMA ThawRowKind == ThawRow.kind = "UNFREEZE"
<1> DEFINE row == Row("UNFREEZE", "", -1, -1)
<1>1. row.kind = "UNFREEZE" /\ "kind" \in DOMAIN row
  BY DEF Row
<1> QED
  BY <1>1 DEF ThawRow, Row

(* Before the first ACK row nothing was learnt, so every draw was a guess. *)
NothingLearnt ==
  ring.count = 0 /\ ring.fresh = 0 /\ last.src \in {"NONE", "RANDOM", "EXPLORE"}

(* A source that never froze has never explored either.                    *)
NeverFroze == window = "WHOLE" /\ ~frozen /\ explore = 0 /\ log.k = ring.fresh

TInv ==
  /\ IInv
  /\ window = "WHOLE" /\ ~log.acked => NothingLearnt
  /\ log.healthy => NeverFroze

(* The invariant holds before the first row.                               *)
LEMMA TInit == TracedInit => TInv
<1> SUFFICES ASSUME TracedInit PROVE TInv
  OBVIOUS
<1>1. IInv
  BY InitOK DEF TracedInit
<1>2. log.healthy = (window = "WHOLE") /\ log.k = 0
  BY DEF TracedInit, NoRows
<1>3. NothingLearnt /\ ~frozen /\ explore = 0 /\ ring.fresh = 0
  BY DEF TracedInit, Init, NothingLearnt, EmptyRing
<1> QED
  BY <1>1, <1>2, <1>3 DEF TInv, NeverFroze

(* A draw and its SEND row keep it.                                        *)
LEMMA TracedDrawKeeps == TInv /\ TracedDraw => TInv'
<1> SUFFICES ASSUME TInv, TracedDraw PROVE TInv'
  OBVIOUS
<1> DEFINE row == Row("SEND", SourceStr(last'.src), last'.ev, -1)
<1>1. IInv' /\ TypeOK
  BY DrawKeeps DEF TInv, TracedDraw, IInv
<1>2. window' = window /\ log' = IF window = "SHUT" THEN log ELSE Read(log, row)
  BY DEF TracedDraw, Write
<1>3. row.kind = "SEND"
  BY DEF Row
<1> HIDE DEF row
<1>4. frozen' = frozen
  BY DEF TracedDraw, Draw, DrawExplore, DrawRandom, DrawReplay, DrawFrozen, DrawFresh, Drawn
<1>5. ASSUME window = "WHOLE", ~log'.acked PROVE NothingLearnt'
  <2>1. ~log.acked
    BY <1>2, <1>5, ReadFields DEF Acked
  <2>2. ring.count = 0 /\ ring.fresh = 0
    BY <2>1, <1>5 DEF TInv, NothingLearnt
  <2>3. ~DrawFrozen /\ ~DrawFresh /\ \A ev \in Ev : ~DrawReplay(ev)
    BY <2>2 DEF DrawFrozen, DrawFresh, DrawReplay, IsEmpty, HasFresh
  <2> QED
    BY <2>2, <2>3 DEF TracedDraw, Draw, DrawExplore, DrawRandom, Drawn, NothingLearnt
<1>6. ASSUME log'.healthy PROVE NeverFroze'
  <2>1. log.healthy
    BY <1>2, <1>6, ReadFields
  <2>2. window = "WHOLE" /\ ~frozen /\ explore = 0 /\ log.k = ring.fresh
    BY <2>1 DEF TInv, NeverFroze
  <2>3. log'.k = AfterPop(ring.fresh)
    BY <1>2, <1>3, <2>1, <2>2, ReadFields DEF Level
  <2>4. explore' = 0
    BY <2>2 DEF TracedDraw, Draw, DrawExplore, DrawRandom, DrawReplay, DrawFrozen, DrawFresh
  <2>5. ring.fresh \in Nat /\ ring.fresh <= ring.count
    <3>1. ring.fresh \in Nat /\ ring.fresh = Cardinality(ValidSlots(ring)) /\ ring.count \in Nat
      BY <1>1 DEF TInv, IInv, RingOK, TypeOK, Ring
    <3>2. ValidSlots(ring) \subseteq 0 .. ring.count - 1
      BY <3>1 DEF TInv, IInv, RingOK, ValidSlots, Slots
    <3>3. IsFiniteSet(0 .. ring.count - 1) /\ Cardinality(0 .. ring.count - 1) = ring.count
      BY <3>1, SlotsBelow
    <3>4. Cardinality(ValidSlots(ring)) <= Cardinality(0 .. ring.count - 1)
      BY <3>2, <3>3, FS_Subset
    <3> QED
      BY <3>1, <3>3, <3>4
  <2>6. ring'.fresh = AfterPop(ring.fresh)
    <3>1. CASE DrawFresh
      BY <3>1, <2>5 DEF DrawFresh, PopFresh, HasFresh, AfterPop
    <3>2. CASE ring' = ring /\ ~HasFresh(ring)
      BY <3>2, <2>5 DEF HasFresh, AfterPop
    <3> QED
      BY <3>1, <3>2, <2>2
      DEF TracedDraw, Draw, DrawExplore, DrawRandom, DrawReplay, DrawFrozen, MustGuess
  <2> QED
    BY <1>2, <1>4, <2>2, <2>3, <2>4, <2>6 DEF NeverFroze
<1> QED
  BY <1>1, <1>2, <1>5, <1>6 DEF TInv

(* The readers of an ACK or NACK row: of the row of a thaw before it they  *)
(* keep seen_ack, k and whether a FREEZE row was seen.                     *)
LEMMA TracedFeedbackKeeps ==
  ASSUME TInv, NEW ev \in Ev, NEW fb \in {"GOOD", "ECN", "NACK"}, TracedFeedback(ev, fb)
  PROVE  TInv'
<1> DEFINE before == IF Thaws THEN Read(log, ThawRow) ELSE log
           row == FeedbackRow(ev, fb)
<1>1. IInv' /\ TypeOK
  BY FeedbackKeeps DEF TInv, TracedFeedback, IInv
<1>2. window' = window /\ log' = IF window = "SHUT" THEN log ELSE Read(before, row)
  BY DEF TracedFeedback, Write
<1>3. /\ row.kind = IF fb = "NACK" THEN "NACK" ELSE "ACK"
      /\ row.ecn = IF fb = "NACK" THEN -1 ELSE IF fb = "ECN" THEN 1 ELSE 0
  BY DEF FeedbackRow, Row
<1>4. before.acked <=> log.acked
  BY ReadFields, ThawRowKind DEF Acked
<1>5. before.healthy <=> log.healthy
  BY ReadFields, ThawRowKind
<1> HIDE DEF before, row
<1>6. ASSUME window = "WHOLE", ~log'.acked PROVE NothingLearnt'
  <2>1. ~log.acked /\ fb = "NACK"
    BY <1>2, <1>3, <1>4, <1>6, ReadFields DEF Acked
  <2>2. NothingLearnt
    BY <2>1, <1>6 DEF TInv
  <2> QED
    BY <2>1, <2>2 DEF TracedFeedback, Feedback, NothingLearnt, Reset, EmptyRing
<1>7. ASSUME log'.healthy PROVE NeverFroze'
  <2>1. log.healthy
    BY <1>2, <1>5, <1>7, ReadFields
  <2>2. window = "WHOLE" /\ ~frozen /\ explore = 0 /\ log.k = ring.fresh /\ ~Thaws
    BY <2>1 DEF TInv, NeverFroze, Thaws
  <2>3. before = log
    BY <2>2 DEF before
  <2>4. log'.k = IF fb = "GOOD" THEN AtMost(ring.fresh + 1, RingSize) ELSE ring.fresh
    BY <1>2, <1>3, <2>1, <2>2, <2>3, ReadFields DEF Level
  <2>5. ring' = (IF fb = "GOOD" THEN Add(ring, ev) ELSE ring) /\ explore' = explore /\ ~frozen'
    BY <2>2 DEF TracedFeedback, Feedback
  <2>6. Add(ring, ev).fresh = AtMost(ring.fresh + 1, RingSize)
    <3>1. /\ ring.head \in Slots /\ ring.fresh \in 0 .. RingSize
          /\ RingSize \in Nat \ {0} /\ Contiguous(ring)
      BY <1>1, <2>2, RingAssumption DEF TInv, IInv, TypeOK, Ring
    <3>2. ring.valid[ring.head] <=> RingSize - 1 < ring.fresh
      BY <3>1 DEF Contiguous, Back, Slots
    <3> QED
      BY <3>1, <3>2 DEF Add, AtMost
  <2> QED
    BY <1>2, <2>2, <2>4, <2>5, <2>6 DEF NeverFroze
<1> QED
  BY <1>1, <1>2, <1>6, <1>7 DEF TInv

(* A freeze and its FREEZE row keep it.                                    *)
LEMMA TracedTimeoutKeeps ==
  ASSUME TInv, NEW lowRtt \in BOOLEAN, TracedTimeout(lowRtt)
  PROVE  TInv'
<1> DEFINE row == Row("FREEZE", "", -1, -1)
<1>1. IInv'
  BY TimeoutKeeps DEF TInv, TracedTimeout
<1>2. window' = window /\ log' = IF window = "SHUT" THEN log ELSE Read(log, row)
  BY DEF TracedTimeout, Write
<1>3. row.kind = "FREEZE"
  BY DEF Row
<1> HIDE DEF row
<1>4. ring' = ring /\ last' = last
  BY DEF TracedTimeout, Timeout
<1>5. ~log'.healthy
  BY <1>2, <1>3, ReadFields DEF TInv, NeverFroze
<1>6. window = "WHOLE" /\ ~log'.acked => NothingLearnt'
  BY <1>2, <1>3, <1>4, ReadFields DEF TInv, Acked, NothingLearnt
<1> QED
  BY <1>1, <1>2, <1>5, <1>6 DEF TInv

(* So every step keeps it.                                                 *)
LEMMA TracedNextKeeps == TInv /\ [TracedNext]_tvars => TInv'
<1> SUFFICES ASSUME TInv, [TracedNext]_tvars PROVE TInv'
  OBVIOUS
<1>1. CASE Unlogged
  <2>1. IInv'
    BY <1>1 DEF Unlogged, DeadlinePasses, TInv, IInv, TypeOK, NeverFrozenExploring
  <2> QED
    BY <1>1, <2>1 DEF Unlogged, DeadlinePasses, TInv, NothingLearnt, NeverFroze
<1>2. CASE OpenWindow
  <2>1. IInv'
    BY <1>2 DEF OpenWindow, TInv, IInv, TypeOK, NeverFrozenExploring
  <2> QED
    BY <1>2, <2>1 DEF OpenWindow, TInv, NothingLearnt, NeverFroze
<1>3. CASE UNCHANGED tvars
  <2>1. IInv'
    BY <1>3 DEF tvars, TInv, IInv, TypeOK, NeverFrozenExploring
  <2> QED
    BY <1>3, <2>1 DEF tvars, TInv, NothingLearnt, NeverFroze
<1> QED
  BY <1>1, <1>2, <1>3, TracedDrawKeeps, TracedFeedbackKeeps, TracedTimeoutKeeps DEF TracedNext

(* It holds in every reachable state.                                      *)
LEMMA AlwaysT == TracedSpec => []TInv
<1> QED
  BY TInit, TracedNextKeeps, PTL DEF TracedSpec

(* The draws the analysers drop as warm-up (seen_ack) are all guesses, so  *)
(* the valid and stale draws they count are those of the whole run.        *)
THEOREM WarmupIsGuesses == TracedSpec => []WarmupOnlyGuesses
<1>1. TInv => WarmupOnlyGuesses
  BY DEF TInv, NothingLearnt, WarmupOnlyGuesses
<1> QED
  BY <1>1, AlwaysT, PTL

(* event_level_k() of c11_pathstatic_compare.py is right for a ring of any *)
(* size: k from the order of ACKs and draws is number_fresh_entropies.     *)
THEOREM LevelIsRight == TracedSpec => []LevelIsFresh
<1>1. TInv => LevelIsFresh
  BY DEF TInv, NeverFroze, LevelIsFresh
<1> QED
  BY <1>1, AlwaysT, PTL

(* Both, for every ring size, number of paths and burst.                   *)
THEOREM ReadingsAreExact == TracedSpec => []ReadingsExact
  BY WarmupIsGuesses, LevelIsRight, PTL DEF ReadingsExact

(* With freezing in use, drain.py has an epoch open exactly while the      *)
(* source is frozen, in a trace of the whole run.                          *)
THEOREM EpochsAreFreezes ==
  ASSUME UseFreezing = TRUE
  PROVE  TracedSpec => []EpochTracksFreeze
<1>1. TracedInit => EpochTracksFreeze
  BY DEF TracedInit, Init, NoRows, EpochTracksFreeze
<1>2. EpochTracksFreeze /\ [TracedNext]_tvars => EpochTracksFreeze'
  <2> SUFFICES ASSUME EpochTracksFreeze, [TracedNext]_tvars, window' = "WHOLE"
               PROVE  (log'.epoch # "NONE") <=> frozen'
    BY DEF EpochTracksFreeze
  <2>1. CASE TracedDraw
    <3> DEFINE row == Row("SEND", SourceStr(last'.src), last'.ev, -1)
    <3>1. window = "WHOLE" /\ log' = Read(log, row)
      BY <2>1 DEF TracedDraw, Write
    <3>2. row.kind = "SEND"
      BY DEF Row
    <3> HIDE DEF row
    <3>3. frozen' = frozen
      BY <2>1
      DEF TracedDraw, Draw, DrawExplore, DrawRandom, DrawReplay, DrawFrozen, DrawFresh, Drawn
    <3> QED
      BY <3>1, <3>2, <3>3, ReadFields DEF EpochTracksFreeze, Epoch
  <2>2. ASSUME NEW ev \in Ev, NEW fb \in {"GOOD", "ECN", "NACK"}, TracedFeedback(ev, fb)
        PROVE  (log'.epoch # "NONE") <=> frozen'
    <3> DEFINE before == IF Thaws THEN Read(log, ThawRow) ELSE log
               row == FeedbackRow(ev, fb)
    <3>1. window = "WHOLE" /\ log' = Read(before, row)
      BY <2>2 DEF TracedFeedback, Write
    <3>2. row.kind \in {"ACK", "NACK"}
      BY DEF FeedbackRow, Row
    <3>3. frozen' = (frozen /\ ~Thaws)
      BY <2>2 DEF TracedFeedback, Feedback
    <3>4. Thaws => before.epoch = "NONE"
      BY ReadFields, ThawRowKind DEF Epoch
    <3>5. ~Thaws => before = log
      OBVIOUS
    <3> HIDE DEF before, row
    <3>6. log'.epoch = before.epoch
      BY <3>1, <3>2, ReadFields DEF Epoch
    <3> QED
      BY <3>1, <3>3, <3>4, <3>5, <3>6 DEF EpochTracksFreeze
  <2>3. ASSUME NEW lowRtt \in BOOLEAN, TracedTimeout(lowRtt)
        PROVE  (log'.epoch # "NONE") <=> frozen'
    <3> DEFINE row == Row("FREEZE", "", -1, -1)
    <3>1. log' = Read(log, row) /\ frozen' = TRUE
      BY <2>3 DEF TracedTimeout, Timeout, Write
    <3>2. row.kind = "FREEZE"
      BY DEF Row
    <3> HIDE DEF row
    <3> QED
      BY <3>1, <3>2, ReadFields DEF Epoch
  <2>4. CASE Unlogged
    BY <2>4 DEF Unlogged, DeadlinePasses, EpochTracksFreeze
  <2>5. CASE OpenWindow
    BY <2>5 DEF OpenWindow
  <2>6. CASE UNCHANGED tvars
    BY <2>6 DEF tvars, EpochTracksFreeze
  <2> QED
    BY <2>1, <2>2, <2>3, <2>4, <2>5, <2>6 DEF TracedNext
<1> QED
  BY <1>1, <1>2, PTL DEF TracedSpec
-----------------------------------------------------------------------------
(* What the readers remember of the trace agrees with the source.          *)

(* The snapshot of the row before is the ring as it is.                    *)
Snapshot ==
  /\ window \in {"SHUT", "WHOLE", "LATE"}
  /\ log.seen => window # "SHUT" /\ log.ring = ring

(* Only rows make a reader remember anything.                              *)
Remembered ==
  /\ log.acked => log.seen
  /\ log.epoch # "NONE" => log.seen
  /\ log.lastK \in Int /\ log.acks \in Nat
  /\ log.lastK >= 0 => log.acked /\ log.lastK \in 0 .. RingSize

(* An epoch with stale draws lasts as long as the freeze, and its ring     *)
(* keeps its slots.                                                        *)
EpochSound ==
  /\ log.epoch \in {"NONE", "no_stale_draws", "stale_until_unfreeze", "cleared_before_unfreeze"}
  /\ log.epoch \in {"stale_until_unfreeze", "cleared_before_unfreeze"} =>
       frozen /\ ring.count > 0
  /\ OutcomeMatchesDraws

(* recursion_check() predicts the fresh EVs of the next draw.              *)
Predicted ==
  log.healthy /\ log.lastK >= 0 =>
    ring.fresh = AtMost(AfterPop(log.lastK) + log.acks, RingSize)

LInv == TInv /\ Snapshot /\ Remembered /\ EpochSound /\ Predicted

(* Stepping back from a slot, and the slot behind head.                    *)
LEMMA PreviousSlot ==
  ASSUME NEW n \in Nat \ {0}, NEW i \in 0 .. n - 1
  PROVE  /\ (i - 1) % n = IF i = 0 THEN n - 1 ELSE i - 1
         /\ (i + n - 1) % n = IF i = 0 THEN n - 1 ELSE i - 1
<1>1. CASE i = 0
  <2>1. (-1) % n = n - 1
    OBVIOUS
  <2>2. (n - 1) % n = n - 1
    OBVIOUS
  <2> QED
    BY <1>1, <2>1, <2>2
<1>2. CASE i # 0
  <2>1. (i - 1) % n = i - 1
    BY <1>2
  <2>2. (i - 1 + n) % n = i - 1
    BY <1>2
  <2> QED
    BY <1>2, <2>1, <2>2
<1> QED
  BY <1>1, <1>2

(* remove_frozen()'s step undone.                                          *)
LEMMA PoppedSlot ==
  ASSUME NEW r, RingOK(r), ~IsEmpty(r), NEW row, row.ring = PopFrozen(r)
  PROVE  PoppedFrozen(row) = r.frozenHead
<1> DEFINE n == r.count
           h == r.frozenHead
<1>1. n \in Nat \ {0} /\ h \in 0 .. n - 1
  BY RingAssumption DEF RingOK, Ring, IsEmpty, Slots
<1>2. row.ring.count = n /\ row.ring.frozenHead = (h + 1) % n
  BY DEF PopFrozen
<1>3. PoppedFrozen(row) = (((h + 1) % n) - 1) % n
  BY <1>1, <1>2 DEF PoppedFrozen
<1> SUFFICES PoppedFrozen(row) = h
  OBVIOUS
<1> HIDE DEF n, h
<1>4. (h + 1) % n = IF h + 1 = n THEN 0 ELSE h + 1
  BY <1>1, NextSlot
<1>5. CASE h + 1 = n
  <2>1. 0 \in 0 .. n - 1 /\ (0 - 1) % n = n - 1
    BY <1>1, PreviousSlot
  <2> QED
    BY <1>1, <1>3, <1>4, <1>5, <2>1
<1>6. CASE h + 1 # n
  <2>1. h + 1 \in 0 .. n - 1 /\ h + 1 # 0
    BY <1>1, <1>6
  <2>2. (h + 1 - 1) % n = h + 1 - 1
    BY <1>1, <2>1, PreviousSlot
  <2> QED
    BY <1>1, <1>3, <1>4, <1>6, <2>1, <2>2
<1> QED
  BY <1>5, <1>6

(* A SEND row says what the draw was.                                      *)
SendRow == Row("SEND", SourceStr(last'.src), last'.ev, -1)

(* Its columns.                                                            *)
LEMMA SendRowFields ==
  /\ SendRow.kind = "SEND" /\ SendRow.src = SourceStr(last'.src) /\ SendRow.ev = last'.ev
  /\ SendRow.ecn = -1 /\ SendRow.ring = ring' /\ SendRow.frozen = frozen'
BY DEF SendRow, Row

(* What each kind of draw leaves, and how its row names it.                *)
LEMMA DrawCases ==
  ASSUME Draw
  PROVE  /\ frozen' = frozen
         /\ \/ /\ explore > 0 \/ MustGuess
               /\ last'.src \in {"EXPLORE", "RANDOM", "REPLAY"} /\ ring' = ring
               /\ SourceStr(last'.src) \in {"random", "explore"}
               /\ SourceStr(last'.src) = "random" => MustGuess
               /\ explore > 0 => explore' = explore - 1
            \/ /\ explore = 0 /\ frozen /\ ~IsEmpty(ring) /\ ring' = PopFrozen(ring)
               /\ last'.src = IF FrozenValid(ring) THEN "VALID" ELSE "STALE"
               /\ last'.ev = FrozenValue(ring) /\ SourceStr(last'.src) = "frozen_pop"
            \/ /\ explore = 0 /\ ~frozen /\ HasFresh(ring) /\ ring' = PopFresh(ring)
               /\ last'.src = "FRESH_POP" /\ last'.ev = FreshValue(ring)
               /\ SourceStr(last'.src) = "fresh_pop"
<1>1. CASE \E ev \in Ev : DrawExplore(ev)
  BY <1>1 DEF DrawExplore, Drawn, SourceStr
<1>2. CASE \E ev \in Ev : DrawRandom(ev)
  BY <1>2 DEF DrawRandom, MustGuess, Drawn, SourceStr
<1>3. CASE \E ev \in Ev : DrawReplay(ev)
  BY <1>3 DEF DrawReplay, MustGuess, Drawn, SourceStr
<1>4. CASE DrawFrozen
  BY <1>4 DEF DrawFrozen, Drawn, SourceStr
<1>5. CASE DrawFresh
  BY <1>5 DEF DrawFresh, Drawn, SourceStr
<1> QED
  BY <1>1, <1>2, <1>3, <1>4, <1>5 DEF Draw

(* classify() of send_occupancy.py is right about every draw.              *)
LEMMA ClassRight ==
  ASSUME IInv, Snapshot, Draw, log.seen
  PROVE  Class(log, SendRow) = Committed(last'.src)
<1>1. log.ring = ring /\ RingOK(ring)
  BY DEF Snapshot, IInv
<1>2. CASE last'.src \in {"EXPLORE", "RANDOM", "REPLAY"}
           /\ SourceStr(last'.src) \in {"random", "explore"}
  <2>1. SendRow.src \in {"random", "explore"}
    BY <1>2, SendRowFields
  <2> QED
    BY <1>2, <2>1 DEF Class, Committed
<1>3. CASE last'.src = "FRESH_POP" /\ SourceStr(last'.src) = "fresh_pop"
  BY <1>3, SendRowFields DEF Class, Committed
<1>4. CASE /\ ~IsEmpty(ring) /\ ring' = PopFrozen(ring)
           /\ last'.src = IF FrozenValid(ring) THEN "VALID" ELSE "STALE"
           /\ SourceStr(last'.src) = "frozen_pop"
  <2>1. SendRow.src = "frozen_pop" /\ SendRow.ring = PopFrozen(ring)
    BY <1>4, SendRowFields
  <2>2. PoppedFrozen(SendRow) = ring.frozenHead
    BY <1>1, <1>4, <2>1, PoppedSlot
  <2>3. Class(log, SendRow) = IF FrozenValid(ring) THEN "valid" ELSE "stale"
    BY <1>1, <2>1, <2>2 DEF Class, FrozenValid
  <2> QED
    BY <1>4, <2>3 DEF Committed
<1> QED
  BY <1>2, <1>3, <1>4, DrawCases

-----------------------------------------------------------------------------
(* The checks.                                                             *)

(* What the checks of verify_events() look at, one by one.                 *)
LEMMA ViolatedCases ==
  ASSUME NEW l, NEW row, NEW c \in Violated(l, row)
  PROVE  \/ c = "fresh" /\ row.ring.fresh # Cardinality(ValidSlots(row.ring))
         \/ c = "frozen" /\ row.src = "frozen_pop"
              /\ (row.ring.valid[PoppedFrozen(row)] \/ row.ring.value[PoppedFrozen(row)] # row.ev)
         \/ c = "pop" /\ row.src = "fresh_pop" /\ Invalidated(l, row) = {}
         \/ c = "order" /\ row.src = "fresh_pop" /\ Invalidated(l, row) # {}
              /\ First(Invalidated(l, row)) # (row.ring.head - l.ring.fresh) % RingSize
         \/ c = "draw" /\ row.src \in {"random", "explore"} /\ Moved(l, row)
         \/ c = "add" /\ row.kind = "ACK" /\ row.ecn = 0
              /\ (~row.ring.valid[NewestSlot(row.ring)]
                  \/ row.ring.value[NewestSlot(row.ring)] # row.ev)
         \/ c = "ecn" /\ row.kind = "ACK" /\ row.ecn = 1 /\ Moved(l, row)
         \/ c = "nack" /\ row.kind = "NACK" /\ Moved(l, row)
         \/ c = "frozenEv" /\ row.frozen /\ FrozenValue(row.ring) # FrozenEv(row)
         \/ c = "unfreeze" /\ row.kind = "UNFREEZE" /\ ValidSlots(row.ring) # {}
<1> DEFINE newest == NewestSlot(row.ring)
           popped == Invalidated(l, row)
           a == row.ring.fresh # Cardinality(ValidSlots(row.ring))
           b == row.src = "frozen_pop" /\ (row.ring.valid[PoppedFrozen(row)]
                                     \/ row.ring.value[PoppedFrozen(row)] # row.ev)
           d == row.src = "fresh_pop" /\ popped = {}
           e == row.src = "fresh_pop" /\ popped # {}
                  /\ First(popped) # (row.ring.head - l.ring.fresh) % RingSize
           f == row.src \in {"random", "explore"} /\ Moved(l, row)
           g == (row.kind = "ACK" /\ row.ecn = 0)
                  /\ (~row.ring.valid[newest] \/ row.ring.value[newest] # row.ev)
           h == (row.kind = "ACK" /\ row.ecn = 1) /\ Moved(l, row)
           i == row.kind = "NACK" /\ Moved(l, row)
           j == row.frozen /\ FrozenValue(row.ring) # FrozenEv(row)
           m == row.kind = "UNFREEZE" /\ ValidSlots(row.ring) # {}
           fails == [fresh |-> a, frozen |-> b, pop |-> d, order |-> e, draw |-> f,
                     add |-> g, ecn |-> h, nack |-> i, frozenEv |-> j, unfreeze |-> m]
<1>1. c \in DOMAIN fails /\ fails[c]
  BY DEF Violated
<1> HIDE DEF a, b, d, e, f, g, h, i, j, m
<1>2. c \in {"fresh", "frozen", "pop", "order", "draw", "add", "ecn", "nack",
             "frozenEv", "unfreeze"}
  BY <1>1
<1>3. /\ fails["fresh"] = a /\ fails["frozen"] = b /\ fails["pop"] = d
      /\ fails["order"] = e /\ fails["draw"] = f /\ fails["add"] = g
      /\ fails["ecn"] = h /\ fails["nack"] = i /\ fails["frozenEv"] = j
      /\ fails["unfreeze"] = m
  OBVIOUS
<1>4. \/ c = "fresh" /\ a
      \/ c = "frozen" /\ b
      \/ c = "pop" /\ d
      \/ c = "order" /\ e
      \/ c = "draw" /\ f
      \/ c = "add" /\ g
      \/ c = "ecn" /\ h
      \/ c = "nack" /\ i
      \/ c = "frozenEv" /\ j
      \/ c = "unfreeze" /\ m
  <2> HIDE DEF fails
  <2> QED
    BY <1>1, <1>2, <1>3
<1> QED
  BY <1>4 DEF a, b, d, e, f, g, h, i, j, m

(* The rest of what a row leaves with the readers.                         *)
LEMMA ReadMore ==
  ASSUME NEW l, NEW row
  PROVE  LET r == Read(l, row) IN
         /\ r.seen = TRUE /\ r.ring = row.ring
         /\ r.failed = l.failed \cup Violated(l, row) \cup Mismatched(l, row)
                         \cup Mispredicted(l, row)
         /\ r.lastK = IF ~r.healthy THEN -1
                      ELSE IF row.kind = "SEND" /\ l.acked THEN l.ring.fresh ELSE l.lastK
         /\ r.acks = IF ~r.healthy \/ (row.kind = "SEND" /\ l.acked) THEN 0
                     ELSE IF row.kind = "ACK" /\ row.ecn = 0 /\ l.acked
                          THEN AtMost(l.acks + 1, RingSize) ELSE l.acks
BY DEF Read

(* The slot of remove_earliest_fresh(), as --verify computes it.           *)
LEMMA FreshSlotMod ==
  ASSUME NEW r, RingOK(r), HasFresh(r)
  PROVE  (r.head - r.fresh) % RingSize = FreshSlot(r)
<1> DEFINE n == RingSize
           d == r.head - r.fresh
<1>1. n \in Nat \ {0} /\ r.head \in 0 .. n - 1 /\ r.fresh \in 1 .. n
  BY RingAssumption DEF RingOK, Ring, HasFresh, Slots
<1>2. d \in -n .. n - 1
  BY <1>1
<1>3. FreshSlot(r) = IF d < 0 THEN d + n ELSE d
  BY <1>1 DEF FreshSlot
<1> HIDE DEF n, d
<1>4. d % n = IF d < 0 THEN d + n ELSE d
  BY <1>1, <1>2
<1> QED
  BY <1>3, <1>4 DEF n, d

(* The two checks a trace of this source may fail.                         *)
KnownAlarm(c) ==
  \/ c = "frozenEv" /\ frozen' /\ IsEmpty(ring')
  \/ c = "pop" /\ window = "LATE" /\ ~log.seen

(* frozen_ev is right, except for an empty ring.                           *)
LEMMA FrozenEvRight ==
  ASSUME NEW row, row.frozen, FrozenValue(row.ring) # FrozenEv(row)
  PROVE  IsEmpty(row.ring)
BY DEF FrozenEv

(* A draw of a fresh EV invalidates the one slot the checks compute.       *)
LEMMA PopExplained ==
  ASSUME IInv, Snapshot, log.seen, ~frozen, HasFresh(ring), NEW row,
         row.ring = PopFresh(ring), row.ev = FreshValue(ring)
  PROVE  /\ Invalidated(log, row) # {}
         /\ First(Invalidated(log, row)) = (row.ring.head - log.ring.fresh) % RingSize
<1> DEFINE x == FreshSlot(ring)
<1>1. RingOK(ring) /\ Contiguous(ring) /\ log.ring = ring /\ ring \in Ring
  BY DEF IInv, Snapshot, RingOK
<1>2. x \in Slots /\ ring.valid[x]
  BY <1>1, FreshSlotValid
<1>3. row.ring.valid = [ring.valid EXCEPT ![x] = FALSE] /\ row.ring.head = ring.head
      /\ row.ev = ring.value[x] /\ ring.valid \in [Slots -> BOOLEAN]
  BY <1>1 DEF PopFresh, FreshValue, Ring
<1> HIDE DEF x
<1>4. Invalidated(log, row) = {x}
  BY <1>1, <1>2, <1>3 DEF Invalidated
<1>5. First({x}) = x
  <2>1. x <= x
    BY <1>2, RingAssumption DEF Slots
  <2> QED
    BY <2>1 DEF First
<1>6. (ring.head - ring.fresh) % RingSize = x
  BY <1>1, FreshSlotMod DEF x
<1> QED
  BY <1>1, <1>3, <1>4, <1>5, <1>6

(* The checks of verify_events() on a SEND row.                            *)
LEMMA DrawVerified ==
  ASSUME LInv, IInv', Draw, window # "SHUT", NEW c \in Violated(log, SendRow)
  PROVE  KnownAlarm(c)
<1>1. IInv /\ RingOK(ring) /\ RingOK(ring') /\ Snapshot /\ ring \in Ring
  BY DEF LInv, TInv, IInv, RingOK
<1>2. ring'.fresh = Cardinality(ValidSlots(ring'))
  BY <1>1 DEF RingOK
<1>3. SendRow.kind # "ACK" /\ SendRow.kind # "NACK" /\ SendRow.kind # "UNFREEZE"
      /\ SendRow.ring = ring' /\ SendRow.frozen = frozen'
      /\ SendRow.src = SourceStr(last'.src) /\ SendRow.ev = last'.ev
  BY SendRowFields
<1>4. (SendRow.frozen /\ FrozenValue(SendRow.ring) # FrozenEv(SendRow))
        => frozen' /\ IsEmpty(ring')
  BY <1>3, FrozenEvRight
<1>5. CASE ring' = ring /\ SendRow.src \in {"random", "explore"}
  <2>1. ~Moved(log, SendRow)
    BY <1>1, <1>3, <1>5 DEF Moved, Snapshot
  <2> QED
    BY <1>2, <1>3, <1>4, <1>5, <2>1, ViolatedCases DEF KnownAlarm
<1>6. CASE ~IsEmpty(ring) /\ ring' = PopFrozen(ring) /\ last'.ev = FrozenValue(ring)
           /\ SendRow.src = "frozen_pop"
  <2>1. PoppedFrozen(SendRow) = ring.frozenHead
    BY <1>1, <1>3, <1>6, PoppedSlot
  <2>2. ~ring'.valid[ring.frozenHead] /\ ring'.value[ring.frozenHead] = last'.ev
    BY <1>1, <1>6 DEF PopFrozen, FrozenValue, Ring
  <2> QED
    BY <1>2, <1>3, <1>4, <1>6, <2>1, <2>2, ViolatedCases DEF KnownAlarm
<1>7. CASE ~frozen /\ HasFresh(ring) /\ ring' = PopFresh(ring)
           /\ last'.src = "FRESH_POP" /\ last'.ev = FreshValue(ring)
           /\ SendRow.src = "fresh_pop"
  <2>1. CASE log.seen
    <3>1. /\ Invalidated(log, SendRow) # {}
          /\ First(Invalidated(log, SendRow))
               = (SendRow.ring.head - log.ring.fresh) % RingSize
      BY <1>1, <1>3, <1>7, <2>1, PopExplained
    <3> QED
      BY <1>2, <1>3, <1>4, <1>7, <3>1, ViolatedCases DEF KnownAlarm
  <2>2. CASE ~log.seen
    <3>1. window = "LATE"
      <4>1. window # "WHOLE"
        BY <1>7, <2>2 DEF LInv, Remembered, TInv, NothingLearnt, HasFresh
      <4> QED
        BY <1>1, <4>1 DEF Snapshot
    <3>2. Invalidated(log, SendRow) = {}
      BY <2>2 DEF Invalidated
    <3> QED
      BY <1>2, <1>3, <1>4, <1>7, <2>2, <3>1, <3>2, ViolatedCases DEF KnownAlarm
  <2> QED
    BY <2>1, <2>2
<1> QED
  BY <1>3, <1>5, <1>6, <1>7, DrawCases

(* A fresh EV leaves, or there was none.                                   *)
LEMMA HealthyDraw ==
  ASSUME IInv, Draw, ~frozen, explore = 0
  PROVE  ring'.fresh = AfterPop(ring.fresh)
<1>1. RingOK(ring) /\ ring.fresh \in Nat /\ ring.fresh <= ring.count
  BY FreshWritten DEF IInv
<1>2. CASE ring' = ring /\ ~HasFresh(ring)
  BY <1>1, <1>2 DEF HasFresh, AfterPop
<1>3. CASE HasFresh(ring) /\ ring' = PopFresh(ring)
  BY <1>1, <1>3 DEF PopFresh, HasFresh, AfterPop
<1> QED
  BY <1>2, <1>3, DrawCases DEF MustGuess

(* The slot written last is the one behind head.                           *)
LEMMA AddNewest ==
  ASSUME NEW r, RingOK(r), NEW ev
  PROVE  LET q == Add(r, ev)
         IN q.valid[NewestSlot(q)] /\ q.value[NewestSlot(q)] = ev
<1> DEFINE n == RingSize
           h == r.head
           q == Add(r, ev)
<1>1. n \in Nat \ {0} /\ h \in 0 .. n - 1 /\ h \in Slots
      /\ r.value \in [Slots -> Ev] /\ r.valid \in [Slots -> BOOLEAN]
  BY RingAssumption DEF RingOK, Ring, Slots
<1>2. q.head = (h + 1) % n /\ q.value = [r.value EXCEPT ![h] = ev]
      /\ q.valid = [r.valid EXCEPT ![h] = TRUE]
  BY DEF Add
<1>3. NewestSlot(q) = (((h + 1) % n) + n - 1) % n
  BY <1>2 DEF NewestSlot
<1> HIDE DEF n, h, q
<1>4. (h + 1) % n = IF h + 1 = n THEN 0 ELSE h + 1
  BY <1>1, NextSlot
<1>5. NewestSlot(q) = h
  <2>1. CASE h + 1 = n
    <3>1. 0 \in 0 .. n - 1 /\ (0 + n - 1) % n = n - 1
      BY <1>1, PreviousSlot
    <3> QED
      BY <1>1, <1>3, <1>4, <2>1, <3>1
  <2>2. CASE h + 1 # n
    <3>1. h + 1 \in 0 .. n - 1 /\ h + 1 # 0
      BY <1>1, <2>2
    <3>2. (h + 1 + n - 1) % n = h + 1 - 1
      BY <1>1, <3>1, PreviousSlot
    <3> QED
      BY <1>1, <1>3, <1>4, <2>2, <3>1, <3>2
  <2> QED
    BY <2>1, <2>2
<1>6. q.valid[h] /\ q.value[h] = ev
  BY <1>1, <1>2
<1> QED
  BY <1>5, <1>6 DEF q

(* The C2 and C1.1 readings of a SEND row.                                 *)
LEMMA DrawExplained ==
  ASSUME LInv, Draw
  PROVE  Mismatched(log, SendRow) = {} /\ Mispredicted(log, SendRow) = {}
<1>1. IInv /\ RingOK(ring) /\ ring.fresh \in Nat /\ ring.fresh <= ring.count
  BY FreshWritten DEF LInv, TInv, IInv
<1>2. log.acked => log.ring = ring
  BY DEF LInv, Remembered, Snapshot
<1>3. SendRow.kind = "SEND" /\ SendRow.src = SourceStr(last'.src)
      /\ SendRow.ring = ring' /\ SendRow.frozen = frozen' /\ frozen' = frozen
  BY SendRowFields, DrawCases
<1>4. ASSUME log.acked, ~SendRow.frozen, SendRow.src = "fresh_pop"
      PROVE  ring'.fresh = ring.fresh - 1 /\ ring.fresh # 0
  <2>1. HasFresh(ring) /\ ring' = PopFresh(ring)
    BY <1>3, <1>4, DrawCases
  <2> QED
    BY <2>1 DEF HasFresh, PopFresh
<1>5. ASSUME log.acked, ~SendRow.frozen, SendRow.src = "random"
      PROVE  ring'.fresh = 0 /\ ring.fresh = 0
  <2>1. ring' = ring /\ MustGuess /\ ~frozen
    BY <1>3, <1>5, DrawCases
  <2> QED
    BY <1>1, <2>1 DEF MustGuess, HasFresh
<1>6. Mismatched(log, SendRow) = {}
  BY <1>2, <1>3, <1>4, <1>5 DEF Mismatched
<1>7. Mispredicted(log, SendRow) = {}
  <2>1. log.healthy /\ log.acked /\ log.lastK >= 0
          => AtMost(AfterPop(log.lastK) + log.acks, RingSize) = log.ring.fresh
    BY <1>2 DEF LInv, Predicted
  <2> QED
    BY <1>3, <2>1 DEF Mispredicted
<1> QED
  BY <1>6, <1>7

(* What the readers hold when they come to the row of the feedback itself. *)
Before == IF Thaws THEN Read(log, ThawRow) ELSE log

(* The columns of the row of a thaw, written before it.                    *)
LEMMA ThawRowFields ==
  /\ ThawRow.kind = "UNFREEZE" /\ ThawRow.src = "" /\ ThawRow.ring = EmptyRing
  /\ ThawRow.frozen = frozen'
<1> DEFINE e == Reset(ring)
           row == Row("UNFREEZE", "", -1, -1)
<1>1. ThawRow = [row EXCEPT !.ring = e]
  BY DEF ThawRow
<1>2. e = EmptyRing
  BY DEF Reset
<1> HIDE DEF e
<1> QED
  BY <1>1, <1>2 DEF Row

(* The UNFREEZE row fails no check.                                        *)
LEMMA BeforeFields ==
  ASSUME LInv, NEW ev \in Ev, NEW fb \in {"GOOD", "ECN", "NACK"}, Feedback(ev, fb)
  PROVE  /\ Before.failed = log.failed
         /\ Before.seen => Before.ring = IF Thaws THEN EmptyRing ELSE ring
         /\ Thaws => Before.seen /\ Before.epoch = "NONE" /\ ~Before.healthy
         /\ Before.acked <=> log.acked
<1>1. CASE ~Thaws
  BY <1>1 DEF Before, LInv, Snapshot
<1>2. CASE Thaws
  <2>1. Before = Read(log, ThawRow) /\ ~frozen'
    BY <1>2 DEF Before, Feedback
  <2>2. Violated(log, ThawRow) = {}
    <3>1. EmptyRing.fresh = Cardinality(ValidSlots(EmptyRing)) /\ ValidSlots(EmptyRing) = {}
      BY EmptyRingOK DEF RingOK, ValidSlots, EmptyRing
    <3> QED
      BY <2>1, <3>1, ThawRowFields, ViolatedCases
  <2>3. Mismatched(log, ThawRow) = {} /\ Mispredicted(log, ThawRow) = {}
    BY ThawRowFields DEF Mismatched, Mispredicted
  <2>4. ~log.healthy
    BY <1>2 DEF LInv, TInv, NeverFroze, Thaws
  <2>5. Before.failed = log.failed \cup Violated(log, ThawRow) \cup Mismatched(log, ThawRow)
                         \cup Mispredicted(log, ThawRow)
    BY <2>1, ReadMore
  <2>6. Before.seen = TRUE /\ Before.ring = EmptyRing
    BY <2>1, ReadMore, ThawRowFields
  <2>7. Before.epoch = Epoch(log, ThawRow) /\ Before.acked = Acked(log, ThawRow)
        /\ Before.healthy = (log.healthy /\ ThawRow.kind # "FREEZE")
    BY <2>1, ReadFields
  <2>8. Before.epoch = "NONE"
    BY <2>7, ThawRowFields DEF Epoch
  <2>9. Before.acked <=> log.acked
    BY <2>7, ThawRowFields DEF Acked
  <2>10. Before.failed = log.failed
    BY <2>2, <2>3, <2>5
  <2> QED
    BY <1>2, <2>4, <2>6, <2>7, <2>8, <2>9, <2>10
<1> QED
  BY <1>1, <1>2

(* An ACK or NACK row says what the feedback was.                          *)
LEMMA FeedbackRowFields ==
  ASSUME NEW ev, NEW fb \in {"GOOD", "ECN", "NACK"}
  PROVE  LET row == FeedbackRow(ev, fb) IN
         /\ row.src = "" /\ row.ev = ev /\ row.ring = ring' /\ row.frozen = frozen'
         /\ \/ fb = "GOOD" /\ row.kind = "ACK" /\ row.ecn = 0
            \/ fb = "ECN" /\ row.kind = "ACK" /\ row.ecn = 1
            \/ fb = "NACK" /\ row.kind = "NACK"
BY DEF FeedbackRow, Row

(* The checks on an ACK or NACK row.                                       *)
LEMMA FeedbackVerified ==
  ASSUME LInv, IInv', NEW ev \in Ev, NEW fb \in {"GOOD", "ECN", "NACK"}, Feedback(ev, fb),
         NEW c \in Violated(Before, FeedbackRow(ev, fb))
  PROVE  KnownAlarm(c)
<1> DEFINE row  == FeedbackRow(ev, fb)
           base == IF Thaws THEN EmptyRing ELSE ring
<1>1. /\ row.src = "" /\ row.ev = ev /\ row.ring = ring' /\ row.frozen = frozen'
      /\ \/ fb = "GOOD" /\ row.kind = "ACK" /\ row.ecn = 0
         \/ fb = "ECN" /\ row.kind = "ACK" /\ row.ecn = 1
         \/ fb = "NACK" /\ row.kind = "NACK"
  BY FeedbackRowFields
<1>2. ring' = IF fb = "GOOD" THEN Add(base, ev) ELSE base
  BY DEF Feedback, Reset
<1>3. Before.seen => Before.ring = base
  BY BeforeFields
<1>4. RingOK(base) /\ RingOK(ring')
  BY EmptyRingOK DEF LInv, TInv, IInv
<1>5. c \in Violated(Before, row)
  OBVIOUS
<1> HIDE DEF row, base
<1>6. row.ring.fresh = Cardinality(ValidSlots(row.ring))
  BY <1>1, <1>4 DEF RingOK
<1>7. row.frozen /\ FrozenValue(row.ring) # FrozenEv(row) => frozen' /\ IsEmpty(ring')
  BY <1>1, FrozenEvRight
<1>8. fb # "GOOD" => ~Moved(Before, row)
  BY <1>1, <1>2, <1>3 DEF Moved
<1>9. ASSUME fb = "GOOD"
      PROVE  /\ row.ring.valid[NewestSlot(row.ring)]
             /\ row.ring.value[NewestSlot(row.ring)] = row.ev
  <2>1. row.ring = Add(base, ev)
    BY <1>1, <1>2, <1>9
  <2>2. LET q == Add(base, ev) IN q.valid[NewestSlot(q)] /\ q.value[NewestSlot(q)] = ev
    BY <1>4, AddNewest
  <2> QED
    BY <1>1, <2>1, <2>2
<1>10. /\ row.kind = "ACK" /\ row.ecn = 0 => fb = "GOOD"
       /\ row.kind = "ACK" /\ row.ecn = 1 => fb # "GOOD"
       /\ row.kind = "NACK" => fb # "GOOD"
  <2>1. row.ecn = 0 => row.ecn # 1
    OBVIOUS
  <2> QED
    BY <1>1, <2>1
<1> QED
  BY <1>1, <1>5, <1>6, <1>7, <1>8, <1>9, <1>10, ViolatedCases DEF KnownAlarm

(* The C2 and C1 readings of an ACK or NACK row.                           *)
LEMMA FeedbackExplained ==
  ASSUME LInv, NEW ev \in Ev, NEW fb \in {"GOOD", "ECN", "NACK"}, Feedback(ev, fb)
  PROVE  /\ Mismatched(Before, FeedbackRow(ev, fb)) = {}
         /\ Mispredicted(Before, FeedbackRow(ev, fb)) = {}
<1> DEFINE row == FeedbackRow(ev, fb)
<1>1. /\ row.ring = ring'
      /\ \/ fb = "GOOD" /\ row.kind = "ACK" /\ row.ecn = 0
         \/ fb = "ECN" /\ row.kind = "ACK" /\ row.ecn = 1
         \/ fb = "NACK" /\ row.kind = "NACK"
  BY FeedbackRowFields
<1> SUFFICES Mismatched(Before, row) = {} /\ Mispredicted(Before, row) = {}
  OBVIOUS
<1> HIDE DEF row
<1>2. Mismatched(Before, row) = {}
  BY <1>1 DEF Mismatched
<1>3. CASE Before.healthy /\ Before.acked
  <2>1. ~Thaws /\ Before = log /\ log.healthy /\ log.acked
    BY <1>3, BeforeFields DEF Before
  <2>2. ~frozen /\ log.ring = ring /\ RingOK(ring) /\ Contiguous(ring)
    BY <2>1 DEF LInv, TInv, NeverFroze, IInv, Remembered, Snapshot
  <2>3. ring' = IF fb = "GOOD" THEN Add(ring, ev) ELSE ring
    BY <2>1 DEF Feedback
  <2>4. ring'.fresh = IF fb = "GOOD" THEN AtMost(ring.fresh + 1, RingSize) ELSE ring.fresh
    BY <2>2, <2>3, AddFresh
  <2>5. ring.fresh \in 0 .. RingSize /\ RingSize \in Nat
    BY <2>2, FreshWritten, RingAssumption
  <2>6. row.kind = "ACK" /\ row.ring.fresh - ring.fresh # 1 - row.ecn
          => row.ecn = 0 /\ row.ring.fresh - ring.fresh = 0 /\ ring.fresh >= RingSize
    <3>1. CASE fb = "GOOD"
      <4>1. row.ecn = 0 /\ row.ring.fresh = AtMost(ring.fresh + 1, RingSize)
        BY <1>1, <2>4, <3>1
      <4> QED
        BY <2>5, <4>1 DEF AtMost
    <3>2. CASE fb = "ECN"
      BY <1>1, <2>4, <2>5, <3>2
    <3>3. CASE fb = "NACK"
      BY <1>1, <3>3
    <3> QED
      BY <3>1, <3>2, <3>3
  <2>7. row.kind # "SEND"
    BY <1>1
  <2> QED
    BY <1>2, <2>1, <2>2, <2>6, <2>7 DEF Mispredicted
<1>4. CASE ~(Before.healthy /\ Before.acked)
  BY <1>2, <1>4 DEF Mispredicted
<1> QED
  BY <1>2, <1>3, <1>4

(* A FREEZE row says that the source has frozen.                           *)
FreezeRow == Row("FREEZE", "", -1, -1)

(* Its columns.                                                            *)
LEMMA FreezeRowFields ==
  /\ FreezeRow.kind = "FREEZE" /\ FreezeRow.src = ""
  /\ FreezeRow.ring = ring' /\ FreezeRow.frozen = frozen'
BY DEF FreezeRow, Row

(* The checks on a FREEZE row: only frozen_ev of an empty ring is wrong.   *)
LEMMA FreezeVerified ==
  ASSUME IInv', NEW c \in Violated(log, FreezeRow)
  PROVE  KnownAlarm(c)
<1>1. ring'.fresh = Cardinality(ValidSlots(ring'))
  BY DEF IInv, RingOK
<1>2. (FreezeRow.frozen /\ FrozenValue(FreezeRow.ring) # FrozenEv(FreezeRow))
        => frozen' /\ IsEmpty(ring')
  BY FreezeRowFields, FrozenEvRight
<1> QED
  BY <1>1, <1>2, FreezeRowFields, ViolatedCases DEF KnownAlarm

(* The readings of C1, C1.1 and C2 pass over it.                           *)
LEMMA FreezeExplained ==
  Mismatched(log, FreezeRow) = {} /\ Mispredicted(log, FreezeRow) = {}
BY FreezeRowFields DEF Mismatched, Mispredicted

-----------------------------------------------------------------------------
(* Every step keeps what the readers remember in agreement with the source.*)

(* Nothing is remembered before the first row.                             *)
LEMMA LInit == TracedInit => LInv
<1> SUFFICES ASSUME TracedInit PROVE LInv
  OBVIOUS
<1>1. /\ ~log.seen /\ ~log.acked /\ log.epoch = "NONE" /\ log.lastK = -1 /\ log.acks = 0
      /\ window \in {"SHUT", "WHOLE"}
  BY DEF TracedInit, NoRows
<1>2. Snapshot
  BY <1>1 DEF Snapshot
<1>3. Remembered
  BY <1>1 DEF Remembered
<1>4. EpochSound
  BY <1>1 DEF EpochSound, OutcomeMatchesDraws
<1>5. Predicted
  BY <1>1 DEF Predicted
<1> QED
  BY TInit, <1>2, <1>3, <1>4, <1>5 DEF LInv

(* Before the log window opens the source changes and the readers do not.  *)
LEMMA ShutKeeps ==
  ASSUME LInv, window = "SHUT", log' = log, window' \in {"SHUT", "LATE"}
  PROVE  Snapshot' /\ Remembered' /\ EpochSound' /\ Predicted'
<1>1. ~log.seen /\ ~log.acked /\ log.epoch = "NONE" /\ ~(log.lastK >= 0) /\ Remembered
  BY DEF LInv, Snapshot, Remembered
<1>2. Snapshot'
  BY <1>1 DEF Snapshot
<1>3. Remembered'
  BY <1>1 DEF Remembered
<1>4. EpochSound'
  BY <1>1 DEF EpochSound, OutcomeMatchesDraws
<1>5. Predicted'
  BY <1>1 DEF Predicted
<1> QED
  BY <1>2, <1>3, <1>4, <1>5

(* A SEND row moves an open epoch to what the draw was.                    *)
LEMMA DrawEpoch ==
  ASSUME LInv, Draw, log'.epoch = Epoch(log, SendRow)
  PROVE  EpochSound'
<1>1. IInv /\ Snapshot /\ EpochSound /\ Remembered /\ ring.count \in Nat
  BY DEF LInv, TInv, IInv, TypeOK, Ring
<1>2. SendRow.kind = "SEND" /\ SendRow.frozen = frozen /\ frozen' = frozen
  BY SendRowFields, DrawCases
<1>3. CASE log.epoch = "NONE" \/ ~frozen
  <2>1. log'.epoch = log.epoch /\ log'.epoch \in {"NONE", "no_stale_draws"}
    BY <1>1, <1>2, <1>3 DEF Epoch, EpochSound
  <2> QED
    BY <2>1 DEF EpochSound, OutcomeMatchesDraws
<1>4. CASE log.epoch # "NONE" /\ frozen
  <2>1. log.seen /\ Class(log, SendRow) = Committed(last'.src)
    BY <1>1, <1>4, ClassRight DEF Remembered
  <2>2. log'.epoch = IF Class(log, SendRow) = "stale" THEN "stale_until_unfreeze"
                     ELSE IF log.epoch = "no_stale_draws" THEN log.epoch
                     ELSE "cleared_before_unfreeze"
    BY <1>2, <1>4 DEF Epoch
  <2>3. explore = 0
    BY <1>1, <1>4, BufferAssumption DEF IInv, NeverFrozenExploring, TypeOK
  <2>4. CASE IsEmpty(ring)
    <3>1. last'.src \in {"EXPLORE", "RANDOM", "REPLAY"}
      BY <1>4, <2>3, <2>4, DrawCases
    <3>2. Class(log, SendRow) # "stale"
      BY <2>1, <3>1 DEF Committed
    <3>3. log.epoch = "no_stale_draws"
      BY <1>1, <1>4, <2>4 DEF EpochSound, IsEmpty
    <3>4. log'.epoch = "no_stale_draws"
      BY <2>2, <3>2, <3>3
    <3> QED
      BY <3>4 DEF EpochSound, OutcomeMatchesDraws
  <2>5. CASE ~IsEmpty(ring)
    <3>1. ring' = PopFrozen(ring) /\ last'.src \in {"VALID", "STALE"}
      BY <1>4, <2>3, <2>5, DrawCases DEF MustGuess
    <3>2. ring'.count > 0
      BY <1>1, <2>5, <3>1 DEF PopFrozen, IsEmpty
    <3>3. /\ Class(log, SendRow) = "stale" <=> last'.src = "STALE"
      BY <2>1, <3>1 DEF Committed
    <3>4. \/ log'.epoch = "no_stale_draws"
          \/ log'.epoch = "stale_until_unfreeze" /\ last'.src = "STALE"
          \/ log'.epoch = "cleared_before_unfreeze" /\ last'.src = "VALID"
      BY <2>2, <3>1, <3>3
    <3> QED
      BY <1>2, <1>4, <3>2, <3>4 DEF EpochSound, OutcomeMatchesDraws
  <2> QED
    BY <2>4, <2>5
<1> QED
  BY <1>3, <1>4

(* A draw and its SEND row.                                                *)
LEMMA LogDrawKeeps ==
  ASSUME LInv, TracedDraw
  PROVE  Snapshot' /\ Remembered' /\ EpochSound' /\ Predicted'
<1>1. Draw /\ window' = window /\ log' = IF window = "SHUT" THEN log ELSE Read(log, SendRow)
  BY DEF TracedDraw, Write, SendRow
<1>2. CASE window = "SHUT"
  BY <1>1, <1>2, ShutKeeps
<1>3. CASE window # "SHUT"
  <2>1. log' = Read(log, SendRow) /\ SendRow.kind = "SEND" /\ SendRow.ring = ring'
    BY <1>1, <1>3, SendRowFields
  <2>2. /\ log'.seen = TRUE /\ log'.ring = ring'
        /\ log'.lastK = IF ~log'.healthy THEN -1
                        ELSE IF log.acked THEN log.ring.fresh ELSE log.lastK
        /\ log'.acks = IF ~log'.healthy \/ log.acked THEN 0 ELSE log.acks
    BY <2>1, ReadMore
  <2>3. /\ log'.epoch = Epoch(log, SendRow) /\ log'.acked = Acked(log, SendRow)
        /\ log'.healthy = (log.healthy /\ SendRow.kind # "FREEZE")
    BY <2>1, ReadFields
  <2>4. (log'.acked <=> log.acked) /\ (log'.healthy <=> log.healthy)
    BY <2>1, <2>3 DEF Acked
  <2>5. Snapshot'
    BY <1>1, <1>3, <2>2 DEF Snapshot, LInv
  <2>6. log.acked => log.ring = ring
    BY DEF LInv, Remembered, Snapshot
  <2>7. RingOK(ring) /\ ring.fresh \in 0 .. RingSize /\ ring.fresh \in Nat
    BY FreshWritten DEF LInv, TInv, IInv, RingOK, Ring
  <2>8. Remembered'
    <3>1. CASE log'.healthy /\ log.acked
      BY <2>2, <2>4, <2>6, <2>7, <3>1 DEF Remembered
    <3>2. CASE log'.healthy /\ ~log.acked
      BY <2>2, <2>4, <3>2 DEF LInv, Remembered
    <3>3. CASE ~log'.healthy
      BY <2>2, <3>3 DEF Remembered
    <3> QED
      BY <3>1, <3>2, <3>3
  <2>9. Predicted'
    <3> SUFFICES ASSUME log'.healthy, log'.lastK >= 0
                 PROVE  ring'.fresh = AtMost(AfterPop(log'.lastK) + log'.acks, RingSize)
      BY DEF Predicted
    <3>1. log.acked
      BY <2>2, <2>4 DEF LInv, Remembered
    <3>2. log'.lastK = ring.fresh /\ log'.acks = 0
      BY <2>2, <2>6, <3>1
    <3>3. ~frozen /\ explore = 0 /\ IInv
      BY <2>4 DEF LInv, TInv, NeverFroze
    <3>4. ring'.fresh = AfterPop(ring.fresh)
      BY <1>1, <3>3, HealthyDraw
    <3> QED
      BY <2>7, <3>2, <3>4, RingAssumption DEF AtMost, AfterPop
  <2> QED
    BY <1>1, <2>3, <2>5, <2>8, <2>9, DrawEpoch
<1> QED
  BY <1>2, <1>3

(* min(B, k + acks) moves with k, one clean ACK at a time.                 *)
LEMMA OneMoreAck ==
  ASSUME NEW a \in Nat, NEW m \in Nat
  PROVE  AtMost(AtMost(a + m, RingSize) + 1, RingSize)
           = AtMost(a + AtMost(m + 1, RingSize), RingSize)
BY RingAssumption DEF AtMost

(* Feedback, with the UNFREEZE row of a thaw before the row of its own.    *)
LEMMA LogFeedbackKeeps ==
  ASSUME LInv, NEW ev \in Ev, NEW fb \in {"GOOD", "ECN", "NACK"}, TracedFeedback(ev, fb)
  PROVE  Snapshot' /\ Remembered' /\ EpochSound' /\ Predicted'
<1> DEFINE row == FeedbackRow(ev, fb)
<1>1. /\ Feedback(ev, fb) /\ window' = window
      /\ log' = IF window = "SHUT" THEN log ELSE Read(Before, row)
  BY DEF TracedFeedback, Write, Before
<1>2. CASE window = "SHUT"
  BY <1>1, <1>2, ShutKeeps
<1>3. CASE window # "SHUT"
  <2>1. /\ row.ring = ring'
        /\ \/ fb = "GOOD" /\ row.kind = "ACK" /\ row.ecn = 0
           \/ fb = "ECN" /\ row.kind = "ACK" /\ row.ecn = 1
           \/ fb = "NACK" /\ row.kind = "NACK"
    BY FeedbackRowFields
  <2> HIDE DEF row
  <2>2. log' = Read(Before, row)
    BY <1>1, <1>3
  <2>3. /\ log'.seen = TRUE /\ log'.ring = ring'
        /\ log'.lastK = IF ~log'.healthy THEN -1 ELSE Before.lastK
        /\ log'.acks = IF ~log'.healthy THEN 0
                       ELSE IF row.kind = "ACK" /\ row.ecn = 0 /\ Before.acked
                            THEN AtMost(Before.acks + 1, RingSize) ELSE Before.acks
    <3>1. row.kind # "SEND"
      BY <2>1
    <3> QED
      BY <2>1, <2>2, <3>1, ReadMore
  <2>4. /\ log'.epoch = Epoch(Before, row) /\ log'.acked = Acked(Before, row)
        /\ log'.healthy = (Before.healthy /\ row.kind # "FREEZE")
    BY <2>2, ReadFields
  <2>5. Snapshot'
    BY <1>1, <1>3, <2>3 DEF Snapshot, LInv
  <2>6. /\ Thaws => Before.epoch = "NONE" /\ ~Before.healthy
        /\ ~Thaws => Before = log
        /\ Before.acked <=> log.acked
    BY <1>1, BeforeFields DEF Before
  <2>7. log'.epoch = Before.epoch
    BY <2>1, <2>4 DEF Epoch
  <2>8. log'.healthy => ~Thaws /\ Before = log /\ log.healthy
    BY <2>4, <2>6
  <2>9. RingOK(ring) /\ ring.count \in 0 .. RingSize /\ RingSize \in Nat \ {0}
    BY RingAssumption DEF LInv, TInv, IInv, RingOK, Ring
  <2>10. ~Thaws => /\ frozen' = frozen
                   /\ ring' = IF fb = "GOOD" THEN Add(ring, ev) ELSE ring
    <3>1. frozen \in BOOLEAN
      BY DEF LInv, TInv, IInv, TypeOK
    <3> QED
      BY <1>1, <3>1 DEF Feedback
  <2>11. last' = last
    BY <1>1 DEF Feedback
  <2>12. EpochSound'
    <3>1. CASE Thaws
      BY <2>6, <2>7, <3>1 DEF EpochSound, OutcomeMatchesDraws
    <3>2. CASE ~Thaws
      <4>1. log'.epoch = log.epoch /\ frozen' = frozen
        BY <2>6, <2>7, <2>10, <3>2
      <4>2. ring.count > 0 => ring'.count > 0
        <5>1. Add(ring, ev).count = AtMost(ring.count + 1, RingSize)
          BY DEF Add
        <5>2. ring.count > 0 => AtMost(ring.count + 1, RingSize) > 0
          BY <2>9 DEF AtMost
        <5> QED
          BY <2>10, <3>2, <5>1, <5>2
      <4> QED
        BY <2>11, <4>1, <4>2 DEF LInv, EpochSound, OutcomeMatchesDraws
    <3> QED
      BY <3>1, <3>2
  <2>13. Remembered'
    <3>1. CASE log'.healthy
      <4>1. Before = log /\ log'.lastK = log.lastK
        BY <2>3, <2>8, <3>1
      <4>2. log'.acks \in Nat
        BY <2>3, <2>9, <3>1, <4>1 DEF LInv, Remembered, AtMost
      <4>3. log.acked => log'.acked
        BY <2>4, <4>1 DEF Acked
      <4> QED
        BY <2>3, <4>1, <4>2, <4>3 DEF LInv, Remembered
    <3>2. CASE ~log'.healthy
      BY <2>3, <3>2 DEF Remembered
    <3> QED
      BY <3>1, <3>2
  <2>14. Predicted'
    <3> SUFFICES ASSUME log'.healthy, log'.lastK >= 0
                 PROVE  ring'.fresh = AtMost(AfterPop(log'.lastK) + log'.acks, RingSize)
      BY DEF Predicted
    <3>1. ~Thaws /\ Before = log /\ log.healthy /\ log'.lastK = log.lastK
      BY <2>3, <2>8
    <3>2. log.acked /\ ~frozen /\ Contiguous(ring) /\ log.acks \in Nat /\ log.lastK \in Nat
      BY <3>1 DEF LInv, TInv, NeverFroze, IInv, Remembered
    <3>3. ring.fresh = AtMost(AfterPop(log.lastK) + log.acks, RingSize)
      BY <3>1 DEF LInv, Predicted
    <3>4. CASE fb = "GOOD"
      <4>1. ring'.fresh = AtMost(ring.fresh + 1, RingSize)
        BY <2>9, <2>10, <3>1, <3>2, <3>4, AddFresh
      <4>2. log'.acks = AtMost(log.acks + 1, RingSize)
        BY <2>1, <2>3, <3>1, <3>2, <3>4
      <4>3. AfterPop(log.lastK) \in Nat
        BY <3>2 DEF AfterPop
      <4> QED
        BY <3>1, <3>2, <3>3, <4>1, <4>2, <4>3, OneMoreAck
    <3>5. CASE fb # "GOOD"
      <4>1. row.ecn = 1 => row.ecn # 0
        OBVIOUS
      <4>2. log'.acks = log.acks
        BY <2>1, <2>3, <3>1, <3>5, <4>1
      <4> QED
        BY <2>10, <3>1, <3>3, <3>5, <4>2
    <3> QED
      BY <3>4, <3>5
  <2> QED
    BY <2>5, <2>12, <2>13, <2>14
<1> QED
  BY <1>2, <1>3

(* A freeze and its FREEZE row.                                            *)
LEMMA LogTimeoutKeeps ==
  ASSUME LInv, NEW lowRtt \in BOOLEAN, TracedTimeout(lowRtt)
  PROVE  Snapshot' /\ Remembered' /\ EpochSound' /\ Predicted'
<1>1. /\ Timeout(lowRtt) /\ window' = window
      /\ log' = IF window = "SHUT" THEN log ELSE Read(log, FreezeRow)
  BY DEF TracedTimeout, Write, FreezeRow
<1>2. CASE window = "SHUT"
  BY <1>1, <1>2, ShutKeeps
<1>3. CASE window # "SHUT"
  <2>1. log' = Read(log, FreezeRow) /\ FreezeRow.kind = "FREEZE" /\ FreezeRow.ring = ring'
    BY <1>1, <1>3, FreezeRowFields
  <2>2. /\ log'.epoch = Epoch(log, FreezeRow)
        /\ log'.healthy = (log.healthy /\ FreezeRow.kind # "FREEZE")
    BY <2>1, ReadFields
  <2>3. log'.epoch = "no_stale_draws" /\ ~log'.healthy
    BY <2>1, <2>2 DEF Epoch
  <2>4. log'.seen = TRUE /\ log'.ring = ring' /\ log'.lastK = -1 /\ log'.acks = 0
    BY <2>1, <2>3, ReadMore
  <2>5. Snapshot'
    BY <1>1, <1>3, <2>4 DEF Snapshot, LInv
  <2>6. Remembered'
    BY <2>4 DEF Remembered
  <2>7. EpochSound' /\ Predicted'
    BY <2>3 DEF EpochSound, OutcomeMatchesDraws, Predicted
  <2> QED
    BY <2>5, <2>6, <2>7
<1> QED
  BY <1>2, <1>3

(* So every step keeps it.                                                 *)
LEMMA LNextKeeps == LInv /\ [TracedNext]_tvars => LInv'
<1> SUFFICES ASSUME LInv, [TracedNext]_tvars PROVE LInv'
  OBVIOUS
<1>1. TInv'
  BY TracedNextKeeps DEF LInv
<1>2. CASE UNCHANGED tvars \/ Unlogged
  <2>1. /\ window' = window /\ log' = log /\ ring' = ring /\ last' = last /\ frozen' = frozen
    BY <1>2 DEF tvars, Unlogged, DeadlinePasses
  <2>2. Snapshot' /\ Remembered'
    BY <2>1 DEF LInv, Snapshot, Remembered
  <2>3. EpochSound' /\ Predicted'
    BY <2>1 DEF LInv, EpochSound, OutcomeMatchesDraws, Predicted
  <2> QED
    BY <1>1, <2>2, <2>3 DEF LInv
<1>3. CASE OpenWindow
  BY <1>1, <1>3, ShutKeeps DEF OpenWindow, LInv
<1>4. CASE TracedDraw
  BY <1>1, <1>4, LogDrawKeeps DEF LInv
<1>5. ASSUME NEW ev \in Ev, NEW fb \in {"GOOD", "ECN", "NACK"}, TracedFeedback(ev, fb)
      PROVE  LInv'
  BY <1>1, <1>5, LogFeedbackKeeps DEF LInv
<1>6. ASSUME NEW lowRtt \in BOOLEAN, TracedTimeout(lowRtt) PROVE LInv'
  BY <1>1, <1>6, LogTimeoutKeeps DEF LInv
<1> QED
  BY <1>2, <1>3, <1>4, <1>5, <1>6 DEF TracedNext

(* It holds in every reachable state.                                      *)
LEMMA AlwaysL == TracedSpec => []LInv
<1> QED
  BY LInit, LNextKeeps, PTL DEF TracedSpec

-----------------------------------------------------------------------------
(* An epoch that drain.py closes as stale had a stale draw last, and one   *)
(* that it closes as cleared a draw of a valid EV.                         *)
THEOREM OutcomesAreRight == TracedSpec => []OutcomeMatchesDraws
<1>1. LInv => OutcomeMatchesDraws
  BY DEF LInv, EpochSound
<1> QED
  BY <1>1, AlwaysL, PTL

(* classify() of send_occupancy.py gives every draw the class the source   *)
(* counted it under, whatever was logged before.                           *)
THEOREM ClassesAreRight == TracedSpec => DrawClassMatches
<1>1. LInv /\ [TracedNext]_tvars
        => [(Draw /\ log.seen) =>
              Class(log, Row("SEND", SourceStr(last'.src), last'.ev, -1)) = Committed(last'.src)]_tvars
  BY ClassRight DEF LInv, TInv, SendRow
<1> QED
  BY <1>1, AlwaysL, PTL DEF TracedSpec, DrawClassMatches

(* A row that adds no failed check but the known ones.                     *)
LEMMA RowAlarms ==
  ASSUME NEW l, NEW row, log' = Read(l, row), l.failed = log.failed,
         Mismatched(l, row) = {}, Mispredicted(l, row) = {},
         \A c \in Violated(l, row) : KnownAlarm(c)
  PROVE  \A c \in log'.failed \ log.failed : KnownAlarm(c)
<1>1. log'.failed = l.failed \cup Violated(l, row) \cup Mismatched(l, row)
                      \cup Mispredicted(l, row)
  BY ReadMore
<1> QED
  BY <1>1

(* --verify, C1, C1.1 and C2 find nothing in a trace of this source but    *)
(* frozen_ev of an empty ring and the first pop of a late window.          *)
THEOREM OnlyKnown == TracedSpec => OnlyKnownAlarms
<1>1. LInv /\ LInv' /\ [TracedNext]_tvars
        => [\A c \in log'.failed \ log.failed :
              \/ c = "frozenEv" /\ frozen' /\ IsEmpty(ring')
              \/ c = "pop" /\ window = "LATE" /\ ~log.seen]_tvars
  <2> SUFFICES ASSUME LInv, LInv', TracedNext
               PROVE  \A c \in log'.failed \ log.failed : KnownAlarm(c)
    BY DEF KnownAlarm
  <2>1. IInv'
    BY DEF LInv, TInv
  <2>2. CASE log' = log
    BY <2>2
  <2>3. CASE TracedDraw
    <3>1. Draw /\ log' = IF window = "SHUT" THEN log ELSE Read(log, SendRow)
      BY <2>3 DEF TracedDraw, Write, SendRow
    <3>2. CASE window # "SHUT"
      <4>1. \A c \in Violated(log, SendRow) : KnownAlarm(c)
        BY <2>1, <3>1, <3>2, DrawVerified
      <4> QED
        BY <3>1, <3>2, <4>1, DrawExplained, RowAlarms
    <3> QED
      BY <2>2, <3>1, <3>2
  <2>4. ASSUME NEW ev \in Ev, NEW fb \in {"GOOD", "ECN", "NACK"}, TracedFeedback(ev, fb)
        PROVE  \A c \in log'.failed \ log.failed : KnownAlarm(c)
    <3>1. /\ Feedback(ev, fb)
          /\ log' = IF window = "SHUT" THEN log ELSE Read(Before, FeedbackRow(ev, fb))
      BY <2>4 DEF TracedFeedback, Write, Before
    <3>2. CASE window # "SHUT"
      <4>1. \A c \in Violated(Before, FeedbackRow(ev, fb)) : KnownAlarm(c)
        BY <2>1, <3>1, FeedbackVerified
      <4>2. Before.failed = log.failed
        BY <3>1, BeforeFields
      <4>3. /\ Mismatched(Before, FeedbackRow(ev, fb)) = {}
            /\ Mispredicted(Before, FeedbackRow(ev, fb)) = {}
        BY <3>1, FeedbackExplained
      <4> QED
        BY <3>1, <3>2, <4>1, <4>2, <4>3, RowAlarms
    <3> QED
      BY <2>2, <3>1, <3>2
  <2>5. ASSUME NEW lowRtt \in BOOLEAN, TracedTimeout(lowRtt)
        PROVE  \A c \in log'.failed \ log.failed : KnownAlarm(c)
    <3>1. log' = IF window = "SHUT" THEN log ELSE Read(log, FreezeRow)
      BY <2>5 DEF TracedTimeout, Write, FreezeRow
    <3>2. CASE window # "SHUT"
      <4>1. \A c \in Violated(log, FreezeRow) : KnownAlarm(c)
        BY <2>1, FreezeVerified
      <4> QED
        BY <3>1, <3>2, <4>1, FreezeExplained, RowAlarms
    <3> QED
      BY <2>2, <3>1, <3>2
  <2>6. CASE Unlogged \/ OpenWindow
    BY <2>2, <2>6 DEF Unlogged, OpenWindow
  <2> QED
    BY <2>3, <2>4, <2>5, <2>6 DEF TracedNext
<1> QED
  BY <1>1, AlwaysL, PTL DEF TracedSpec, OnlyKnownAlarms
=============================================================================
