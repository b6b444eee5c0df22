----------------------------- MODULE RepsBuffer -----------------------------
(***************************************************************************)
(* The FREEZING load balancer of one sender (UecSrc): how it draws the EV  *)
(* of the next packet, learns from feedback, freezes on a retransmission   *)
(* timeout and thaws on the first feedback after its deadline.             *)
(*                                                                         *)
(* Simulated time appears only as "the deadline can_exit_frozen_mode is    *)
(* past" (exitDue).  rand() is a free choice among the EVs.                *)
(***************************************************************************)
EXTENDS RepsRing

CONSTANTS
  UseFreezing,   \* repsUseFreezing
  TrimDisabled,  \* _trim_disbled
  SoftReplay,    \* _reps_soft_replay
  NoFilter,      \* _reps_soft_replay_no_filter
  Burst          \* _bdp / _mtu, the random draws after a thaw

ASSUME BufferAssumption ==
  /\ {UseFreezing, TrimDisabled, SoftReplay, NoFilter} \subseteq BOOLEAN
  /\ Burst \in Nat

VARIABLES
  ring,     \* *circular_buffer_reps
  frozen,   \* frozen_mode
  exitDue,  \* now > can_exit_frozen_mode
  explore,  \* explore_counter
  cursor,   \* _soft_replay_cursor
  evEcn,    \* _soft_replay_ev_ecn
  last,     \* the last draw: its _last_ev_source and its EV
  sent,     \* history: EVs that some packet of the flow carried
  learnt    \* history: EVs with PATH_GOOD feedback since the last reset

vars == <<ring, frozen, exitDue, explore, cursor, evEcn, last, sent, learnt>>

Source == {"NONE", "EXPLORE", "RANDOM", "REPLAY", "FRESH_POP", "VALID", "STALE"}

TypeOK ==
  /\ ring    \in Ring
  /\ frozen  \in BOOLEAN
  /\ exitDue \in BOOLEAN
  /\ explore \in 0 .. Burst
  /\ cursor  \in Ev
  /\ evEcn   \in [Ev -> BOOLEAN]
  /\ last    \in [src : Source, ev : Ev]
  /\ sent    \subseteq Ev
  /\ learnt  \subseteq Ev

Init ==
  /\ ring    = EmptyRing
  /\ frozen  = FALSE
  /\ exitDue = FALSE
  /\ explore = 0
  /\ cursor  = 0
  /\ evEcn   = [e \in Ev |-> FALSE]
  /\ last    = [src |-> "NONE", ev |-> 0]
  /\ sent    = {}
  /\ learnt  = {}

-----------------------------------------------------------------------------
(* nextEntropy_freezing(): one draw for one packet, in the code's order.   *)

Drawn(src, ev) ==
  /\ last' = [src |-> src, ev |-> ev]
  /\ sent' = sent \cup {ev}
  /\ UNCHANGED <<frozen, exitDue, evEcn, learnt>>

DrawExplore(ev) ==
  /\ explore > 0
  /\ explore' = explore - 1
  /\ Drawn("EXPLORE", ev)
  /\ UNCHANGED <<ring, cursor>>

DrawFrozen ==
  /\ explore = 0 /\ frozen /\ ~IsEmpty(ring)
  /\ ring' = PopFrozen(ring)
  /\ Drawn(IF FrozenValid(ring) THEN "VALID" ELSE "STALE", FrozenValue(ring))
  /\ UNCHANGED <<explore, cursor>>

DrawFresh ==
  /\ explore = 0 /\ ~frozen /\ HasFresh(ring)
  /\ ring' = PopFresh(ring)
  /\ Drawn("FRESH_POP", FreshValue(ring))
  /\ UNCHANGED <<explore, cursor>>

(* Nothing to recycle: frozen with an empty ring, or no fresh EV.          *)
MustGuess == explore = 0 /\ IF frozen THEN IsEmpty(ring) ELSE ~HasFresh(ring)

DrawRandom(ev) ==
  /\ MustGuess
  /\ Drawn("RANDOM", ev)
  /\ UNCHANGED <<ring, explore, cursor>>   \* a replay that finds nothing turns cursor fully

(* The candidates of the soft replay, in cursor order, and the first one   *)
(* that is healthy and found in the ring.  r < p is a free choice.         *)
Replayable(ev) == (NoFilter \/ ~evEcn[ev]) /\ ContainsEntropy(ring, ev)
Ahead(ev) == (ev + Paths - cursor) % Paths

DrawReplay(ev) ==
  /\ SoftReplay /\ MustGuess /\ ~frozen /\ ~IsEmpty(ring)
  /\ Replayable(ev)
  /\ \A other \in Ev : Replayable(other) => Ahead(ev) <= Ahead(other)
  /\ cursor' = (ev + 1) % Paths
  /\ Drawn("REPLAY", ev)
  /\ UNCHANGED <<ring, explore>>

Draw ==
  \/ \E ev \in Ev : DrawExplore(ev) \/ DrawRandom(ev) \/ DrawReplay(ev)
  \/ DrawFrozen
  \/ DrawFresh

-----------------------------------------------------------------------------
(* processEv_freezing(), called by processAck() (GOOD or ECN) and by       *)
(* processNack() (NACK) with the EV the acknowledged packet carried.       *)

ThawsWhenEmpty == frozen /\ exitDue /\ IsEmpty(ring)
Thaws == frozen /\ exitDue

Feedback(ev, fb) ==
  LET base == IF Thaws THEN Reset(ring) ELSE ring
      kept == IF Thaws THEN {} ELSE learnt
  IN /\ ev \in sent
     /\ evEcn'   = IF fb = "NACK" THEN evEcn ELSE [evEcn EXCEPT ![ev] = (fb = "ECN")]
     /\ frozen'  = (frozen /\ ~Thaws)
     /\ exitDue' = (exitDue /\ ~Thaws)
     /\ explore' = IF Thaws THEN Burst ELSE explore
     /\ ring'    = IF fb = "GOOD" THEN Add(base, ev) ELSE base
     /\ learnt'  = IF fb = "GOOD" THEN kept \cup {ev} ELSE kept
     /\ UNCHANGED <<cursor, last, sent>>

(* rtxTimerExpired(): freeze unless frozen or exploring already; without   *)
(* trimming only if the recent RTTs stayed low, which is a free choice.    *)
Timeout(lowRtt) ==
  /\ sent # {}
  /\ ~frozen /\ explore = 0
  /\ TrimDisabled => lowRtt
  /\ frozen'  = UseFreezing
  /\ exitDue' = FALSE
  /\ UNCHANGED <<ring, explore, cursor, evEcn, last, sent, learnt>>

(* Simulated time passes can_exit_frozen_mode.                             *)
DeadlinePasses ==
  /\ frozen /\ ~exitDue
  /\ exitDue' = TRUE
  /\ UNCHANGED <<ring, frozen, explore, cursor, evEcn, last, sent, learnt>>

SomeFeedback == \E ev \in Ev, fb \in {"GOOD", "ECN", "NACK"} : Feedback(ev, fb)

Next ==
  \/ Draw
  \/ SomeFeedback
  \/ \E lowRtt \in BOOLEAN : Timeout(lowRtt)
  \/ DeadlinePasses

Spec == Init /\ [][Next]_vars

(* The sender keeps sending; feedback may stop for good.                   *)
SendingSpec == Spec /\ WF_vars(Draw)

-----------------------------------------------------------------------------
(* predictWindowForNextEntropy_freezing() and evSourceToWindowTag(): the   *)
(* window the next draw is charged to, and the one the last draw belongs   *)
(* to ("SAFE" for an EV known to be good, "RANDOM" otherwise).             *)

PredictedTagIgnoresSlot ==
  IF explore > 0 THEN "RANDOM"
  ELSE IF frozen THEN IF IsEmpty(ring) THEN "RANDOM" ELSE "SAFE"
       ELSE IF HasFresh(ring) THEN "SAFE" ELSE "RANDOM"
PredictedTag ==
  IF explore > 0 THEN "RANDOM"
  ELSE IF frozen
       THEN IF ~IsEmpty(ring) /\ FrozenValid(ring) THEN "SAFE" ELSE "RANDOM"
       ELSE IF HasFresh(ring) THEN "SAFE" ELSE "RANDOM"

TagOf(src) == CASE src \in {"FRESH_POP", "VALID"} -> "SAFE"
                [] src = "NONE"                   -> "NONE"
                [] OTHER                          -> "RANDOM"

(* Every draw is charged to the window the read-only predictor announced,  *)
(* whatever the mode: _dual_predict_mismatch_count stays 0.                *)
PredictorMatchesDraw == [][Draw => TagOf(last'.src) = PredictedTag]_vars

-----------------------------------------------------------------------------
(* number_fresh_entropies counts the valid slots exactly, across wraps of  *)
(* head, overwrites of valid slots and frozen pops in the middle.          *)
FreshCountExact == ring.fresh = Cardinality(ValidSlots(ring))

(* Steps back from head to slot i, 0 for the slot written last.            *)
Back(r, i) == IF i < r.head THEN r.head - 1 - i ELSE r.head - 1 - i + RingSize

(* Outside frozen mode the valid slots are the fresh ones right behind     *)
(* head; remove_earliest_fresh() finds its slot by that arithmetic alone   *)
(* and never looks at isValid.                                             *)
FreshBehindHead ==
  ~frozen => \A i \in Slots : ring.valid[i] <=> Back(ring, i) < ring.fresh

Written(r, i) == i < r.count

(* The frozen cursor stays on written slots, though frozen pops reduce it  *)
(* modulo a count that feedback keeps moving and a thaw resets.            *)
FrozenHeadWritten == ring.count > 0 => Written(ring, ring.frozenHead)

(* Every written slot holds an EV acknowledged since the last reset: what  *)
(* was learnt before a thaw is never recycled after it, and a frozen       *)
(* source only cycles EVs it saw working.                                  *)
WrittenSlotsLearnt == \A i \in Slots : Written(ring, i) => ring.value[i] \in learnt

(* A source that freezes is never still exploring, and one that explores   *)
(* is not frozen: a timeout inside the burst does not freeze it.           *)
NeverFrozenExploring == ~(frozen /\ explore > 0)

(* The books of the ring: its one counter, its two heads and its flags     *)
(* agree with what the slots hold, in every order of draws, late feedback, *)
(* timeouts and thaws.                                                     *)
RingSound ==
  /\ TypeOK
  /\ FreshCountExact
  /\ FreshBehindHead
  /\ FrozenHeadWritten
  /\ WrittenSlotsLearnt
  /\ NeverFrozenExploring

-----------------------------------------------------------------------------
(* While frozen, every written slot comes up again, even if no feedback    *)
(* ever thaws the source: no EV known to be good is starved by the cursor. *)
FrozenRotation ==
  \A i \in Slots :
    (frozen /\ Written(ring, i)) ~> (~frozen \/ ring.frozenHead = i)

(* A frozen source thaws, as long as time passes and feedback of any kind  *)
(* keeps reaching it.                                                      *)
EventuallyThaws ==
  WF_vars(DeadlinePasses) /\ WF_vars(SomeFeedback) => (frozen ~> ~frozen)

-----------------------------------------------------------------------------
(* Refinement of EvRecycler: the ring read as queues, oldest EV first.     *)

KnownSeq ==
  [i \in 1 .. ring.count |->
     ring.value[(ring.head + RingSize - ring.count + i - 1) % RingSize]]

FreshSeq ==
  IF frozen THEN << >>
  ELSE [i \in 1 .. ring.fresh |-> ring.value[(FreshSlot(ring) + i - 1) % RingSize]]

DrawnKind == [kind |-> IF last.src \in {"FRESH_POP", "VALID", "STALE"}
                       THEN "RECYCLED" ELSE "GUESS",
              ev   |-> last.ev]

Recycler == INSTANCE EvRecycler
              WITH Capacity <- RingSize, known <- KnownSeq, fresh <- FreshSeq,
                   drawn <- DrawnKind

(* The ring implements the abstract recycler.                              *)
ImplementsRecycler == Recycler!Spec
=============================================================================
