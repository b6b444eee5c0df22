----------------------------- MODULE RepsTrace -----------------------------
(***************************************************************************)
(* The event trace of a FREEZING source (logRepsEvent in uec.cpp) and the  *)
(* Python programs that read it: reps_event_viewer.py --verify, which      *)
(* checks the trace, and the C1, C1.1 and C2 analysers, which recover from *)
(* it what the sender did.  Every step of RepsBuffer that touches the ring *)
(* or freezes writes its rows; the readers take the rows one by one, and   *)
(* log is all they remember.                                               *)
(*                                                                         *)
(* A slot's lifetime is 1 in every row, time_ns and n only order the rows, *)
(* and a FREEZING source has no fifo; these columns are left out.  SEND,   *)
(* RTX and RTS rows are read alike and are one kind here.                  *)
(***************************************************************************)
EXTENDS RepsBuffer

VARIABLES
  window,  \* _reps_events_t0: logging has not begun, began late, or never was off
  log      \* what the readers hold after the rows written so far

tvars == <<ring, frozen, exitDue, explore, cursor, evEcn, last, sent, learnt, window, log>>

NoRows == [ seen    |-> FALSE,      \* no earlier row
            ring    |-> EmptyRing,  \* snapshot of the row before
            live    |-> FALSE,      \* buffer_is_live() so far
            failed  |-> {},         \* checks that failed so far
            acked   |-> FALSE,      \* seen_ack
            epoch   |-> "NONE",     \* outcome drain.py gives the open epoch if it closes now
            healthy |-> TRUE,       \* no FREEZE row yet: a trace C1 and C1.1 are run on
            k       |-> 0,          \* event_level_k's reconstruction of fresh
            lastK   |-> -1,         \* k at the draw before, -1 if none
            acks    |-> 0 ]         \* clean ACKs since, as far as min(B, ...) can tell

(* What logRepsEvent() writes: the source after the event.                 *)
Row(kind, src, ev, ecn) ==
  [kind |-> kind, src |-> src, ev |-> ev, ecn |-> ecn, ring |-> ring', frozen |-> frozen']

(* The row of a thaw is written before feedback is added to the ring.      *)
ThawRow == [Row("UNFREEZE", "", -1, -1) EXCEPT !.ring = Reset(ring)]

(* evSourceStr(): a frozen pop of a one-window source does not say whether *)
(* its slot was valid; a soft replay is logged as the random draw that it  *)
(* stands in for.                                                          *)
SourceStr(src) == CASE src = "EXPLORE"              -> "explore"
                    [] src \in {"RANDOM", "REPLAY"} -> "random"
                    [] src = "FRESH_POP"            -> "fresh_pop"
                    [] src \in {"VALID", "STALE"}   -> "frozen_pop"

(* getFrozenEv().                                                          *)
FrozenEv(row) == IF ~row.frozen \/ IsEmpty(row.ring) THEN -1 ELSE FrozenValue(row.ring)

-----------------------------------------------------------------------------
(* The slot a frozen pop read: the readers undo remove_frozen()'s step,    *)
(* which wraps at the number of slots written.                             *)
PoppedFrozenBySize(row) == (row.ring.frozenHead - 1) % RingSize
PoppedFrozen(row) ==
  (row.ring.frozenHead - 1) % (IF row.ring.count > 0 THEN row.ring.count ELSE RingSize)

(* send_occupancy.py classify(): what a draw was, with the snapshot of the *)
(* row before it.                                                          *)
ClassOfRow(l, row) ==
  CASE row.src = "fresh_pop"             -> "valid"
    [] row.src \in {"random", "explore"} -> "random"
    [] row.src = "frozen_pop" /\ ~l.seen -> "other"
    [] OTHER -> IF row.ring.valid[PoppedFrozen(row)] THEN "valid" ELSE "stale"
Class(l, row) ==
  CASE row.src = "fresh_pop"             -> "valid"
    [] row.src \in {"random", "explore"} -> "random"
    [] row.src = "frozen_pop" /\ ~l.seen -> "other"
    [] OTHER -> IF l.ring.valid[PoppedFrozen(row)] THEN "valid" ELSE "stale"

-----------------------------------------------------------------------------
(* verify_events(): the slots of two snapshots, and the slot a fresh pop   *)
(* invalidated.                                                            *)
Moved(l, row) == l.seen /\ (l.ring.value # row.ring.value \/ l.ring.valid # row.ring.valid)

Invalidated(l, row) ==
  { i \in Slots : l.seen /\ l.ring.valid[i] /\ ~row.ring.valid[i] /\ l.ring.value[i] = row.ev }

First(S) == CHOOSE i \in S : \A j \in S : i <= j

(* The checks that a row fails, each named for what it reports.            *)
Violated(l, row) ==
  LET isAck(ecn) == row.kind = "ACK" /\ row.ecn = ecn
      newest     == NewestSlot(row.ring)
      popped     == Invalidated(l, row)
      fails == [
        fresh    |-> row.ring.fresh # Cardinality(ValidSlots(row.ring)),
        frozen   |-> row.src = "frozen_pop" /\ (row.ring.valid[PoppedFrozen(row)]
                                          \/ row.ring.value[PoppedFrozen(row)] # row.ev),
        pop      |-> row.src = "fresh_pop" /\ popped = {},
        order    |-> row.src = "fresh_pop" /\ popped # {}
                       /\ First(popped) # (row.ring.head - l.ring.fresh) % RingSize,
        draw     |-> row.src \in {"random", "explore"} /\ Moved(l, row),
        add      |-> isAck(0) /\ (~row.ring.valid[newest] \/ row.ring.value[newest] # row.ev),
        ecn      |-> isAck(1) /\ Moved(l, row),
        nack     |-> row.kind = "NACK" /\ Moved(l, row),
        frozenEv |-> row.frozen /\ FrozenValue(row.ring) # FrozenEv(row),
        unfreeze |-> row.kind = "UNFREEZE" /\ ValidSlots(row.ring) # {} ]
  IN { c \in DOMAIN fails : fails[c] }

(* C2 send_occupancy.py: draws the reconstruction of fresh cannot explain. *)
Mismatched(l, row) ==
  LET fresh == row.src = "fresh_pop"
      wrong == \/ fresh /\ (row.ring.fresh # l.ring.fresh - 1 \/ l.ring.fresh = 0)
               \/ row.src = "random" /\ (l.ring.fresh # 0 \/ row.ring.fresh # 0)
  IN IF row.kind = "SEND" /\ l.acked /\ ~row.frozen /\ wrong THEN {"mismatch"} ELSE {}

(* C1.1 recursion_check(): k at a draw from k at the draw before and the   *)
(* clean ACKs between; C1 acks_per_window.py: what one ACK adds.           *)
AfterPop(k) == IF k > 0 THEN k - 1 ELSE 0

Mispredicted(l, row) ==
  LET k   == l.ring.fresh
      got == row.ring.fresh - k
      recursion == row.kind = "SEND" /\ l.lastK >= 0
                     /\ AtMost(AfterPop(l.lastK) + l.acks, RingSize) # k
      ackStep   == row.kind = "ACK" /\ got # 1 - row.ecn
                     /\ ~(row.ecn = 0 /\ got = 0 /\ k >= RingSize)
  IN IF l.healthy /\ l.acked
     THEN (IF recursion THEN {"recursion"} ELSE {}) \cup (IF ackStep THEN {"ackStep"} ELSE {})
     ELSE {}

-----------------------------------------------------------------------------
(* event_level_k(): fresh, from the order of ACKs and draws alone.         *)
LevelUncapped(l, row) ==
  CASE row.kind = "ACK" /\ row.ecn = 0 -> l.k + 1
    [] row.kind = "SEND"               -> AfterPop(l.k)
    [] OTHER                           -> l.k
Level(l, row) ==
  CASE row.kind = "ACK" /\ row.ecn = 0 -> AtMost(l.k + 1, RingSize)
    [] row.kind = "SEND"               -> AfterPop(l.k)
    [] OTHER                           -> l.k

(* drain.py: an epoch runs from a FREEZE row to the next UNFREEZE row; its *)
(* outcome depends on the draws classified while it is open.               *)
EpochKeepsStale(l, row) ==
  CASE row.kind = "FREEZE"   -> "no_stale_draws"
    [] row.kind = "UNFREEZE" -> "NONE"
    [] l.epoch # "NONE" /\ row.kind = "SEND" /\ Class(l, row) = "stale" -> "stale_until_unfreeze"
    [] OTHER                 -> l.epoch
EpochSurvivesThaw(l, row) ==
  CASE row.kind = "FREEZE" -> "no_stale_draws"
    [] l.epoch # "NONE" /\ row.kind = "SEND" /\ row.frozen ->
         IF Class(l, row) = "stale" THEN "stale_until_unfreeze"
         ELSE IF l.epoch = "no_stale_draws" THEN l.epoch ELSE "cleared_before_unfreeze"
    [] OTHER               -> l.epoch
Epoch(l, row) ==
  CASE row.kind = "FREEZE"   -> "no_stale_draws"
    [] row.kind = "UNFREEZE" -> "NONE"
    [] l.epoch # "NONE" /\ row.kind = "SEND" /\ row.frozen ->
         IF Class(l, row) = "stale" THEN "stale_until_unfreeze"
         ELSE IF l.epoch = "no_stale_draws" THEN l.epoch ELSE "cleared_before_unfreeze"
    [] OTHER                 -> l.epoch

(* seen_ack: the warm-up of a source ends with its first ACK row.          *)
Acked(l, row) == l.acked \/ row.kind = "ACK"

(* One row, read by every reader.                                          *)
Read(l, row) ==
  LET well   == l.healthy /\ row.kind # "FREEZE"
      drawn  == row.kind = "SEND" /\ l.acked
      clean  == row.kind = "ACK" /\ row.ecn = 0 /\ l.acked
  IN [ seen    |-> TRUE,
       ring    |-> row.ring,
       live    |-> l.live \/ ValidSlots(row.ring) # {},
       failed  |-> l.failed \cup Violated(l, row) \cup Mismatched(l, row) \cup Mispredicted(l, row),
       acked   |-> Acked(l, row),
       epoch   |-> Epoch(l, row),
       healthy |-> well,
       k       |-> IF well THEN Level(l, row) ELSE 0,
       lastK   |-> IF ~well THEN -1 ELSE IF drawn THEN l.ring.fresh ELSE l.lastK,
       acks    |-> IF ~well \/ drawn THEN 0
                   ELSE IF clean THEN AtMost(l.acks + 1, RingSize) ELSE l.acks ]

-----------------------------------------------------------------------------
(* The traced source: each step of RepsBuffer with the rows it writes.     *)

Write(rows) == log' = IF window = "SHUT" THEN log ELSE rows

TracedDraw ==
  /\ Draw
  /\ \E row \in {Row("SEND", SourceStr(last'.src), last'.ev, -1)} : Write(Read(log, row))
  /\ UNCHANGED window

FeedbackRow(ev, fb) ==
  IF fb = "NACK" THEN Row("NACK", "", ev, -1)
  ELSE Row("ACK", "", ev, IF fb = "ECN" THEN 1 ELSE 0)

TracedFeedback(ev, fb) ==
  /\ Feedback(ev, fb)
  /\ \E row \in {FeedbackRow(ev, fb)}, before \in {IF Thaws THEN Read(log, ThawRow) ELSE log} :
        Write(Read(before, row))
  /\ UNCHANGED window

TracedTimeout(lowRtt) ==
  /\ Timeout(lowRtt)
  /\ Write(Read(log, Row("FREEZE", "", -1, -1)))
  /\ UNCHANGED window

Unlogged == DeadlinePasses /\ UNCHANGED <<window, log>>

(* Simulated time passes _reps_events_t0.                                  *)
OpenWindow ==
  /\ window = "SHUT"
  /\ window' = "LATE"
  /\ UNCHANGED <<ring, frozen, exitDue, explore, cursor, evEcn, last, sent, learnt, log>>

TracedInit ==
  /\ Init
  /\ window \in {"SHUT", "WHOLE"}
  /\ log = [NoRows EXCEPT !.healthy = (window = "WHOLE")]

TracedNext ==
  \/ TracedDraw
  \/ \E ev \in Ev, fb \in {"GOOD", "ECN", "NACK"} : TracedFeedback(ev, fb)
  \/ \E lowRtt \in BOOLEAN : TracedTimeout(lowRtt)
  \/ Unlogged
  \/ OpenWindow

TracedSpec == TracedInit /\ [][TracedNext]_tvars

-----------------------------------------------------------------------------
(* Every check of a trace of this source passes, with two exceptions.  A   *)
(* source that freezes with an empty ring logs frozen_ev = -1, and a       *)
(* window opened in mid-run starts at a fresh pop it cannot explain.       *)
OnlyKnownAlarms ==
  [][\A c \in log'.failed \ log.failed :
        \/ c = "frozenEv" /\ frozen' /\ IsEmpty(ring')
        \/ c = "pop" /\ window = "LATE" /\ ~log.seen]_tvars

(* ev_valid, ev_stale, ev_random and ev_explore of the finish line count   *)
(* the same draws as the C2 analysers classify from the trace.             *)
Committed(src) == CASE src \in {"FRESH_POP", "VALID"} -> "valid"
                    [] src = "STALE"                  -> "stale"
                    [] OTHER                          -> "random"

DrawClassMatches ==
  [][(Draw /\ log.seen) =>
        Class(log, Row("SEND", SourceStr(last'.src), last'.ev, -1)) = Committed(last'.src)]_tvars

(* drain.py has an epoch open exactly while the source is frozen.          *)
EpochTracksFreeze ==
  window = "WHOLE" => ((log.epoch # "NONE") <=> frozen)

(* An epoch that closes as stale closes after a stale draw, and one that   *)
(* closes as cleared after a draw of a valid EV.                           *)
OutcomeMatchesDraws ==
  CASE log.epoch = "stale_until_unfreeze"    -> last.src = "STALE"
    [] log.epoch = "cleared_before_unfreeze" -> last.src = "VALID"
    [] OTHER                                 -> TRUE

(* The draws the analysers drop as warm-up are guesses: the counts of      *)
(* valid and stale draws after it are the counts of the whole run.         *)
WarmupOnlyGuesses ==
  window = "WHOLE" /\ ~log.acked => last.src \in {"NONE", "RANDOM", "EXPLORE"}

(* In a run that has not frozen, the order of ACKs and draws alone gives   *)
(* the number of fresh EVs.                                                *)
LevelIsFresh == log.healthy => log.k = ring.fresh

(* What the analysers take for granted of the rows they leave out (the     *)
(* warm-up) and of the level they reconstruct.                             *)
ReadingsExact == WarmupOnlyGuesses /\ LevelIsFresh
=============================================================================
