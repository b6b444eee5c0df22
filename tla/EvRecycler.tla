----------------------------- MODULE EvRecycler -----------------------------
(***************************************************************************)
(* What recycling entropies promises, without the circular buffer: an EV   *)
(* whose packet came back good is used again at most once, first in first  *)
(* out, and only the most recent Capacity are remembered.  A frozen source *)
(* uses any EV it remembers, as often as it likes; when it thaws it        *)
(* forgets them all and guesses for Burst packets before recycling again.  *)
(***************************************************************************)
EXTENDS Integers, Sequences

CONSTANTS Ev, Capacity, Burst

VARIABLES
  known,    \* the remembered EVs, oldest first
  fresh,    \* those not used yet, oldest first
  frozen,
  explore,  \* guesses still due after a thaw
  drawn     \* the last EV given to a packet and how it was chosen

vars == <<known, fresh, frozen, explore, drawn>>

Init ==
  /\ known = << >> /\ fresh = << >>
  /\ frozen = FALSE
  /\ explore = 0
  /\ drawn = [kind |-> "GUESS", ev |-> 0]

Latest(s) ==
  IF Len(s) <= Capacity THEN s ELSE SubSeq(s, Len(s) - Capacity + 1, Len(s))

Give(kind, ev) == drawn' = [kind |-> kind, ev |-> ev] /\ UNCHANGED <<known, frozen>>

Guess(ev) ==
  /\ IF explore > 0 THEN explore' = explore - 1
     ELSE /\ IF frozen THEN known = << >> ELSE fresh = << >>
          /\ explore' = explore
  /\ Give("GUESS", ev)
  /\ fresh' = fresh

Recycle ==
  /\ explore = 0 /\ ~frozen /\ fresh # << >>
  /\ Give("RECYCLED", Head(fresh))
  /\ fresh' = Tail(fresh)
  /\ explore' = explore

Reuse ==
  /\ explore = 0 /\ frozen
  /\ \E i \in DOMAIN known : Give("RECYCLED", known[i])
  /\ UNCHANGED <<fresh, explore>>

Learn(ev) ==
  /\ known' = Latest(Append(known, ev))
  /\ fresh' = IF frozen THEN fresh ELSE Latest(Append(fresh, ev))
  /\ UNCHANGED <<frozen, explore, drawn>>

Freeze ==
  /\ ~frozen /\ explore = 0
  /\ frozen' = TRUE
  /\ fresh' = << >>
  /\ UNCHANGED <<known, explore, drawn>>

(* The feedback that ends a freeze may itself bring the first new EV.      *)
Thaw ==
  /\ frozen
  /\ frozen' = FALSE
  /\ explore' = Burst
  /\ known' \in {<< >>} \cup { <<ev>> : ev \in Ev }
  /\ fresh' = known'
  /\ UNCHANGED drawn

Next ==
  \/ \E ev \in Ev : Guess(ev) \/ Learn(ev)
  \/ Recycle \/ Reuse \/ Freeze \/ Thaw

Spec == Init /\ [][Next]_vars
=============================================================================
