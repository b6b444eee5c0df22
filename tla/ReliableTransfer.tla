-------------------------- MODULE ReliableTransfer --------------------------
(***************************************************************************)
(* What the UEC transport promises of one flow, without windows, timers,   *)
(* retransmissions or ACK formats: items are sent in order, each is        *)
(* delivered once, the sender learns of a delivery only after it happened, *)
(* and it finishes once, when it knows all that was sent to be delivered.  *)
(***************************************************************************)
EXTENDS Integers

CONSTANT Items   \* bound on the items one flow sends

VARIABLES
  sent,       \* how many items have been sent
  delivered,  \* the items the receiver has
  known,      \* the items the sender knows to be delivered
  finished    \* the sender has reported the flow complete

vars == <<sent, delivered, known, finished>>

Init == sent = 0 /\ delivered = {} /\ known = {} /\ finished = FALSE

Deliver(i) ==
  /\ i < sent /\ i \notin delivered
  /\ delivered' = delivered \cup {i}
  /\ UNCHANGED <<sent, known, finished>>

(* The sender learns of deliveries and sends more: at most one packet of   *)
(* data and one control item in a step.                                    *)
Proceed ==
  /\ ~finished
  /\ sent' \in {n \in sent .. sent + 2 : n <= Items}
  /\ known' \in SUBSET delivered
  /\ known \subseteq known'
  /\ UNCHANGED <<delivered, finished>>

Finish ==
  /\ ~finished /\ finished'
  /\ delivered = 0 .. sent - 1 /\ known' = delivered
  /\ UNCHANGED <<sent, delivered>>

Next == (\E i \in 0 .. Items - 1 : Deliver(i)) \/ Proceed \/ Finish

Spec == Init /\ [][Next]_vars
=============================================================================
