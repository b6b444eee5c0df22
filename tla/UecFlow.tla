------------------------------- MODULE UecFlow -------------------------------
(***************************************************************************)
(* One flow from start to finish: a UecSrc, its NIC port, a UecSink, and a *)
(* network that delays, reorders, marks, trims and drops.  Every action is *)
(* one event of the simulation's event list.                               *)
(*                                                                         *)
(* MaxLoss bounds the packets the network loses or trims, MaxEarly the     *)
(* timeouts that fire although an answer is still on its way.  A timeout   *)
(* after everything of the flow has left the network is not bounded.       *)
(***************************************************************************)
EXTENDS UecSink, Bags

CONSTANTS MaxLoss, MaxEarly

ASSUME FlowAssumption == {MaxLoss, MaxEarly} \subseteq Nat

VARIABLES
  s,       \* the sender and its NIC port
  k,       \* the sink
  wire,    \* bag of packets on their way to the sink
  trimmed, \* sequence numbers of packets whose payload a switch cut off
  acks,    \* ACK and NACK packets on their way back
  losses,  \* packets lost or trimmed so far
  early    \* premature timeouts so far

vars == <<s, k, wire, trimmed, acks, losses, early>>

Init ==
  /\ s = FreshSender
  /\ k = FreshSink
  /\ wire = EmptyBag
  /\ trimmed = {}
  /\ acks = {}
  /\ losses = 0
  /\ early = 0

(* The sender ends an event in one of the states S; what it emitted goes   *)
(* on the wire.                                                            *)
Becomes(S) ==
  \E t \in S : /\ s' = [t EXCEPT !.out = {}]
               /\ wire' = wire (+) SetToBag(t.out)

-----------------------------------------------------------------------------
(* Events of the source and of its NIC.                                    *)

Start ==
  /\ ~s.started
  /\ Becomes({StartFlow(s, c) : c \in EventChoices})
  /\ UNCHANGED <<k, trimmed, acks, losses, early>>

(* doNextEvent() of the NIC: the packet on the port has been sent.         *)
NicDone ==
  /\ s.busy
  /\ Becomes({PortFree(s, control, c) : control \in BOOLEAN, c \in EventChoices})
  /\ UNCHANGED <<k, trimmed, acks, losses, early>>

(* Another source of this host takes the free port.                        *)
NicOther ==
  /\ ~s.busy
  /\ Becomes({[s EXCEPT !.busy = TRUE]})
  /\ UNCHANGED <<k, trimmed, acks, losses, early>>

Quiet == wire = EmptyBag /\ trimmed = {} /\ acks = {} /\ s.ctrl = {}

(* The retransmission timer of the oldest record fires.                    *)
Expire ==
  /\ s.timer # NoTimer
  /\ IF Quiet THEN UNCHANGED early ELSE early < MaxEarly /\ early' = early + 1
  /\ Becomes({Timeout(s, Oldest(s), mayRts /\ Cardinality(s.rts) < MaxRts, c) :
                mayRts \in {r \in BOOLEAN : s.rts = {} => r}, c \in EventChoices})
  /\ UNCHANGED <<k, trimmed, acks, losses>>

ReceiveAck(a) ==
  /\ a.kind = "ack"
  /\ acks' = acks \ {a}
  /\ Becomes({Ack(s, a, c) : c \in EventChoices})
  /\ UNCHANGED <<k, trimmed, losses, early>>

ReceiveNack(a) ==
  /\ a.kind = "nack"
  /\ acks' = acks \ {a}
  /\ Becomes({Nack(s, a.seq, c) : c \in EventChoices})
  /\ UNCHANGED <<k, trimmed, losses, early>>

-----------------------------------------------------------------------------
(* Events of the sink.                                                     *)

Arrives(r) == k' = r.sink /\ acks' = acks \cup r.replies

ReceiveData(p) ==
  /\ p.kind = "data"
  /\ \E ecn \in BOOLEAN : Arrives(ProcessData(k, p, Size(s, p.seq), ecn))
  /\ wire' = wire (-) SetToBag({p})
  /\ UNCHANGED <<s, trimmed, losses, early>>

ReceiveRts(p) ==
  /\ p.kind = "rts"
  /\ Arrives(ProcessRts(k, p))
  /\ wire' = wire (-) SetToBag({p})
  /\ UNCHANGED <<s, trimmed, losses, early>>

ReceiveTrimmed(q) ==
  /\ Arrives(ProcessTrimmed(k, [seq |-> q]))
  /\ trimmed' = trimmed \ {q}
  /\ UNCHANGED <<s, wire, losses, early>>

-----------------------------------------------------------------------------
(* The network loses a packet or an answer, or trims a data packet.        *)

Lossy == losses < MaxLoss /\ losses' = losses + 1

Drop(p) ==
  /\ Lossy
  /\ wire' = wire (-) SetToBag({p})
  /\ UNCHANGED <<s, k, trimmed, acks, early>>

Trim(p) ==
  /\ Lossy
  /\ p.kind = "data"
  /\ wire' = wire (-) SetToBag({p})
  /\ trimmed' = trimmed \cup {p.seq}
  /\ UNCHANGED <<s, k, acks, early>>

DropAck(a) ==
  /\ Lossy
  /\ acks' = acks \ {a}
  /\ UNCHANGED <<s, k, wire, trimmed, early>>

-----------------------------------------------------------------------------

ToSink  == \/ \E p \in BagToSet(wire) : ReceiveData(p) \/ ReceiveRts(p)
           \/ \E q \in trimmed : ReceiveTrimmed(q)
ToSrc   == \E a \in acks : ReceiveAck(a) \/ ReceiveNack(a)
Network == \/ \E p \in BagToSet(wire) : Drop(p) \/ Trim(p)
           \/ \E a \in acks : DropAck(a)

Next == Start \/ NicDone \/ NicOther \/ Expire \/ ToSink \/ ToSrc \/ Network

Spec == Init /\ [][Next]_vars

(* Timers fire, the port finishes what it sends, and the network delivers  *)
(* what it does not lose.                                                  *)
FairSpec == /\ Spec
            /\ WF_vars(Start) /\ WF_vars(NicDone) /\ WF_vars(Expire)
            /\ WF_vars(ToSink) /\ WF_vars(ToSrc)
-----------------------------------------------------------------------------
(* What is checked.                                                        *)

Sent      == 0 .. s.next - 1
Forgotten == Sent \ (s.tx \cup s.rtx)   \* the sender takes them for delivered
Held      == {q \in Seqs : Has(k, q)}

Messages ==
  /\ wire \in [BagToSet(wire) -> Nat \ {0}] /\ BagToSet(wire) \subseteq Packet
  /\ trimmed \subseteq Seqs
  /\ \A a \in acks : a \in IF a.kind = "nack" THEN Nacks ELSE Acks

TypeOK ==
  /\ s \in Sender /\ s.out = {}
  /\ k \in Sink
  /\ Messages
  /\ losses \in 0 .. MaxLoss
  /\ early \in 0 .. MaxEarly

(* A sequence number is in _tx_bitmap or in _rtx_queue or in neither, never *)
(* in both (comment in handleAckno), and _send_times orders exactly the     *)
(* packets of _tx_bitmap.                                                   *)
OneHome ==
  /\ s.tx \cap s.rtx = {}
  /\ s.tx \cup s.rtx \subseteq Sent
  /\ s.before \subseteq s.tx \X s.tx
  /\ \A p, q \in s.tx :
       p # q => (<<p, q>> \in s.before <=> <<q, p>> \notin s.before)

(* The retransmission timer runs while anything is outstanding, and for     *)
(* the packet sent first: no ACK, NACK or timeout leaves it on a record     *)
(* that is gone.                                                            *)
TimerCoversOldest == s.timer = Oldest(s)

(* sum of both windows' in_flight = _in_flight: assertDualWindowInvariant().*)
DualWindowInvariant == Dual => s.safe + s.random = s.inFlight

(* Each window counts the outstanding packets it was charged for, through   *)
(* every retransmission, and not one byte more.                             *)
WindowsExact ==
  Dual => /\ s.safe   = Bytes(s, Tagged(s, s.tx, "safe"))
          /\ s.random = Bytes(s, Tagged(s, s.tx, "random"))

(* With one window, _in_flight is what the receiver has not yet reported of *)
(* the data packets that are outstanding or acknowledged, less the headers  *)
(* of timed out RTS packets that wait to be resent.                         *)
InFlightBalance ==
  ~Dual => s.inFlight + s.recvd =
             Mtu * Cardinality((s.tx \cup Forgotten) \ s.rts)
               - Hdr * Cardinality(s.rtx \cap s.rts)

(* No lost, late or duplicate answer leaves bytes in _in_flight that are    *)
(* not outstanding: they would close the window for good.                   *)
NoPhantomInFlight == s.inFlight <= Bytes(s, s.tx)

(* Both: _in_flight, which two counts of the same bytes move, never drifts. *)
InFlightExact == InFlightBalance /\ NoPhantomInFlight

(* The flow is finished exactly when nothing is left to send, retransmit or *)
(* acknowledge, whatever was lost on the way: no sooner, as every packet    *)
(* got through, and no later, as nothing would come to end it.              *)
FinishedMeansDelivered ==
  /\ s.done <=> s.started /\ s.backlog = 0 /\ Forgotten = Sent
  /\ s.done => Held = Sent /\ s.timer = NoTimer

(* The port is never free while a source or a control packet waits for it   *)
(* (requestSending() asserts the second).                                   *)
PortNeverIdle == ~s.busy => s.queued = 0 /\ s.ctrl = {}

(* While nothing was lost and no timer was early, all that the sink got was *)
(* acknowledged once the network is empty: a timeout needs a cause.         *)
NoNeedlessTimeout ==
  losses = 0 /\ early = 0 /\ Quiet /\ s.queued = 0 => s.tx = {}

(* A flow that is not finished always has something that will make it go   *)
(* on: a packet under way, its port's completion, or the timer.             *)
NeverStuck == s.started /\ ~s.done /\ ~s.busy /\ Quiet => s.timer # NoTimer

(* sendIfPermitted() takes _send_blocked_on_nic to mean "the NIC already    *)
(* knows we want to send".                                                  *)
BlockedMeansQueued == s.blocked => s.queued > 0

(* Only two things stop a flow for good: its source takes itself for queued *)
(* at the port when it is not, or fast loss recovery waits for a packet to   *)
(* repeat and has none.                                                     *)
StuckHasCause ==
  s.started /\ ~s.done /\ ~s.busy /\ Quiet /\ s.timer = NoTimer
    => s.blocked \/ (s.recovery /\ s.rtx = {})

(* The flow is a reliable transfer: packets taken as delivered by the sender *)
(* have been, a packet enters the receive bitmap once, and the end is        *)
(* reported once, with everything there.                                     *)
Transfer == INSTANCE ReliableTransfer WITH
  Items <- Pkts + MaxRts, sent <- s.next, delivered <- Held,
  known <- Forgotten, finished <- s.done

ImplementsTransfer == Transfer!Spec

(* Every flow finishes.                                                     *)
EventuallyDone == <>s.done
=============================================================================
