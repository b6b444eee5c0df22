------------------------------ MODULE UecSender ------------------------------
(***************************************************************************)
(* The bookkeeping of one flow's sender (UecSrc) under sender-based        *)
(* congestion control, and the one port of its NIC.  The state is a        *)
(* record; each method is an operator from a state (and what the method    *)
(* reads of its arguments) to the state when it returns.                   *)
(*                                                                         *)
(* Two things the methods consult are chosen freely at each event and      *)
(* arrive in a record c of EventChoices: the congestion windows, and the window *)
(* tag that the next draw of the load balancer will resolve to (the gate's *)
(* prediction equals it: RepsBuffer, PredictorMatchesDraw).  The windows   *)
(* never fall below one MTU, as every update in the code makes sure.       *)
(***************************************************************************)
EXTENDS Integers, FiniteSets, FiniteSetsExt

CONSTANTS
  Pkts,          \* _flow_size / _mss, the data packets of the flow
  MaxRts,        \* bound on the RTS packets one flow sends
  Mtu,           \* _mtu
  Hdr,           \* _hdr_size, also the size of an RTS
  Cwnds,         \* values a congestion window may take
  Dual,          \* _sender_cc_algo is DUAL_MPRDMA_REPS or DUAL_MPRDMA_REPS_CAP
  Elephant,      \* _flow_size >= _ecmp_elephant_threshold: draws by nextEntropy_ecmp
  FastRecovery,  \* _enable_fast_loss_recovery
  Reorder,       \* least reordering, in packets, that counts as loss (5 in the code)
  LossWrap       \* 2^32: _loss_counter is a uint32_t

ASSUME SenderAssumption ==
  /\ Pkts \in Nat \ {0} /\ MaxRts \in Nat \ {0}
  /\ Hdr \in Nat \ {0} /\ Mtu \in Nat /\ Hdr < Mtu
  /\ Cwnds \subseteq {w \in Nat : w >= Mtu}
  /\ {Dual, Elephant, FastRecovery} \subseteq BOOLEAN
  /\ Reorder \in Nat /\ LossWrap \in Nat \ {0}

Seqs    == 0 .. (Pkts + MaxRts - 1)   \* packet sequence numbers (epsn)
NoTimer == -1                         \* _rtx_timeout_pending is false
Tags    == {"none", "safe", "random"} \* WindowTag

Packet == [seq : Seqs, kind : {"data", "rts"}, ar : BOOLEAN]

EventChoices ==
  IF Dual THEN [safe : Cwnds, random : Cwnds,
                pred : {"safe", "random"}, next : {"safe", "random"}]
          ELSE [safe : Cwnds, random : {0}, pred : {"none"}, next : {"none"}]

Cwnd(c) == c.safe + c.random

Sender ==
  [tx : SUBSET Seqs,             \* keys of _tx_bitmap
   rtx : SUBSET Seqs,            \* keys of _rtx_queue
   rts : SUBSET Seqs,            \* sequence numbers that RTS packets took
   tag : [Seqs -> Tags],         \* win_tag of the send record, or _rtx_win_tag
   before : SUBSET (Seqs \X Seqs), \* order of _send_times
   timer : Seqs \cup {NoTimer},  \* record whose send time is _rto_send_time
   inFlight : Int,               \* _in_flight
   safe : Int, random : Int,     \* in_flight of _win_safe and _win_random
   backlog : 0 .. Pkts,          \* _backlog, in packets
   next : Nat,                   \* _highest_sent
   blocked : BOOLEAN,            \* _send_blocked_on_nic
   recovery : BOOLEAN,           \* _loss_recovery_mode
   recoverTo : Nat,              \* _recovery_seqno
   lossCount : Nat,              \* _loss_counter, meaningful in recovery only
   rtxMark : Nat,                \* _highest_rtx_sent
   highRecv : Nat,               \* _highest_recv_seqno
   recvd : Nat,                  \* _recvd_bytes, as the receiver last reported
   started : BOOLEAN,            \* startFlow() has run
   done : BOOLEAN,               \* _done_sending
   busy : BOOLEAN,               \* the NIC's port is busy
   queued : Nat,                 \* entries of this source in _active_srcs
   ctrl : SUBSET Seqs,           \* RTS packets in the NIC's _control queue
   out : SUBSET Packet]          \* packets put on the wire during this event

FreshSender ==
  [tx |-> {}, rtx |-> {}, rts |-> {}, tag |-> [q \in Seqs |-> "none"],
   before |-> {}, timer |-> NoTimer, inFlight |-> 0, safe |-> 0, random |-> 0,
   backlog |-> 0, next |-> 0, blocked |-> FALSE, recovery |-> FALSE,
   recoverTo |-> 0, lossCount |-> 0, rtxMark |-> 0, highRecv |-> 0, recvd |-> 0,
   started |-> FALSE, done |-> FALSE, busy |-> FALSE, queued |-> 0, ctrl |-> {},
   out |-> {}]

-----------------------------------------------------------------------------
(* Records of what is outstanding, and the timer over them.                *)

Size(s, q) == IF q \in s.rts THEN Hdr ELSE Mtu

Bytes(s, S) == Mtu * Cardinality(S \ s.rts) + Hdr * Cardinality(S \cap s.rts)

Tagged(s, S, t) == {q \in S : s.tag[q] = t}

(* Mutant: no exception for WIN_NONE records.                              *)
CountedAll(s, S) == S

(* A WIN_NONE record of a dual-window flow is in no in-flight counter.     *)
Counted(s, S) == IF Dual THEN S \ Tagged(s, S, "none") ELSE S

Oldest(s) ==
  IF s.tx = {} THEN NoTimer
  ELSE CHOOSE q \in s.tx : \A p \in s.tx : <<p, q>> \notin s.before

(* createSendRecord() followed by startRTO(now).                           *)
AddRecord(s, q, t) ==
  [s EXCEPT !.tx     = @ \cup {q},
            !.before = @ \cup (s.tx \X {q}),
            !.tag    = [@ EXCEPT ![q] = t],
            !.safe   = IF t = "safe" THEN @ + Size(s, q) ELSE @,
            !.random = IF t = "random" THEN @ + Size(s, q) ELSE @,
            !.timer  = IF @ = NoTimer THEN q ELSE @]

(* Mutant: the send time stays behind.                                     *)
EraseKeepsTime(s, S) == [s EXCEPT !.tx = @ \ S]

(* Erases the records of S from _tx_bitmap and _send_times.                *)
Erase(s, S) ==
  [s EXCEPT !.tx     = @ \ S,
            !.before = {p \in @ : p[1] \notin S /\ p[2] \notin S}]

(* Mutants: the timer is cancelled and not restarted; is left alone.       *)
RecalculateCancels(s) == [s EXCEPT !.timer = NoTimer]

(* recalculateRTO(), called when the record of the timer was erased.       *)
RecalculateRTO(s) == [s EXCEPT !.timer = Oldest(s)]

RearmNever(s, S) == s

Rearm(s, S) == IF s.timer \in S THEN RecalculateRTO(s) ELSE s

(* The packets of S leave the in-flight counters, lost or timed out.       *)
Discharge(s, S) ==
  [s EXCEPT !.inFlight = @ - Bytes(s, Counted(s, S)),
            !.safe     = @ - Bytes(s, Tagged(s, S, "safe")),
            !.random   = @ - Bytes(s, Tagged(s, S, "random"))]

-----------------------------------------------------------------------------
(* Sending: the admission gate, the packets, and the NIC's answers.        *)

(* Mutant: packets to retransmit are no work.                              *)
HasNewData(s) == s.backlog > 0

HasWork(s) == s.backlog > 0 \/ s.rtx # {}

Full(s, t, c) ==
  IF Dual THEN IF t = "safe" THEN c.safe <= s.safe ELSE c.random <= s.random
          ELSE c.safe <= s.inFlight

NextTag(s, pred) == IF s.rtx # {} THEN s.tag[Min(s.rtx)] ELSE pred

Permitted(s, pred, c) ==
  IF s.recovery THEN s.rtx # {} ELSE ~Full(s, NextTag(s, pred), c)

(* An elephant's draws leave _last_ev_source alone: EVSRC_NONE.            *)
DrawnTag(pred) == IF Elephant THEN "none" ELSE pred

(* Mutant: only the last packet asks for an ACK.                           *)
WantsAckAtEnd(s, t, c) == s.backlog = 1

(* The packet asks for an ACK if it is the last, or fills the window.      *)
WantsAck(s, t, c) ==
  s.backlog = 1 \/ IF Dual THEN Full(s, t, c) ELSE s.inFlight + Mtu >= c.safe

NewPacket(s, pred, c) ==
  LET t == DrawnTag(pred)
      p == [seq |-> s.next, kind |-> "data", ar |-> WantsAck(s, t, c)]
  IN AddRecord([s EXCEPT !.backlog  = @ - 1,
                         !.inFlight = @ + Mtu,
                         !.next     = @ + 1,
                         !.out      = @ \cup {p}], s.next, t)

RtxPacket(s) ==
  LET q == Min(s.rtx)
  IN AddRecord([s EXCEPT !.rtx      = @ \ {q},
                         !.inFlight = @ + Bytes(s, Counted(s, {q})),
                         !.out      = @ \cup {[seq |-> q, kind |-> "data", ar |-> TRUE]}],
               q, s.tag[q])

SendPacket(s, pred, c) == IF s.rtx = {} THEN NewPacket(s, pred, c) ELSE RtxPacket(s)

(* requestSending() answered "no", and the source notes it.                *)
Enqueue(s) == [s EXCEPT !.queued = @ + 1, !.blocked = TRUE]

StartSending(s) ==
  [s EXCEPT !.busy = TRUE, !.queued = IF @ > 0 THEN @ - 1 ELSE @]

(* sendIfPermitted(): its recursion sends one packet, since that makes the *)
(* port busy, and then queues with the NIC if more may go.                 *)
SendIfPermitted(s, c) ==
  LET sent == StartSending(SendPacket(s, c.pred, c))
  IN IF ~Permitted(s, c.pred, c) \/ ~HasWork(s) \/ s.blocked THEN s
     ELSE IF s.busy THEN Enqueue(s)
     ELSE IF Permitted(sent, c.next, c) /\ HasWork(sent) THEN Enqueue(sent)
     ELSE sent

(* queueForRtx().                                                          *)
QueueForRtx(s, S, c) == SendIfPermitted([s EXCEPT !.rtx = @ \cup S], c)

(* sendControlPktNow(), for the oldest RTS waiting.                        *)
SendControl(s) ==
  [s EXCEPT !.busy = TRUE,
            !.ctrl = @ \ {Min(@)},
            !.out  = @ \cup {[seq |-> Min(s.ctrl), kind |-> "rts", ar |-> TRUE]}]

(* sendRTS(), past its limit of one RTS per RTT.                           *)
Rts(s) ==
  LET q == s.next
      r == AddRecord([s EXCEPT !.rts = @ \cup {q}, !.next = @ + 1,
                               !.ctrl = @ \cup {q}], q, "none")
  IN IF s.busy THEN r ELSE SendControl(r)

(* Mutant: a declined turn is not passed on to the control queue.          *)
CantSendEnds(s) == [s EXCEPT !.queued = 0]

(* cantSend(): every entry of this source is declined in turn.             *)
CantSend(s) ==
  LET r == [s EXCEPT !.queued = 0]
  IN IF r.ctrl # {} THEN SendControl(r) ELSE r

-----------------------------------------------------------------------------
(* The events.                                                             *)

(* startFlow(): the window is not consulted.                               *)
StartFlow(s, c) ==
  LET begun == [s EXCEPT !.started = TRUE, !.backlog = Pkts]
      sent  == StartSending(NewPacket(begun, c.pred, c))
  IN IF s.busy THEN Enqueue(begun)
     ELSE IF sent.backlog > 0 THEN Enqueue(sent) ELSE sent

(* timeToSend(): the NIC grants this source the port.                      *)
TimeToSend(s, c) ==
  LET u    == [s EXCEPT !.blocked = FALSE]
      sent == StartSending(SendPacket(u, c.pred, c))
      more == IF sent.recovery THEN sent.rtx # {}
              ELSE IF Dual THEN ~(Full(sent, "safe", c) /\ Full(sent, "random", c))
              ELSE ~Full(sent, "none", c)
  IN IF ~HasWork(s) THEN CantSend(s)
     ELSE IF ~Permitted(u, c.pred, c) THEN CantSend(u)
     ELSE IF more /\ HasWork(sent) THEN Enqueue(sent)
     ELSE sent

(* UecNIC::doNextEvent(): the port falls free; control says whose turn it  *)
(* is when both kinds wait (_crt).                                         *)
PortFree(s, control, c) ==
  LET u == [s EXCEPT !.busy = FALSE]
  IN IF u.queued > 0 /\ (u.ctrl = {} \/ ~control) THEN TimeToSend(u, c)
     ELSE IF u.ctrl # {} THEN SendControl(u)
     ELSE u

(* rtxTimerExpired(), for the oldest record q; mayRts is false when the    *)
(* last RTS is less than an RTT old.                                       *)
Timeout(s, q, mayRts, c) ==
  LET u == Discharge(RecalculateRTO(Erase(s, {q})), {q})
      v == QueueForRtx(u, {q}, c)
  IN IF u.rtx # {} THEN v
     ELSE IF Cwnd(c) < Size(s, q) + v.inFlight
          THEN IF mayRts THEN Rts(v) ELSE v
     ELSE IF v.busy THEN [v EXCEPT !.queued = @ + 1]
     ELSE StartSending(RtxPacket(v))

(* Mutant: a NACK for a packet that was acknowledged since is heeded.      *)
NackAlways(s, q, c) ==
  SendIfPermitted(
    Rearm(QueueForRtx(Discharge(Erase(s, {q}), {q}), {q}, c), {q}), c)

(* processNack().                                                          *)
Nack(s, q, c) ==
  IF q \notin s.tx THEN s
  ELSE SendIfPermitted(
         Rearm(QueueForRtx(Discharge(Erase(s, {q}), {q}), {q}, c), {q}), c)

(* Mutant: nothing is given back.                                          *)
GiveBackNone(s, S) == 0

(* The packets an ACK covers, and the bytes it newly reports.              *)
Covered(a)  == {q \in Seqs : q < a.cum \/ q \in a.sack}
Newly(s, a) == IF a.recvd > s.recvd THEN a.recvd - s.recvd ELSE 0

(* Acknowledged packets that wait for retransmission left _in_flight       *)
(* before, and recvd_bytes takes them off once more.                       *)
GiveBack(s, S) == Bytes(s, S)

(* handleCumulativeAck(), handleAckno() for every SACK bit, and the        *)
(* correction of the dual windows; _loss_counter wraps below zero.         *)
Account(s, a) ==
  LET inTx   == s.tx \cap Covered(a)
      inRtx  == s.rtx \cap Covered(a)
      safe   == Bytes(s, Tagged(s, inTx, "safe"))
      random == Bytes(s, Tagged(s, inTx, "random"))
  IN Rearm(
       [Erase(s, inTx) EXCEPT
          !.rtx      = @ \ inRtx,
          !.tag      = [q \in Seqs |-> IF q \in inTx \cup inRtx THEN "none" ELSE @[q]],
          !.inFlight = IF Dual THEN @ - (safe + random)
                               ELSE @ - Newly(s, a) + GiveBack(s, inRtx),
          !.safe     = @ - safe,
          !.random   = @ - random,
          !.recvd    = @ + Newly(s, a),
          !.highRecv = Max({@} \cup a.sack),
          !.lossCount = IF s.recovery THEN (@ - 1) % LossWrap ELSE @],
       inTx)

(* Packets taken for lost go back to the rtx queue.                        *)
MoveToRtx(s, lost) ==
  Rearm([Discharge(Erase(s, lost), lost) EXCEPT
           !.rtx       = @ \cup lost,
           !.rtxMark   = Max(lost) + 1,
           !.lossCount = @ + Cardinality(lost)], lost)

(* fastLossRecovery(), without the sends it leaves to the end of Ack: they *)
(* would find the same gate and the same first packet.                     *)
FastLoss(s, a, c) ==
  LET w == Cwnd(c) \div Mtu
      u == IF a.cum >= s.recoverTo THEN [s EXCEPT !.recovery = FALSE] ELSE s
      v == IF u.recovery THEN u
           ELSE [u EXCEPT !.recovery = TRUE, !.lossCount = 0, !.recoverTo = s.highRecv]
      holes == {q \in v.tx : a.cum <= q /\ q < v.recoverTo /\ q >= v.rtxMark}
      lost  == {q \in holes : v.lossCount + Cardinality({p \in holes : p < q}) < w}
  IN IF a.ooo < Max({w, Reorder}) /\ ~u.recovery THEN u
     ELSE IF lost = {} THEN v
     ELSE MoveToRtx(v, lost)

(* Mutant: sequence numbers of RTS packets count as data.                  *)
FinishedEarly(s, a) == s.done \/ a.cum >= Pkts

(* checkFinished().                                                        *)
Finished(s, a) == s.done \/ a.cum - Cardinality(s.rts) >= Pkts

(* processAck().                                                           *)
Ack(s, a, c) ==
  LET u == IF FastRecovery THEN FastLoss(Account(s, a), a, c) ELSE Account(s, a)
  IN IF Finished(u, a) THEN [u EXCEPT !.done = TRUE] ELSE SendIfPermitted(u, c)
=============================================================================
