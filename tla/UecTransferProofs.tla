-------------------------- MODULE UecTransferProofs --------------------------
(***************************************************************************)
(* One flow implements ReliableTransfer, its port never idles and its      *)
(* count of bytes in flight never drifts, for every size of flow, window,  *)
(* packet and SACK bitmap and every number of losses.                      *)
(*                                                                         *)
(* The argument has two halves.  Of the sender: whatever its methods send, *)
(* a sequence number stays with it (_tx_bitmap or _rtx_queue) until an ACK *)
(* covers it (Moves, Settles).  Of the flow: what an ACK covers, the sink  *)
(* has, however late the ACK arrives and whatever overtook it              *)
(* (TransferInv).  A third part adds when the sink answers: with one       *)
(* constant window, the last packet that was sent has asked for it, or     *)
(* the source will send another (CalmInv).  A fourth says what can stop a  *)
(* flow: with nothing outstanding the window is open, so a source that     *)
(* could send has entered the port's queue or believes it has (Restless).  *)
(***************************************************************************)
EXTENDS UecFlowProofs

(* What is put on the wire, or waits for it, has a number; an RTS has one  *)
(* that RTS packets took.                                                  *)
Wired(t) ==
  /\ t.ctrl \subseteq t.rts
  /\ \A p \in t.out :
       p.seq \in 0 .. t.next - 1 /\ (p.kind = "rts" => p.seq \in t.rts)

PortOK(t) == ~t.busy => t.queued = 0 /\ t.ctrl = {}

(* How far _in_flight is off, with one window: every data packet sent is   *)
(* in flight, reported by the receiver, or waits for retransmission.       *)
Drift(t) ==
  t.inFlight + t.recvd + Bytes(t, t.rtx) - Mtu * (t.next - Cardinality(t.rts))

Idle(t) == t.started /\ t.backlog = 0 /\ t.tx \cup t.rtx = {}

(* u is t after some sends: what was outstanding or waiting still is, and  *)
(* so is everything new.                                                   *)
Moves(t, u) ==
  /\ t.next <= u.next
  /\ u.tx \cup u.rtx = t.tx \cup t.rtx \cup (t.next .. u.next - 1)
  /\ t.rts \subseteq u.rts
  /\ u.done = t.done /\ u.recvd = t.recvd
  /\ Idle(t) => Idle(u)
  /\ Wired(t) => Wired(u)
  /\ PortOK(t) => PortOK(u)
  /\ ~Dual => Drift(u) = Drift(t)

-----------------------------------------------------------------------------
(* Sends.                                                                  *)

(* Mtu times one more.                                                     *)
LEMMA MtuOnce ==
  ASSUME NEW n \in Int
  PROVE  Mtu * n \in Int /\ Mtu * (n + 1) = Mtu * n + Mtu
<1> DEFINE m == Mtu
<1>1. m \in Int
  BY SenderAssumption
<1> HIDE DEF m
<1>2. m * n \in Int /\ m * (n + 1) = m * n + m
  BY <1>1
<1> QED
  BY <1>2 DEF m

(* Sends after sends are sends.                                            *)
LEMMA MovesTransitive ==
  ASSUME NEW t \in Sender, NEW u \in Sender, NEW v \in Sender, Moves(t, u), Moves(u, v)
  PROVE  Moves(t, v)
<1>1. t.next \in Nat /\ u.next \in Nat /\ v.next \in Nat
  BY DEF Sender
<1>2. t.next .. v.next - 1 = (t.next .. u.next - 1) \cup (u.next .. v.next - 1)
  BY <1>1 DEF Moves
<1> QED
  BY <1>1, <1>2 DEF Moves

(* Only the data fields and the port matter; what is the same moves nothing. *)
SameData(t, u) ==
  /\ u.tx = t.tx /\ u.rtx = t.rtx /\ u.rts = t.rts /\ u.inFlight = t.inFlight
  /\ u.backlog = t.backlog /\ u.next = t.next /\ u.started = t.started
  /\ u.recvd = t.recvd /\ u.done = t.done /\ u.ctrl = t.ctrl /\ u.out = t.out

(* Nothing sent is nothing moved.                                          *)
LEMMA SameMoves ==
  ASSUME NEW t \in Sender, NEW u \in Sender, SameData(t, u), PortOK(t) => PortOK(u)
  PROVE  Moves(t, u)
<1>1. t.next \in Nat /\ t.next .. t.next - 1 = {}
  BY DEF Sender
<1>2. Wired(t) => Wired(u)
  BY DEF Wired, SameData
<1>3. Drift(u) = Drift(t)
  BY DEF Drift, Bytes, SameData
<1>4. Idle(t) => Idle(u)
  BY DEF Idle, SameData
<1> QED
  BY <1>1, <1>2, <1>3, <1>4 DEF Moves, SameData

(* What AddRecord leaves alone.                                            *)
LEMMA AddRecordFrame ==
  ASSUME NEW t \in Sender, NEW q, NEW w
  PROVE  LET r == AddRecord(t, q, w)
         IN r.out = t.out /\ r.done = t.done /\ r.recvd = t.recvd
<1> DEFINE tx == t.tx \cup {q}
           bf == t.before \cup (t.tx \X {q})
           tg == [t.tag EXCEPT ![q] = w]
           sf == IF w = "safe" THEN t.safe + Size(t, q) ELSE t.safe
           rd == IF w = "random" THEN t.random + Size(t, q) ELSE t.random
           tm == IF t.timer = NoTimer THEN q ELSE t.timer
<1>1. AddRecord(t, q, w) = [t EXCEPT !.tx = tx, !.before = bf, !.tag = tg,
                                     !.safe = sf, !.random = rd, !.timer = tm]
  BY Zenon DEF AddRecord
<1> HIDE DEF tx, bf, tg, sf, rd, tm
<1> QED
  BY <1>1 DEF Sender

(* New data takes the next number.                                         *)
LEMMA NewPacketMoves ==
  ASSUME NEW t, NEW S \in SUBSET Seqs, NEW w, NEW c \in EventChoices,
         Books(t, S), t.backlog > 0, GoodTag(w)
  PROVE  LET r == NewPacket(t, w, c)
         IN Moves(t, r) /\ r.next = t.next + 1 /\ r.busy = t.busy
<1> DEFINE v  == DrawnTag(w)
           p  == [seq |-> t.next, kind |-> "data", ar |-> WantsAck(t, v, c)]
           o  == t.out \cup {p}
           bl == t.backlog - 1
           fl == t.inFlight + Mtu
           nx == t.next + 1
           b  == [t EXCEPT !.backlog = bl, !.inFlight = fl, !.next = nx, !.out = o]
           r  == AddRecord(b, t.next, v)
<1>1. t \in Sender /\ Numbered(t)
  BY DEF Books
<1>2. t.next \in Seqs /\ t.next \in Nat /\ t.backlog \in Nat /\ v \in Tags
      /\ t.inFlight \in Int /\ t.recvd \in Nat /\ Mtu \in Nat
  BY <1>1, NextInSeqs, SenderAssumption DEF Sender, DrawnTag, GoodTag, Tags
<1>3. NewPacket(t, w, c) = r
  BY Zenon DEF NewPacket
<1>4. p \in Packet /\ p.seq = t.next /\ p.kind = "data"
  BY <1>2, SenderAssumption DEF Packet, WantsAck, Full
<1> HIDE DEF p
<1>5. o \in SUBSET Packet /\ bl \in 0 .. Pkts /\ fl \in Int /\ nx \in Nat
  BY <1>1, <1>2, <1>4, SenderAssumption DEF Sender
<1> HIDE DEF o, bl, fl, nx, v
<1>6. b \in Sender
  BY <1>1, <1>5 DEF Sender
<1>7. /\ b.tx = t.tx /\ b.rtx = t.rtx /\ b.rts = t.rts /\ b.inFlight = fl
      /\ b.backlog = bl /\ b.next = nx /\ b.started = t.started /\ b.recvd = t.recvd
      /\ b.busy = t.busy /\ b.queued = t.queued /\ b.ctrl = t.ctrl
      /\ b.out = o /\ b.done = t.done
  BY <1>1 DEF Sender
<1> HIDE DEF b
<1>8. Recorded(b, r, t.next, v)
  BY <1>2, <1>6, AddRecordFields
<1>9. r.out = b.out /\ r.done = b.done /\ r.recvd = b.recvd
  BY <1>6, AddRecordFrame
<1> HIDE DEF r
<1>10. /\ r.tx = t.tx \cup {t.next} /\ r.rtx = t.rtx /\ r.rts = t.rts /\ r.inFlight = fl
       /\ r.backlog = bl /\ r.next = nx /\ r.started = t.started /\ r.recvd = t.recvd
       /\ r.busy = t.busy /\ r.queued = t.queued /\ r.ctrl = t.ctrl
       /\ r.out = o /\ r.done = t.done
  BY <1>7, <1>8, <1>9 DEF Recorded
<1>11. t.next .. r.next - 1 = {t.next}
  BY <1>2, <1>10 DEF nx
<1>12. Wired(t) => Wired(r)
  <2> SUFFICES ASSUME Wired(t) PROVE Wired(r)
    OBVIOUS
  <2>1. \A x \in 0 .. t.next - 1 : x \in 0 .. r.next - 1
    BY <1>2, <1>10 DEF nx
  <2>2. t.next \in 0 .. r.next - 1
    BY <1>2, <1>10 DEF nx
  <2> QED
    BY <1>4, <1>10, <2>1, <2>2 DEF Wired, o
<1>13. PortOK(t) => PortOK(r)
  BY <1>10 DEF PortOK
<1>14. Drift(r) = Drift(t)
  <2> DEFINE n == t.next - Cardinality(t.rts)
             b0 == Bytes(t, t.rtx)
  <2>1. Bytes(r, r.rtx) = b0 /\ b0 \in Nat /\ Cardinality(t.rts) \in Nat
    BY <1>1, <1>10, BytesType, SeqsFinite DEF Bytes, Sender
  <2>2. n \in Int /\ r.next - Cardinality(r.rts) = n + 1
    BY <1>2, <1>10, <2>1 DEF nx
  <2>3. Drift(t) = t.inFlight + t.recvd + b0 - Mtu * n
    BY DEF Drift
  <2>4. Drift(r) = fl + t.recvd + b0 - Mtu * (n + 1)
    BY <1>10, <2>1, <2>2 DEF Drift
  <2> HIDE DEF n, b0
  <2>5. Mtu * n \in Int /\ Mtu * (n + 1) = Mtu * n + Mtu
    BY <2>2, MtuOnce
  <2> QED
    BY <1>2, <2>1, <2>3, <2>4, <2>5 DEF fl
<1>15. t.next <= r.next /\ ~Idle(t)
  BY <1>2, <1>10 DEF nx, Idle
<1> QED
  BY <1>3, <1>10, <1>11, <1>12, <1>13, <1>14, <1>15 DEF Moves, nx

(* A retransmission goes from the rtx queue to _tx_bitmap.                 *)
LEMMA RtxPacketMoves ==
  ASSUME NEW t, NEW S \in SUBSET Seqs, Books(t, S), t.rtx # {}
  PROVE  LET r == RtxPacket(t)
         IN Moves(t, r) /\ r.next = t.next /\ r.busy = t.busy
<1> DEFINE q  == Min(t.rtx)
           v  == t.tag[q]
           p  == [seq |-> q, kind |-> "data", ar |-> TRUE]
           rx == t.rtx \ {q}
           fl == t.inFlight + Bytes(t, Counted(t, {q}))
           o  == t.out \cup {p}
           b  == [t EXCEPT !.rtx = rx, !.inFlight = fl, !.out = o]
           r  == AddRecord(b, q, v)
<1>1. t \in Sender /\ Numbered(t) /\ t.rtx \in SUBSET Seqs /\ t.next \in Nat
  BY DEF Books, Sender
<1>2. q \in t.rtx /\ q \in Seqs /\ q \in 0 .. t.next - 1
  <2>1. Seqs \subseteq Nat
    BY DEF Seqs
  <2>2. q \in t.rtx
    BY <1>1, <2>1, MinIn
  <2> HIDE DEF q
  <2>3. q \in 0 .. t.next - 1
    BY <1>1, <2>2 DEF Numbered
  <2> QED
    BY <1>1, <2>2, <2>3
<1> DEFINE d == Bytes(t, Counted(t, {q}))
<1>3. d \in Nat /\ (~Dual => d = Bytes(t, {q}))
  BY <1>1, <1>2, CountedBytes DEF Counted
<1>4. v \in Tags /\ p \in Packet /\ p.seq = q /\ p.kind = "data"
  BY <1>1, <1>2 DEF Sender, Packet
<1>5. RtxPacket(t) = r
  BY Zenon DEF RtxPacket
<1> HIDE DEF q, v, p, d
<1>6. rx \in SUBSET Seqs /\ fl \in Int /\ o \in SUBSET Packet
  <2>1. t.inFlight \in Int /\ t.out \in SUBSET Packet
    BY <1>1 DEF Sender
  <2>2. fl = t.inFlight + d
    BY DEF d
  <2> QED
    BY <1>1, <1>3, <1>4, <2>1, <2>2
<1> HIDE DEF rx, fl, o
<1>7. b \in Sender
  BY <1>1, <1>6 DEF Sender
<1>8. /\ b.tx = t.tx /\ b.rtx = rx /\ b.rts = t.rts /\ b.inFlight = fl
      /\ b.backlog = t.backlog /\ b.next = t.next /\ b.started = t.started
      /\ b.recvd = t.recvd /\ b.busy = t.busy /\ b.queued = t.queued /\ b.ctrl = t.ctrl
      /\ b.out = o /\ b.done = t.done
  BY <1>1 DEF Sender
<1> HIDE DEF b
<1>9. Recorded(b, r, q, v)
  BY <1>2, <1>4, <1>7, AddRecordFields
<1>10. r.out = b.out /\ r.done = b.done /\ r.recvd = b.recvd
  BY <1>7, AddRecordFrame
<1> HIDE DEF r
<1>11. /\ r.tx = t.tx \cup {q} /\ r.rtx = rx /\ r.rts = t.rts /\ r.inFlight = fl
       /\ r.backlog = t.backlog /\ r.next = t.next /\ r.started = t.started
       /\ r.recvd = t.recvd /\ r.busy = t.busy /\ r.queued = t.queued /\ r.ctrl = t.ctrl
       /\ r.out = o /\ r.done = t.done
  BY <1>8, <1>9, <1>10 DEF Recorded
<1>12. t.next .. r.next - 1 = {}
  BY <1>1, <1>11
<1>13. r.tx \cup r.rtx = t.tx \cup t.rtx
  BY <1>2, <1>11 DEF rx
<1>14. Wired(t) => Wired(r)
  BY <1>2, <1>4, <1>11 DEF Wired, o
<1>15. PortOK(t) => PortOK(r)
  BY <1>11 DEF PortOK
<1>16. ~Dual => Drift(r) = Drift(t)
  <2> SUFFICES ASSUME ~Dual PROVE Drift(r) = Drift(t)
    OBVIOUS
  <2>1. Bytes(r, r.rtx) = Bytes(t, rx)
    BY <1>11 DEF Bytes
  <2>2. {q} \in SUBSET t.rtx
    BY <1>2
  <2>3. Bytes(t, rx) = Bytes(t, t.rtx) - Bytes(t, {q})
    BY <1>1, <2>2, BytesMinus DEF rx
  <2>4. Bytes(t, t.rtx) \in Nat /\ Bytes(t, {q}) = d /\ t.inFlight \in Int /\ t.recvd \in Nat
        /\ fl = t.inFlight + d
    BY <1>1, <1>3, BytesType DEF Sender, fl, d
  <2> DEFINE m == Mtu * (t.next - Cardinality(t.rts))
  <2>5. Drift(r) = fl + t.recvd + Bytes(t, rx) - m
    BY <1>11, <2>1 DEF Drift
  <2>6. Drift(t) = t.inFlight + t.recvd + Bytes(t, t.rtx) - m
    BY DEF Drift
  <2>7. m \in Int
    BY <1>1, SeqsFinite, SenderAssumption DEF Sender
  <2> HIDE DEF m
  <2> QED
    BY <1>3, <2>3, <2>4, <2>5, <2>6, <2>7
<1>17. t.next <= r.next /\ ~Idle(t)
  BY <1>1, <1>11 DEF Idle
<1> QED
  BY <1>5, <1>11, <1>12, <1>13, <1>14, <1>15, <1>16, <1>17 DEF Moves

(* A packet goes out: new, or one that waited to be sent again.            *)
LEMMA SendPacketMoves ==
  ASSUME NEW t, NEW S \in SUBSET Seqs, NEW w, NEW c \in EventChoices,
         Books(t, S), HasWork(t), GoodTag(w)
  PROVE  LET r == SendPacket(t, w, c)
         IN Moves(t, r) /\ r.next \in {t.next, t.next + 1} /\ r.busy = t.busy
<1>1. CASE t.rtx = {}
  BY <1>1, NewPacketMoves DEF SendPacket, HasWork
<1>2. CASE t.rtx # {}
  BY <1>2, RtxPacketMoves DEF SendPacket
<1> QED
  BY <1>1, <1>2

(* The port's fields move no data.                                         *)
LEMMA PortMoves ==
  ASSUME NEW t \in Sender
  PROVE  /\ t.busy => /\ Moves(t, Enqueue(t)) /\ Enqueue(t).busy
                      /\ Moves(t, [t EXCEPT !.queued = t.queued + 1])
         /\ Enqueue(t).next = t.next
         /\ [t EXCEPT !.queued = t.queued + 1].next = t.next
         /\ Moves(t, StartSending(t)) /\ StartSending(t).busy
         /\ StartSending(t).next = t.next
         /\ [t EXCEPT !.queued = 0] \in Sender /\ SameData(t, [t EXCEPT !.queued = 0])
         /\ [t EXCEPT !.blocked = FALSE] \in Sender
         /\ SameData(t, [t EXCEPT !.blocked = FALSE])
         /\ \A b \in BOOLEAN : /\ [t EXCEPT !.busy = b] \in Sender
                               /\ SameData(t, [t EXCEPT !.busy = b])
<1>1. /\ t.busy => Moves(t, Enqueue(t)) /\ Enqueue(t).busy
      /\ Enqueue(t).next = t.next
  <2> DEFINE n == t.queued + 1
             u == [t EXCEPT !.queued = n, !.blocked = TRUE]
  <2>1. Enqueue(t) = u /\ n \in Nat
    BY DEF Enqueue, Sender
  <2> HIDE DEF n
  <2>2. u \in Sender /\ SameData(t, u) /\ u.busy = t.busy
    BY <2>1 DEF Sender, SameData
  <2> HIDE DEF u
  <2> QED
    BY <2>1, <2>2, SameMoves DEF SameData, PortOK
<1>2. /\ t.busy => Moves(t, [t EXCEPT !.queued = t.queued + 1])
      /\ [t EXCEPT !.queued = t.queued + 1].next = t.next
  <2> DEFINE n == t.queued + 1
             u == [t EXCEPT !.queued = n]
  <2>1. n \in Nat
    BY DEF Sender
  <2> HIDE DEF n
  <2>2. u \in Sender /\ SameData(t, u) /\ u.busy = t.busy
    BY <2>1 DEF Sender, SameData
  <2> HIDE DEF u
  <2>3. (t.busy => Moves(t, u)) /\ u.next = t.next
    BY <2>2, SameMoves DEF SameData, PortOK
  <2> QED
    BY <2>3 DEF u, n
<1>3. Moves(t, StartSending(t)) /\ StartSending(t).busy /\ StartSending(t).next = t.next
  <2> DEFINE n == IF t.queued > 0 THEN t.queued - 1 ELSE t.queued
             u == [t EXCEPT !.busy = TRUE, !.queued = n]
  <2>1. StartSending(t) = u
    BY Zenon DEF StartSending
  <2>2. n \in Nat
    BY DEF Sender
  <2> HIDE DEF n
  <2>3. u \in Sender /\ SameData(t, u) /\ u.busy = TRUE
    BY <2>2 DEF Sender, SameData
  <2> HIDE DEF u
  <2> QED
    BY <2>1, <2>3, SameMoves DEF SameData, PortOK
<1>4. [t EXCEPT !.queued = 0] \in Sender /\ SameData(t, [t EXCEPT !.queued = 0])
  BY DEF Sender, SameData
<1>5. [t EXCEPT !.blocked = FALSE] \in Sender /\ SameData(t, [t EXCEPT !.blocked = FALSE])
  BY DEF Sender, SameData
<1>6. \A b \in BOOLEAN : [t EXCEPT !.busy = b] \in Sender /\ SameData(t, [t EXCEPT !.busy = b])
  BY DEF Sender, SameData
<1> QED
  BY <1>1, <1>2, <1>3, <1>4, <1>5, <1>6

(* An RTS leaves the port's queue.                                         *)
LEMMA SendControlMoves ==
  ASSUME NEW t \in Sender, t.ctrl # {}, t.rts \subseteq 0 .. t.next - 1
  PROVE  LET r == SendControl(t) IN Moves(t, r) /\ r.next = t.next /\ r.busy
<1> DEFINE q == Min(t.ctrl)
           p == [seq |-> q, kind |-> "rts", ar |-> TRUE]
           cs == t.ctrl \ {q}
           o == t.out \cup {p}
           u == [t EXCEPT !.busy = TRUE, !.ctrl = cs, !.out = o]
<1>1. t \in Sender /\ t.ctrl \in SUBSET Seqs /\ t.next \in Nat
  BY DEF Sender
<1>2. q \in t.ctrl /\ q \in Seqs
  <2>1. Seqs \subseteq Nat
    BY DEF Seqs
  <2> QED
    BY <1>1, <2>1, MinIn
<1>3. p \in Packet /\ p.seq = q
  BY <1>2 DEF Packet
<1>4. cs \in SUBSET Seqs /\ o \in SUBSET Packet
  BY <1>1, <1>3 DEF Sender
<1>5. SendControl(t) = u
  BY Zenon DEF SendControl
<1> HIDE DEF q, p, cs, o
<1>6. /\ u \in Sender
      /\ u.tx = t.tx /\ u.rtx = t.rtx /\ u.rts = t.rts /\ u.inFlight = t.inFlight
      /\ u.backlog = t.backlog /\ u.next = t.next /\ u.started = t.started
      /\ u.recvd = t.recvd /\ u.done = t.done /\ u.ctrl = cs /\ u.out = o /\ u.busy = TRUE
  BY <1>1, <1>4 DEF Sender
<1> HIDE DEF u
<1>7. Wired(t) => Wired(u)
  BY <1>2, <1>3, <1>6 DEF Wired, cs, o
<1>8. Drift(u) = Drift(t)
  BY <1>6 DEF Drift, Bytes
<1>9. t.next .. u.next - 1 = {} /\ t.next <= u.next
  BY <1>1, <1>6
<1> QED
  BY <1>5, <1>6, <1>7, <1>8, <1>9 DEF Moves, PortOK, Idle

(* The gate lets one packet out, or none.                                  *)
LEMMA SendIfPermittedMoves ==
  ASSUME NEW t, NEW S \in SUBSET Seqs, NEW c \in EventChoices, Books(t, S)
  PROVE  /\ Moves(t, SendIfPermitted(t, c))
         /\ SendIfPermitted(t, c).next \in {t.next, t.next + 1}
<1> DEFINE u    == SendIfPermitted(t, c)
           x    == SendPacket(t, c.pred, c)
           sent == StartSending(x)
<1>1. GoodTag(c.pred) /\ t \in Sender
  BY ChoiceTypes DEF Books
<1>2. CASE u = t
  <2>1. Moves(t, t)
    BY <1>1, SameMoves DEF SameData
  <2> QED
    BY <1>2, <2>1
<1>3. CASE t.busy /\ u = Enqueue(t)
  BY <1>1, <1>3, PortMoves
<1>4. CASE HasWork(t) /\ (u = sent \/ u = Enqueue(sent))
  <2>1. Moves(t, x) /\ x.next \in {t.next, t.next + 1} /\ x \in Sender
    BY <1>1, <1>4, SendPacketMoves, SendPacketBooks DEF Carries, Books
  <2>2. sent \in Sender /\ Enqueue(sent) \in Sender
    <3>1. Books(x, S)
      BY <1>1, <1>4, SendPacketBooks DEF Carries
    <3> HIDE DEF x
    <3>2. Books(sent, S)
      BY <3>1, PortBooks DEF Carries
    <3> HIDE DEF sent
    <3> QED
      BY <3>2, PortBooks DEF Carries, Books
  <2> HIDE DEF x
  <2>3. Moves(x, sent) /\ sent.busy /\ sent.next = x.next
    BY <2>1, PortMoves
  <2> HIDE DEF sent
  <2>4. Moves(sent, Enqueue(sent)) /\ Enqueue(sent).next = sent.next
    BY <2>2, <2>3, PortMoves
  <2>5. Moves(t, sent)
    BY <1>1, <2>1, <2>2, <2>3, MovesTransitive
  <2>6. Moves(t, Enqueue(sent))
    BY <1>1, <2>2, <2>4, <2>5, MovesTransitive
  <2> QED
    BY <1>4, <2>1, <2>3, <2>4, <2>5, <2>6
<1>5. \/ u = t
      \/ t.busy /\ u = Enqueue(t)
      \/ HasWork(t) /\ (u = sent \/ u = Enqueue(sent))
  BY DEF SendIfPermitted
<1> QED
  BY <1>2, <1>3, <1>4, <1>5

-----------------------------------------------------------------------------
(* Losses: records go back to the rtx queue.                               *)

Aside(t, u) ==
  /\ u.out = t.out /\ u.ctrl = t.ctrl /\ u.busy = t.busy /\ u.queued = t.queued
  /\ u.done = t.done /\ u.recvd = t.recvd

(* e is t without the records of A; its bytes are as they were.            *)
Gone(t, e, A) ==
  /\ e \in Sender /\ Aside(t, e)
  /\ e.tx = t.tx \ A /\ e.rtx = t.rtx /\ e.rts = t.rts
  /\ e.backlog = t.backlog /\ e.next = t.next /\ e.started = t.started
  /\ e.inFlight = t.inFlight

(* What erasing leaves alone.                                              *)
LEMMA EraseGone ==
  ASSUME NEW t \in Sender, NEW A \in SUBSET Seqs
  PROVE  Gone(t, Erase(t, A), A)
<1> DEFINE bf == {p \in t.before : p[1] \notin A /\ p[2] \notin A}
           tx == t.tx \ A
<1>1. Erase(t, A) = [t EXCEPT !.tx = tx, !.before = bf]
  BY Zenon DEF Erase
<1> HIDE DEF bf, tx
<1>2. Aside(t, Erase(t, A))
  BY <1>1 DEF Sender, Aside
<1> QED
  BY <1>2, EraseFields DEF Erased, Gone

(* Only the timer changes.                                                 *)
LEMMA RearmSame ==
  ASSUME NEW t \in Sender, Filed(t)
  PROVE  /\ RecalculateRTO(t) \in Sender
         /\ SameData(t, RecalculateRTO(t)) /\ Aside(t, RecalculateRTO(t))
         /\ \A S : /\ Rearm(t, S) \in Sender
                  /\ SameData(t, Rearm(t, S)) /\ Aside(t, Rearm(t, S))
<1> DEFINE o == Oldest(t)
           u == [t EXCEPT !.timer = o]
<1>1. o \in Seqs \cup {NoTimer}
  <2>1. CASE t.tx = {}
    BY <2>1 DEF Oldest
  <2>2. CASE t.tx # {}
    BY <2>2, OldestIn DEF Sender
  <2> QED
    BY <2>1, <2>2
<1>2. RecalculateRTO(t) = u
  BY Zenon DEF RecalculateRTO
<1> HIDE DEF o
<1>3. u \in Sender /\ SameData(t, u) /\ Aside(t, u)
  BY <1>1 DEF Sender, SameData, Aside
<1> HIDE DEF u
<1>4. SameData(t, t) /\ Aside(t, t)
  BY DEF SameData, Aside
<1> QED
  BY <1>2, <1>3, <1>4 DEF Rearm

(* u is t without the records of A and their bytes.                        *)
Lost(t, u, A) ==
  /\ u \in Sender /\ Aside(t, u)
  /\ u.tx = t.tx \ A /\ u.rtx = t.rtx /\ u.rts = t.rts
  /\ u.backlog = t.backlog /\ u.next = t.next /\ u.started = t.started
  /\ ~Dual => u.inFlight = t.inFlight - Bytes(t, A)

(* Discharge takes the bytes off.                                          *)
LEMMA DischargeLost ==
  ASSUME NEW t \in Sender, NEW A \in SUBSET Seqs, NEW e, Gone(t, e, A)
  PROVE  Lost(t, Discharge(e, A), A)
<1> DEFINE u  == Discharge(e, A)
           fl == e.inFlight - Bytes(e, Counted(e, A))
           sf == e.safe - Bytes(e, Tagged(e, A, "safe"))
           rd == e.random - Bytes(e, Tagged(e, A, "random"))
<1>1. u = [e EXCEPT !.inFlight = fl, !.safe = sf, !.random = rd]
  BY Zenon DEF Discharge
<1>2. e \in Sender
  BY DEF Gone
<1>3. fl \in Int /\ sf \in Int /\ rd \in Int
  <2>1. /\ Bytes(e, Counted(e, A)) \in Nat
        /\ Bytes(e, Tagged(e, A, "safe")) \in Nat
        /\ Bytes(e, Tagged(e, A, "random")) \in Nat
    BY <1>2, CountedBytes
  <2>2. e.inFlight \in Int /\ e.safe \in Int /\ e.random \in Int
    BY <1>2 DEF Sender
  <2> QED
    BY <2>1, <2>2
<1>4. ~Dual => fl = t.inFlight - Bytes(t, A)
  BY DEF Counted, Bytes, Gone
<1> HIDE DEF fl, sf, rd, u
<1>5. /\ u \in Sender /\ Aside(e, u) /\ u.tx = e.tx /\ u.rtx = e.rtx /\ u.rts = e.rts
      /\ u.backlog = e.backlog /\ u.next = e.next /\ u.started = e.started
      /\ u.inFlight = fl
  BY <1>1, <1>2, <1>3 DEF Sender, Aside
<1> QED
  BY <1>4, <1>5 DEF Lost, Gone, Aside, u

(* What was lost waits to be sent again: nothing has gone.                 *)
LEMMA RequeueMoves ==
  ASSUME NEW t, NEW A \in SUBSET t.tx, NEW u, NEW x \in Sender,
         Books(t, {}), Lost(t, u, A),
         /\ x.rtx = u.rtx \cup A /\ x.tx = u.tx /\ x.rts = u.rts
         /\ x.backlog = u.backlog /\ x.next = u.next /\ x.started = u.started
         /\ x.inFlight = u.inFlight /\ Aside(u, x)
  PROVE  Moves(t, x) /\ x.next = t.next
<1>1. t \in Sender /\ t.next \in Nat /\ A \in SUBSET Seqs /\ t.rtx \in SUBSET Seqs
      /\ A \cap t.rtx = {}
  BY DEF Books, Sender, Filed
<1>2. x.tx \cup x.rtx = t.tx \cup t.rtx
  BY DEF Lost
<1>3. t.next .. x.next - 1 = {} /\ x.next = t.next
  BY <1>1 DEF Lost
<1>4. Wired(t) => Wired(x)
  BY DEF Wired, Lost, Aside
<1>5. PortOK(t) => PortOK(x)
  BY DEF PortOK, Lost, Aside
<1>6. Idle(t) => Idle(x)
  BY <1>2 DEF Idle, Lost
<1>7. ~Dual => Drift(x) = Drift(t)
  <2> SUFFICES ASSUME ~Dual PROVE Drift(x) = Drift(t)
    OBVIOUS
  <2> DEFINE m  == Mtu * (t.next - Cardinality(t.rts))
             ba == Bytes(t, A)
             br == Bytes(t, t.rtx)
  <2>1. Bytes(x, x.rtx) = Bytes(t, t.rtx \cup A)
    BY DEF Bytes, Lost
  <2>2. Bytes(t, t.rtx \cup A) = br + ba /\ ba \in Nat /\ br \in Nat
    BY <1>1, BytesUnion, BytesType
  <2>3. m \in Int
    BY <1>1, SeqsFinite, MtuOnce DEF Sender
  <2>4. Drift(t) = t.inFlight + t.recvd + br - m
    BY DEF Drift
  <2>5. Drift(x) = (t.inFlight - ba) + t.recvd + (br + ba) - m
    BY <2>1, <2>2 DEF Drift, Lost, Aside
  <2>6. t.inFlight \in Int /\ t.recvd \in Nat
    BY <1>1 DEF Sender
  <2> HIDE DEF m, ba, br
  <2> QED
    BY <2>2, <2>3, <2>4, <2>5, <2>6
<1> QED
  BY <1>1, <1>2, <1>3, <1>4, <1>5, <1>6, <1>7 DEF Moves, Lost, Aside

(* queueForRtx() of what was lost.                                         *)
LEMMA QueueMoves ==
  ASSUME NEW t, NEW A \in SUBSET t.tx, NEW u, NEW c \in EventChoices, NEW S \in SUBSET Seqs,
         Books(t, {}), Lost(t, u, A), Books(u, S)
  PROVE  LET r == QueueForRtx(u, A, c)
         IN r \in Sender /\ Moves(t, r) /\ r.next \in {t.next, t.next + 1}
<1> DEFINE rx == u.rtx \cup A
           x  == [u EXCEPT !.rtx = rx]
<1>1. t \in Sender /\ u \in Sender /\ A \in SUBSET Seqs /\ A \cap u.tx = {}
      /\ A \subseteq 0 .. u.next - 1
  BY DEF Books, Sender, Lost, Numbered
<1>2. QueueForRtx(u, A, c) = SendIfPermitted(x, c)
  BY Zenon DEF QueueForRtx
<1>3. Books(x, S)
  BY <1>1, ToQueueBooks DEF Carries
<1> HIDE DEF rx
<1>4. /\ x.rtx = rx /\ x.tx = u.tx /\ x.rts = u.rts
      /\ x.backlog = u.backlog /\ x.next = u.next /\ x.started = u.started
      /\ x.inFlight = u.inFlight /\ Aside(u, x)
  BY <1>1 DEF Sender, Aside
<1> HIDE DEF x
<1>5. x \in Sender
  BY <1>3 DEF Books
<1>6. Moves(t, x) /\ x.next = t.next
  BY <1>4, <1>5, RequeueMoves DEF rx
<1>7. Moves(x, SendIfPermitted(x, c)) /\ SendIfPermitted(x, c).next \in {x.next, x.next + 1}
  BY <1>3, SendIfPermittedMoves
<1>8. SendIfPermitted(x, c) \in Sender
  BY <1>3, SendIfPermittedBooks DEF Carries, Books
<1> QED
  BY <1>1, <1>2, <1>5, <1>6, <1>7, <1>8, MovesTransitive

(* Packets taken for lost.                                                 *)
LEMMA MoveToRtxMoves ==
  ASSUME NEW t, NEW A \in SUBSET t.tx, A # {}, Books(t, {})
  PROVE  Moves(t, MoveToRtx(t, A)) /\ MoveToRtx(t, A).next = t.next
<1> DEFINE d  == Discharge(Erase(t, A), A)
           rx == d.rtx \cup A
           mk == Max(A) + 1
           lc == d.lossCount + Cardinality(A)
           u  == [d EXCEPT !.rtx = rx, !.rtxMark = mk, !.lossCount = lc]
<1>1. t \in Sender /\ A \in SUBSET Seqs
  BY DEF Books, Sender
<1>2. MoveToRtx(t, A) = Rearm(u, A)
  BY Zenon DEF MoveToRtx
<1>3. Lost(t, d, A)
  BY <1>1, EraseGone, DischargeLost
<1> HIDE DEF d
<1>4. d \in Sender
  BY <1>3 DEF Lost
<1>5. rx \in SUBSET Seqs
  BY <1>1, <1>4 DEF Sender
<1>6. mk \in Nat
  <2>1. A \in SUBSET Nat /\ Pkts + MaxRts \in Nat /\ \A y \in A : y <= Pkts + MaxRts
    BY <1>1, SenderAssumption DEF Seqs
  <2>2. Max(A) \in A
    BY <2>1, MaxIn
  <2>3. Max(A) \in Nat
    BY <2>1, <2>2
  <2> QED
    BY <2>3
<1>7. lc \in Nat
  BY <1>1, <1>4, SeqsFinite DEF Sender
<1> HIDE DEF rx, mk, lc
<1>8. u \in Sender
  BY <1>4, <1>5, <1>6, <1>7 DEF Sender
<1>9. /\ u.rtx = rx /\ u.tx = d.tx /\ u.rts = d.rts /\ u.before = d.before
      /\ u.backlog = d.backlog /\ u.next = d.next /\ u.started = d.started
      /\ u.inFlight = d.inFlight /\ Aside(d, u)
  BY <1>4 DEF Sender, Aside
<1> HIDE DEF u
<1>10. Moves(t, u) /\ u.next = t.next
  BY <1>3, <1>8, <1>9, RequeueMoves DEF rx
<1>11. Filed(u)
  <2>1. Lifted(t, d, A) /\ d.rtx = t.rtx
    BY <1>1, EraseFields, DischargeErased DEF d
  <2>2. Filed(d) /\ d.tx = t.tx \ A
    BY <2>1, LiftedBooks DEF Books, Carries, Lifted
  <2>3. u.tx \cap u.rtx = {}
    BY <1>9, <2>2 DEF Filed, rx
  <2> QED
    BY <1>9, <2>2, <2>3 DEF Filed
<1>12. /\ Rearm(u, A) \in Sender /\ SameData(u, Rearm(u, A)) /\ Aside(u, Rearm(u, A))
  BY <1>8, <1>11, RearmSame
<1>13. Moves(u, Rearm(u, A)) /\ Rearm(u, A).next = u.next
  BY <1>8, <1>12, SameMoves DEF SameData, Aside, PortOK
<1> QED
  BY <1>1, <1>2, <1>8, <1>10, <1>12, <1>13, MovesTransitive

-----------------------------------------------------------------------------
(* The events.                                                             *)

(* sendRTS() instead of a packet that is still unacknowledged.             *)
LEMMA RtsMoves ==
  ASSUME NEW t, Books(t, {}), Cardinality(t.rts) < MaxRts, t.tx \cup t.rtx # {}
  PROVE  Moves(t, Rts(t)) /\ Rts(t).next = t.next + 1
<1> DEFINE q  == t.next
           ra == t.rts \cup {q}
           nx == t.next + 1
           cs == t.ctrl \cup {q}
           b  == [t EXCEPT !.rts = ra, !.next = nx, !.ctrl = cs]
           r  == AddRecord(b, q, "none")
<1>1. t \in Sender /\ Numbered(t)
  BY DEF Books
<1>2. q \in Seqs /\ q \in Nat /\ q \notin t.rts /\ q \notin t.rtx
  <2>1. q \in Seqs /\ q \in Nat
    BY <1>1, NextInSeqs DEF Seqs
  <2>2. q \notin 0 .. t.next - 1
    BY <2>1
  <2> QED
    BY <1>1, <2>1, <2>2 DEF Numbered
<1>3. ra \in SUBSET Seqs /\ nx \in Nat /\ cs \in SUBSET Seqs
  BY <1>1, <1>2 DEF Sender
<1>4. Rts(t) = IF t.busy THEN r ELSE SendControl(r)
  BY Zenon DEF Rts
<1> HIDE DEF q, ra, nx, cs, b
<1>5. b \in Sender
  BY <1>1, <1>3 DEF Sender, b
<1>6. /\ b.tx = t.tx /\ b.rtx = t.rtx /\ b.rts = ra /\ b.inFlight = t.inFlight
      /\ b.next = nx /\ b.recvd = t.recvd /\ b.done = t.done /\ b.busy = t.busy
      /\ b.queued = t.queued /\ b.ctrl = cs /\ b.out = t.out
  BY <1>1 DEF Sender, b
<1>7. Recorded(b, r, q, "none")
  BY <1>2, <1>5, AddRecordFields DEF Tags
<1>8. r.out = b.out /\ r.done = b.done /\ r.recvd = b.recvd
  BY <1>5, AddRecordFrame
<1> HIDE DEF r
<1>9. /\ r \in Sender
      /\ r.tx = t.tx \cup {q} /\ r.rtx = t.rtx /\ r.rts = ra /\ r.inFlight = t.inFlight
      /\ r.next = nx /\ r.recvd = t.recvd /\ r.done = t.done /\ r.busy = t.busy
      /\ r.queued = t.queued /\ r.ctrl = cs /\ r.out = t.out
  BY <1>6, <1>7, <1>8 DEF Recorded
<1>10. t.next .. r.next - 1 = {q} /\ t.next <= r.next
  BY <1>2, <1>9 DEF q, nx
<1>11. Drift(r) = Drift(t)
  <2>1. r.rtx \ r.rts = t.rtx \ t.rts /\ r.rtx \cap r.rts = t.rtx \cap t.rts
    BY <1>2, <1>9 DEF ra
  <2>2. Bytes(r, r.rtx) = Bytes(t, t.rtx)
    BY <2>1 DEF Bytes
  <2>3. IsFiniteSet(t.rts) /\ Cardinality(t.rts) \in Nat
    BY <1>1, SeqsFinite DEF Sender
  <2>4. Cardinality(ra) = Cardinality(t.rts) + 1
    BY <1>2, <2>3, FS_AddElement DEF ra
  <2>5. r.next - Cardinality(r.rts) = t.next - Cardinality(t.rts)
    BY <1>2, <1>9, <2>3, <2>4 DEF nx, q
  <2> QED
    BY <1>9, <2>2, <2>5 DEF Drift
<1>12. Wired(t) => Wired(r)
  <2> SUFFICES ASSUME Wired(t) PROVE Wired(r)
    OBVIOUS
  <2>1. \A x \in 0 .. t.next - 1 : x \in 0 .. r.next - 1
    BY <1>2, <1>9 DEF nx, q
  <2> QED
    BY <1>9, <2>1 DEF Wired, ra, cs
<1>13. CASE t.busy
  <2>1. Moves(t, r)
    BY <1>9, <1>10, <1>11, <1>12, <1>13 DEF Moves, PortOK, Idle, ra
  <2> QED
    BY <1>4, <1>9, <1>13, <2>1 DEF nx
<1>14. CASE ~t.busy
  <2> DEFINE v == SendControl(r)
  <2>1. r.rts \subseteq 0 .. r.next - 1 /\ r.ctrl # {}
    <3>1. t.rts \subseteq 0 .. t.next - 1
      BY <1>1 DEF Numbered
    <3> QED
      BY <1>2, <1>9, <3>1 DEF ra, nx, q, cs
  <2>2. Moves(r, v) /\ v.next = r.next /\ v.busy
    BY <1>9, <2>1, SendControlMoves
  <2> HIDE DEF v
  <2>3. r.next .. v.next - 1 = {}
    BY <1>2, <1>9, <2>2 DEF nx, q
  <2>4. v.tx \cup v.rtx = t.tx \cup t.rtx \cup (t.next .. v.next - 1)
    BY <1>9, <1>10, <2>2, <2>3 DEF Moves
  <2>5. Moves(t, v)
    BY <1>9, <1>10, <1>11, <1>12, <2>2, <2>4 DEF Moves, PortOK, Idle, ra
  <2> QED
    BY <1>4, <1>9, <1>14, <2>2, <2>5 DEF v, nx
<1> QED
  BY <1>13, <1>14 DEF q

(* cantSend(): the turn is over; an RTS may go instead.                    *)
LEMMA CantSendMoves ==
  ASSUME NEW t, Books(t, {})
  PROVE  LET r == CantSend(t)
         IN r \in Sender /\ Moves(t, r) /\ PortOK(r) /\ r.next = t.next
<1> DEFINE x == [t EXCEPT !.queued = 0]
<1>1. t \in Sender /\ t.rts \subseteq 0 .. t.next - 1
  BY DEF Books, Numbered
<1>2. CantSend(t) = IF x.ctrl # {} THEN SendControl(x) ELSE x
  BY Zenon DEF CantSend
<1>3. x \in Sender /\ SameData(t, x) /\ x.queued = 0 /\ x.busy = t.busy
  BY <1>1 DEF Sender, SameData
<1>4. Books(x, {})
  BY PortBooks DEF Carries
<1> HIDE DEF x
<1>5. Moves(t, x) /\ x.next = t.next
  BY <1>1, <1>3, SameMoves DEF PortOK, SameData
<1>6. CASE x.ctrl = {}
  BY <1>2, <1>3, <1>5, <1>6 DEF PortOK
<1>7. CASE x.ctrl # {}
  <2>1. x.rts \subseteq 0 .. x.next - 1
    BY <1>1, <1>3 DEF SameData
  <2>2. Moves(x, SendControl(x)) /\ SendControl(x).next = x.next /\ SendControl(x).busy
    BY <1>3, <1>7, <2>1, SendControlMoves
  <2>3. SendControl(x) \in Sender
    BY <1>4, <1>7, SendControlBooks DEF Carries, Books
  <2> QED
    BY <1>1, <1>2, <1>3, <1>5, <1>7, <2>2, <2>3, MovesTransitive DEF PortOK
<1> QED
  BY <1>6, <1>7

(* timeToSend(): at most one packet.                                       *)
LEMMA TimeToSendMoves ==
  ASSUME NEW t, NEW c \in EventChoices, Books(t, {})
  PROVE  LET r == TimeToSend(t, c)
         IN Moves(t, r) /\ PortOK(r) /\ r.next \in {t.next, t.next + 1}
<1> DEFINE u    == [t EXCEPT !.blocked = FALSE]
           x    == SendPacket(u, c.pred, c)
           sent == StartSending(x)
<1>1. Books(u, {}) /\ t \in Sender
  BY PortBooks DEF Carries, Books
<1>2. u \in Sender /\ SameData(t, u) /\ u.busy = t.busy /\ u.queued = t.queued
  BY <1>1 DEF Sender, SameData
<1>3. \/ TimeToSend(t, c) = CantSend(t)
      \/ TimeToSend(t, c) = CantSend(u)
      \/ HasWork(t) /\ TimeToSend(t, c) \in {sent, Enqueue(sent)}
  BY DEF TimeToSend
<1> HIDE DEF u
<1>4. Moves(t, u) /\ u.next = t.next
  BY <1>1, <1>2, SameMoves DEF PortOK, SameData
<1>5. CASE TimeToSend(t, c) = CantSend(t)
  BY <1>5, CantSendMoves
<1>6. CASE TimeToSend(t, c) = CantSend(u)
  <2>1. /\ CantSend(u) \in Sender /\ Moves(u, CantSend(u)) /\ PortOK(CantSend(u))
        /\ CantSend(u).next = u.next
    BY <1>1, CantSendMoves
  <2> QED
    BY <1>1, <1>2, <1>4, <1>6, <2>1, MovesTransitive
<1>7. CASE HasWork(t) /\ TimeToSend(t, c) \in {sent, Enqueue(sent)}
  <2>1. HasWork(u) /\ {} \in SUBSET Seqs /\ GoodTag(c.pred)
    BY <1>2, <1>7, ChoiceTypes DEF HasWork, SameData
  <2>2. Moves(u, x) /\ x.next \in {u.next, u.next + 1} /\ x \in Sender /\ Books(x, {})
    BY <1>1, <2>1, SendPacketMoves, SendPacketBooks DEF Carries, Books
  <2> HIDE DEF x
  <2>3. Moves(x, sent) /\ sent.busy /\ sent.next = x.next
    BY <2>2, PortMoves
  <2>4. Books(sent, {})
    BY <2>2, PortBooks DEF Carries
  <2> HIDE DEF sent
  <2>5. Books(Enqueue(sent), {}) /\ sent \in Sender
    BY <2>4, PortBooks DEF Carries, Books
  <2>6. Moves(sent, Enqueue(sent)) /\ Enqueue(sent).next = sent.next /\ Enqueue(sent).busy
    BY <2>3, <2>5, PortMoves
  <2>7. Enqueue(sent) \in Sender
    BY <2>5 DEF Books
  <2>8. Moves(t, x)
    BY <1>1, <1>2, <1>4, <2>2, MovesTransitive
  <2>9. Moves(t, sent)
    BY <1>1, <2>2, <2>3, <2>5, <2>8, MovesTransitive
  <2>10. Moves(t, Enqueue(sent))
    BY <1>1, <2>5, <2>6, <2>7, <2>9, MovesTransitive
  <2> QED
    BY <1>4, <1>7, <2>2, <2>3, <2>6, <2>9, <2>10 DEF PortOK
<1> QED
  BY <1>3, <1>5, <1>6, <1>7

(* The port falls free, and is taken again if anything waits for it.       *)
LEMMA PortFreeMoves ==
  ASSUME NEW t, NEW control, NEW c \in EventChoices, Books(t, {})
  PROVE  LET r == PortFree(t, control, c)
         IN Moves(t, r) /\ PortOK(r) /\ r.next \in {t.next, t.next + 1}
<1> DEFINE u == [t EXCEPT !.busy = FALSE]
           r == PortFree(t, control, c)
<1>1. Books(u, {}) /\ t \in Sender
  BY PortBooks DEF Carries, Books
<1>2. u \in Sender /\ SameData(t, u) /\ u.queued = t.queued /\ u.queued \in Nat
  BY <1>1 DEF Sender, SameData
<1>3. \/ r = TimeToSend(u, c)
      \/ r = SendControl(u) /\ u.ctrl # {}
      \/ r = u /\ ~(u.queued > 0) /\ u.ctrl = {}
  BY DEF PortFree
<1> HIDE DEF u, r
<1>4. Moves(u, r) /\ PortOK(r) /\ r.next \in {u.next, u.next + 1}
  <2>1. CASE r = TimeToSend(u, c)
    BY <1>1, <2>1, TimeToSendMoves
  <2>2. CASE r = SendControl(u) /\ u.ctrl # {}
    <3>1. u.rts \subseteq 0 .. u.next - 1
      BY <1>1 DEF Books, Numbered
    <3> QED
      BY <1>2, <2>2, <3>1, SendControlMoves DEF PortOK
  <2>3. CASE r = u /\ ~(u.queued > 0) /\ u.ctrl = {}
    <3>1. Moves(u, u)
      BY <1>2, SameMoves DEF SameData
    <3> QED
      BY <1>2, <2>3, <3>1 DEF PortOK
  <2> QED
    BY <1>3, <2>1, <2>2, <2>3
<1>5. Wired(t) => Wired(u)
  BY <1>2 DEF Wired, SameData
<1>6. Drift(u) = Drift(t)
  BY <1>2 DEF Drift, Bytes, SameData
<1>7. Moves(t, r)
  BY <1>2, <1>4, <1>5, <1>6 DEF Moves, SameData, Idle
<1> QED
  BY <1>2, <1>4, <1>7 DEF r, SameData

(* startFlow(): the first packet.                                          *)
LEMMA StartFlowMoves ==
  ASSUME NEW t, NEW c \in EventChoices, Books(t, {}), ~t.started
  PROVE  LET r == StartFlow(t, c)
         IN Moves(t, r) /\ r.next \in {t.next, t.next + 1}
<1> DEFINE b    == [t EXCEPT !.started = TRUE, !.backlog = Pkts]
           x    == NewPacket(b, c.pred, c)
           sent == StartSending(x)
<1>1. t \in Sender /\ Pkts > 0 /\ {} \in SUBSET Seqs /\ GoodTag(c.pred) /\ t.next \in Nat
  BY SenderAssumption, ChoiceTypes DEF Books, Sender
<1>2. b \in Sender
  <2>1. Pkts \in 0 .. Pkts
    BY <1>1, SenderAssumption
  <2> QED
    BY <1>1, <2>1 DEF Sender
<1>3. /\ b.tx = t.tx /\ b.rtx = t.rtx /\ b.rts = t.rts /\ b.inFlight = t.inFlight
      /\ b.next = t.next /\ b.recvd = t.recvd /\ b.done = t.done
      /\ b.ctrl = t.ctrl /\ b.out = t.out /\ b.busy = t.busy /\ b.queued = t.queued
      /\ b.backlog = Pkts /\ b.started
      /\ b.tag = t.tag /\ b.before = t.before /\ b.timer = t.timer
      /\ b.safe = t.safe /\ b.random = t.random
  BY <1>1 DEF Sender
<1>4. \/ t.busy /\ StartFlow(t, c) = Enqueue(b)
      \/ StartFlow(t, c) = Enqueue(sent)
      \/ StartFlow(t, c) = sent
  BY DEF StartFlow
<1> HIDE DEF b
<1>5. Moves(t, b)
  <2>1. Wired(t) => Wired(b)
    BY <1>3 DEF Wired
  <2>2. Drift(b) = Drift(t) /\ t.next .. b.next - 1 = {} /\ t.next <= b.next
    BY <1>1, <1>3 DEF Drift, Bytes
  <2> QED
    BY <1>3, <2>1, <2>2 DEF Moves, PortOK, Idle
<1>6. Books(b, {})
  <2>1. Numbered(b)
    <3>1. t.backlog \in 0 .. Pkts /\ t.next \in Nat /\ Cardinality(t.rts) \in Nat
      BY <1>1, SeqsFinite DEF Sender
    <3> QED
      BY <1>1, <1>3, <3>1, SenderAssumption DEF Books, Numbered
  <2>2. Filed(b)
    BY <1>3 DEF Books, Filed
  <2>3. Timed(b, {})
    BY <1>3 DEF Books, Timed, Oldest
  <2>4. Exact(b)
    BY <1>3 DEF Books, Exact, Charged, Bytes, Tagged
  <2>5. Balanced(b)
    BY <1>3 DEF Books, Balanced
  <2> QED
    BY <1>2, <2>1, <2>2, <2>3, <2>4, <2>5 DEF Books
<1>7. t.busy => Moves(t, Enqueue(b)) /\ Enqueue(b).next = t.next
  <2>1. b.busy => Moves(b, Enqueue(b)) /\ Enqueue(b).next = b.next
    BY <1>2, PortMoves
  <2>2. Enqueue(b) \in Sender
    BY <1>6, PortBooks DEF Carries, Books
  <2> QED
    BY <1>1, <1>2, <1>3, <1>5, <2>1, <2>2, MovesTransitive
<1>8. Moves(b, x) /\ x.next = b.next + 1 /\ x \in Sender /\ Books(x, {})
  BY <1>1, <1>3, <1>6, NewPacketMoves, NewPacketBooks DEF Books
<1> HIDE DEF x
<1>9. Moves(x, sent) /\ sent.busy /\ sent.next = x.next
  BY <1>8, PortMoves
<1>10. Books(sent, {})
  BY <1>8, PortBooks DEF Carries
<1> HIDE DEF sent
<1>11. Enqueue(sent) \in Sender /\ sent \in Sender
  BY <1>10, PortBooks DEF Carries, Books
<1>12. Moves(sent, Enqueue(sent)) /\ Enqueue(sent).next = sent.next
  BY <1>9, <1>11, PortMoves
<1>13. Moves(t, x)
  BY <1>1, <1>2, <1>5, <1>8, MovesTransitive
<1>14. Moves(t, sent)
  BY <1>1, <1>8, <1>9, <1>11, <1>13, MovesTransitive
<1>15. Moves(t, Enqueue(sent))
  BY <1>1, <1>11, <1>12, <1>14, MovesTransitive
<1> QED
  BY <1>3, <1>4, <1>7, <1>8, <1>9, <1>12, <1>14, <1>15

(* rtxTimerExpired(): the packet is queued again, and goes out unless the  *)
(* window is full; then an RTS does.                                       *)
LEMMA TimeoutMoves ==
  ASSUME NEW t, NEW q \in t.tx, NEW mayRts, NEW c \in EventChoices,
         Books(t, {}), mayRts => Cardinality(t.rts) < MaxRts
  PROVE  LET r == Timeout(t, q, mayRts, c)
         IN Moves(t, r) /\ r.next \in t.next .. t.next + 2
<1> DEFINE e == Erase(t, {q})
           x == RecalculateRTO(e)
           u == Discharge(x, {q})
           v == QueueForRtx(u, {q}, c)
           r == Timeout(t, q, mayRts, c)
<1>1. t \in Sender /\ {q} \in SUBSET Seqs /\ {q} \in SUBSET t.tx /\ t.next \in Nat
      /\ {} \in SUBSET Seqs
  BY DEF Books, Sender
<1>2. \/ r = v
      \/ mayRts /\ r = Rts(v)
      \/ v.busy /\ r = [v EXCEPT !.queued = v.queued + 1]
      \/ ~v.busy /\ r = StartSending(RtxPacket(v))
  BY DEF Timeout
<1>3. /\ Books(u, {}) /\ u.rts = t.rts
      /\ {q} \cap u.tx = {} /\ {q} \subseteq 0 .. u.next - 1
  BY TimedOutBooks DEF Carries
<1>4. Lost(t, u, {q})
  <2>1. Gone(t, e, {q}) /\ Erased(t, e, {q})
    BY <1>1, EraseGone, EraseFields
  <2> HIDE DEF e
  <2>2. Filed(e) /\ e \in Sender
    BY <2>1 DEF Filed, Erased, Books
  <2>3. x \in Sender /\ SameData(e, x) /\ Aside(e, x)
    BY <2>2, RearmSame
  <2> HIDE DEF x
  <2>4. Gone(t, x, {q})
    BY <2>1, <2>3 DEF Gone, SameData, Aside
  <2> QED
    BY <1>1, <2>4, DischargeLost
<1> SUFFICES Moves(t, r) /\ r.next \in t.next .. t.next + 2
  OBVIOUS
<1> HIDE DEF r, u
<1>5. v \in Sender /\ Moves(t, v) /\ v.next \in {t.next, t.next + 1}
  BY <1>1, <1>3, <1>4, QueueMoves
<1>6. Carries(u, v, {}) /\ (v.busy \/ v.rtx = u.rtx \cup {q})
  <2> DEFINE A == {q}
  <2>1. A \in SUBSET Seqs /\ A \cap u.tx = {} /\ A \subseteq 0 .. u.next - 1
    BY <1>1, <1>3
  <2> HIDE DEF A
  <2>2. Carries(u, QueueForRtx(u, A, c), {})
        /\ (QueueForRtx(u, A, c).busy \/ QueueForRtx(u, A, c).rtx = u.rtx \cup A)
    BY <1>1, <1>3, <2>1, QueueForRtxBooks
  <2> QED
    BY <2>2 DEF A
<1> HIDE DEF v
<1>7. Books(v, {}) /\ v.rts = t.rts
  BY <1>3, <1>6 DEF Carries
<1>8. CASE mayRts /\ r = Rts(v)
  <2>1. v.tx \cup v.rtx # {} /\ Cardinality(v.rts) < MaxRts
    BY <1>5, <1>7, <1>8 DEF Moves
  <2>2. Moves(v, Rts(v)) /\ Rts(v).next = v.next + 1
    BY <1>7, <2>1, RtsMoves
  <2>3. Rts(v) \in Sender
    BY <1>7, <2>1, RtsBooks DEF Books
  <2> QED
    BY <1>1, <1>5, <1>8, <2>2, <2>3, MovesTransitive
<1>9. CASE v.busy /\ r = [v EXCEPT !.queued = v.queued + 1]
  <2>1. Moves(v, r) /\ r.next = v.next
    BY <1>5, <1>9, PortMoves
  <2>2. r \in Sender
    BY <1>7, <1>9, PortBooks DEF Carries, Books
  <2> QED
    BY <1>1, <1>5, <2>1, <2>2, MovesTransitive
<1>10. CASE ~v.busy /\ r = StartSending(RtxPacket(v))
  <2> DEFINE y == RtxPacket(v)
  <2>1. v.rtx # {}
    BY <1>6, <1>10
  <2>2. Books(y, {}) /\ Moves(v, y) /\ y.next = v.next
    BY <1>1, <1>7, <2>1, RtxPacketBooks, RtxPacketMoves
  <2>3. r = StartSending(y)
    BY <1>10
  <2> HIDE DEF y
  <2>4. y \in Sender
    BY <2>2 DEF Books
  <2>5. Moves(y, r) /\ r.next = y.next
    BY <2>3, <2>4, PortMoves
  <2>6. r \in Sender
    BY <2>2, <2>3, PortBooks DEF Carries, Books
  <2>7. Moves(t, y)
    BY <1>1, <1>5, <2>2, <2>4, MovesTransitive
  <2>8. Moves(t, r)
    BY <1>1, <2>4, <2>5, <2>6, <2>7, MovesTransitive
  <2> QED
    BY <1>1, <1>5, <2>2, <2>5, <2>8
<1>11. CASE r = v
  BY <1>1, <1>5, <1>11
<1> QED
  BY <1>2, <1>8, <1>9, <1>10, <1>11

(* processNack().                                                          *)
LEMMA NackMoves ==
  ASSUME NEW t, NEW q, NEW c \in EventChoices, Books(t, {})
  PROVE  LET r == Nack(t, q, c)
         IN Moves(t, r) /\ r.next \in t.next .. t.next + 2
<1>1. t \in Sender /\ t.next \in Nat /\ {} \in SUBSET Seqs
  BY DEF Books, Sender
<1>2. CASE q \notin t.tx
  <2>1. Moves(t, t)
    BY <1>1, SameMoves DEF SameData
  <2> QED
    BY <1>1, <1>2, <2>1 DEF Nack
<1>3. CASE q \in t.tx
  <2> DEFINE u == Discharge(Erase(t, {q}), {q})
             v == QueueForRtx(u, {q}, c)
             w == Rearm(v, {q})
             r == SendIfPermitted(w, c)
  <2>1. {q} \in SUBSET Seqs /\ {q} \in SUBSET t.tx /\ Numbered(t)
    BY <1>3 DEF Books, Sender
  <2>2. Lifted(t, u, {q}) /\ Lost(t, u, {q})
    BY <1>1, <2>1, EraseFields, EraseGone, DischargeErased, DischargeLost
  <2>3. Nack(t, q, c) = r
    BY <1>3 DEF Nack
  <2> HIDE DEF u
  <2>4. Books(u, {q})
    BY <2>1, <2>2, LiftedBooks DEF Carries
  <2>5. {q} \cap u.tx = {} /\ {q} \subseteq 0 .. u.next - 1
    BY <2>1, <2>2 DEF Lifted, Numbered
  <2>6. Books(v, {q})
    BY <2>1, <2>4, <2>5, QueueForRtxBooks DEF Carries
  <2>7. v \in Sender /\ Moves(t, v) /\ v.next \in {t.next, t.next + 1}
    BY <2>1, <2>2, <2>4, QueueMoves
  <2> HIDE DEF v
  <2>8. Books(w, {})
    BY <2>1, <2>6, RecalculateBooks DEF Carries
  <2>9. w \in Sender /\ SameData(v, w) /\ Aside(v, w)
    BY <2>6, <2>7, RearmSame DEF Books
  <2> HIDE DEF w
  <2>10. Moves(v, w) /\ w.next = v.next
    BY <2>7, <2>9, SameMoves DEF SameData, Aside, PortOK
  <2>11. Moves(w, r) /\ r.next \in {w.next, w.next + 1} /\ r \in Sender
    BY <1>1, <2>8, SendIfPermittedMoves, SendIfPermittedBooks DEF Carries, Books
  <2> HIDE DEF r
  <2>12. Moves(t, w)
    BY <1>1, <2>7, <2>9, <2>10, MovesTransitive
  <2>13. Moves(t, r)
    BY <1>1, <2>9, <2>11, <2>12, MovesTransitive
  <2> QED
    BY <1>1, <2>3, <2>7, <2>10, <2>11, <2>13
<1> QED
  BY <1>2, <1>3

-----------------------------------------------------------------------------
(* Acknowledgements.                                                       *)

(* fastLossRecovery() moves nothing out of the sender's hands.             *)
LEMMA FastLossMoves ==
  ASSUME NEW t, NEW a, NEW c, Books(t, {})
  PROVE  Moves(t, FastLoss(t, a, c)) /\ FastLoss(t, a, c).next = t.next
<1> DEFINE u == IF a.cum >= t.recoverTo THEN [t EXCEPT !.recovery = FALSE] ELSE t
           hr == t.highRecv
           v == IF u.recovery THEN u
                ELSE [u EXCEPT !.recovery = TRUE, !.lossCount = 0, !.recoverTo = hr]
           Near(x) == x \in Sender /\ SameBooks(t, x) /\ SameData(t, x) /\ Aside(t, x)
<1>1. t \in Sender /\ hr \in Nat /\ Near(t)
  BY DEF Books, Sender, SameBooks, SameData, Aside
<1>2. Near(u)
  <2> DEFINE x == [t EXCEPT !.recovery = FALSE]
  <2>1. Near(x)
    BY <1>1 DEF Sender, SameBooks, SameData, Aside
  <2> HIDE DEF x, Near
  <2> QED
    BY <1>1, <2>1 DEF x
<1>3. \E lost \in SUBSET v.tx :
        \/ FastLoss(t, a, c) \in {u, v}
        \/ lost # {} /\ FastLoss(t, a, c) = MoveToRtx(v, lost)
  <2> DEFINE w == Cwnd(c) \div Mtu
             holes == {q \in v.tx : a.cum <= q /\ q < v.recoverTo /\ q >= v.rtxMark}
             lost  == {q \in holes : v.lossCount + Cardinality({p \in holes : p < q}) < w}
  <2>1. lost \in SUBSET v.tx
    OBVIOUS
  <2>2. FastLoss(t, a, c) = IF a.ooo < Max({w, Reorder}) /\ ~u.recovery THEN u
                            ELSE IF lost = {} THEN v ELSE MoveToRtx(v, lost)
    BY Zenon DEF FastLoss
  <2> HIDE DEF u, v, w, holes, lost
  <2> QED
    BY <2>1, <2>2
<1> HIDE DEF u, hr
<1>4. Near(v)
  <2> DEFINE x == [u EXCEPT !.recovery = TRUE, !.lossCount = 0, !.recoverTo = hr]
  <2>1. x \in Sender /\ SameBooks(u, x) /\ SameData(u, x) /\ Aside(u, x)
    BY <1>1, <1>2 DEF Sender, SameBooks, SameData, Aside
  <2> HIDE DEF x
  <2>2. Near(x)
    BY <1>2, <2>1 DEF SameBooks, SameData, Aside
  <2> HIDE DEF Near
  <2> QED
    BY <1>2, <2>2 DEF x
<1> HIDE DEF v
<1>5. \A x : Near(x) => Moves(t, x) /\ x.next = t.next /\ Books(x, {})
  BY <1>1, SameMoves, FrameBooks DEF SameData, Aside, PortOK
<1>6. CASE FastLoss(t, a, c) \in {u, v}
  BY <1>2, <1>4, <1>5, <1>6
<1>7. ASSUME NEW lost \in SUBSET v.tx, lost # {}, FastLoss(t, a, c) = MoveToRtx(v, lost)
      PROVE  Moves(t, FastLoss(t, a, c)) /\ FastLoss(t, a, c).next = t.next
  <2>1. Books(v, {}) /\ v \in Sender /\ Moves(t, v) /\ v.next = t.next
    BY <1>4, <1>5
  <2>2. Moves(v, MoveToRtx(v, lost)) /\ MoveToRtx(v, lost).next = v.next
    BY <1>7, <2>1, MoveToRtxMoves
  <2>3. MoveToRtx(v, lost) \in Sender
    BY <1>7, <2>1, MoveToRtxBooks DEF Carries, Books
  <2> QED
    BY <1>1, <1>7, <2>1, <2>2, <2>3, MovesTransitive
<1> QED
  BY <1>3, <1>6, <1>7

(* u is t after the ACK a: what it covers is off the sender's hands.       *)
Settles(t, u, a) ==
  /\ u.tx \cup u.rtx = (t.tx \cup t.rtx) \ Covered(a)
  /\ u.rts = t.rts /\ u.next = t.next /\ u.backlog = t.backlog
  /\ u.started = t.started /\ u.done = t.done
  /\ u.rtx \subseteq t.rtx
  /\ u.ctrl = t.ctrl /\ u.queued = t.queued /\ u.out = t.out
  /\ u.recvd = IF a.recvd > t.recvd THEN a.recvd ELSE t.recvd
  /\ Wired(t) => Wired(u)
  /\ PortOK(t) => PortOK(u)
  /\ ~Dual => Drift(u) = Drift(t)

(* What is newly reported leaves _in_flight; what was acknowledged while   *)
(* it waited for retransmission had left it before.                        *)
LEMMA AccountSettles ==
  ASSUME NEW t, NEW a, Books(t, {}), Report(a)
  PROVE  Settles(t, Account(t, a), a)
<1> DEFINE A  == t.tx \cap Covered(a)
           R  == t.rtx \cap Covered(a)
           sa == Bytes(t, Tagged(t, A, "safe"))
           ra == Bytes(t, Tagged(t, A, "random"))
           e  == Erase(t, A)
           rx == e.rtx \ R
           tg == [q \in Seqs |-> IF q \in A \cup R THEN "none" ELSE e.tag[q]]
           fl == IF Dual THEN e.inFlight - (sa + ra)
                         ELSE e.inFlight - Newly(t, a) + GiveBack(t, R)
           sf == e.safe - sa
           rd == e.random - ra
           rv == e.recvd + Newly(t, a)
           hr == Max({e.highRecv} \cup a.sack)
           lc == IF t.recovery THEN (e.lossCount - 1) % LossWrap ELSE e.lossCount
           u  == [e EXCEPT !.rtx = rx, !.tag = tg, !.inFlight = fl, !.safe = sf,
                           !.random = rd, !.recvd = rv, !.highRecv = hr, !.lossCount = lc]
           r  == Account(t, a)
<1>1. t \in Sender /\ A \in SUBSET Seqs /\ R \in SUBSET t.rtx /\ R \in SUBSET Seqs
  BY DEF Books, Sender
<1>2. r = Rearm(u, A)
  BY Zenon DEF Account
<1>3. Gone(t, e, A)
  BY <1>1, EraseGone
<1> HIDE DEF e
<1>4. e \in Sender /\ Aside(t, e) /\ e.rtx = t.rtx /\ e.inFlight = t.inFlight
  BY <1>3 DEF Gone
<1>5. a.recvd \in Nat /\ t.recvd \in Nat /\ t.inFlight \in Int /\ GiveBack(t, R) \in Nat
      /\ GiveBack(t, R) = Bytes(t, R) /\ Newly(t, a) \in Nat
  BY <1>1, BytesType DEF Report, Sender, GiveBack, Newly
<1>6. rv = IF a.recvd > t.recvd THEN a.recvd ELSE t.recvd
  BY <1>4, <1>5 DEF Newly, Aside
<1>7. ~Dual => fl = t.inFlight - Newly(t, a) + Bytes(t, R) /\ rv = t.recvd + Newly(t, a)
  BY <1>4, <1>5 DEF Aside
<1> HIDE DEF tg, fl, sf, rd, rv, hr, lc
<1>8. /\ u.tx = e.tx /\ u.rtx = rx /\ u.rts = e.rts /\ u.backlog = e.backlog
      /\ u.next = e.next /\ u.started = e.started /\ u.inFlight = fl /\ u.recvd = rv
      /\ u.out = e.out /\ u.ctrl = e.ctrl /\ u.busy = e.busy /\ u.queued = e.queued
      /\ u.done = e.done
  BY <1>4 DEF Sender
<1> HIDE DEF u
<1>9. /\ r.tx = u.tx /\ r.rtx = u.rtx /\ r.rts = u.rts /\ r.backlog = u.backlog
      /\ r.next = u.next /\ r.started = u.started /\ r.inFlight = u.inFlight
      /\ r.recvd = u.recvd /\ r.out = u.out /\ r.ctrl = u.ctrl /\ r.busy = u.busy
      /\ r.queued = u.queued /\ r.done = u.done
  <2> DEFINE v == RecalculateRTO(u)
  <2>1. r = u \/ r = v
    BY <1>2 DEF Rearm
  <2> SUFFICES ASSUME r = v PROVE SameData(u, r) /\ Aside(u, r)
    BY <2>1 DEF SameData, Aside
  <2> DEFINE o == Oldest(u)
  <2>2. v = [u EXCEPT !.timer = o]
    BY Zenon DEF RecalculateRTO
  <2>3. {"tx", "rtx", "rts", "backlog", "next", "started", "inFlight", "recvd", "out",
         "ctrl", "busy", "queued", "done"} \subseteq DOMAIN u
    BY <1>4 DEF u, Sender
  <2> HIDE DEF o
  <2> QED
    BY <2>2, <2>3 DEF SameData, Aside
<1> HIDE DEF r
<1>10. /\ r.tx = t.tx \ A /\ r.rtx = t.rtx \ R /\ r.rts = t.rts /\ r.backlog = t.backlog
       /\ r.next = t.next /\ r.started = t.started /\ r.inFlight = fl /\ r.recvd = rv
       /\ r.out = t.out /\ r.ctrl = t.ctrl /\ r.busy = t.busy /\ r.queued = t.queued
       /\ r.done = t.done
  BY <1>3, <1>8, <1>9 DEF Gone, Aside, rx
<1>11. r.tx \cup r.rtx = (t.tx \cup t.rtx) \ Covered(a)
  BY <1>10
<1>12. (Wired(t) => Wired(r)) /\ (PortOK(t) => PortOK(r))
  BY <1>10 DEF Wired, PortOK
<1>13. ~Dual => Drift(r) = Drift(t)
  <2> SUFFICES ASSUME ~Dual PROVE Drift(r) = Drift(t)
    OBVIOUS
  <2> DEFINE m  == Mtu * (t.next - Cardinality(t.rts))
             bt == Bytes(t, t.rtx)
             br == Bytes(t, R)
             nw == Newly(t, a)
  <2>1. Bytes(r, r.rtx) = bt - br /\ bt \in Nat /\ br \in Nat
    <3>1. Bytes(r, r.rtx) = Bytes(t, t.rtx \ R)
      BY <1>10 DEF Bytes
    <3>2. t.rtx \in SUBSET Seqs
      BY <1>1 DEF Sender
    <3> QED
      BY <1>1, <3>1, <3>2, BytesMinus, BytesType
  <2>2. m \in Int
    BY <1>1, SeqsFinite, MtuOnce DEF Sender
  <2>3. Drift(r) = fl + rv + (bt - br) - m
    BY <1>10, <2>1 DEF Drift
  <2>4. Drift(t) = t.inFlight + t.recvd + bt - m
    BY DEF Drift
  <2>5. fl = t.inFlight - nw + br /\ rv = t.recvd + nw /\ nw \in Nat
    BY <1>5, <1>7
  <2> HIDE DEF m, bt, br, nw
  <2> QED
    BY <1>5, <2>1, <2>2, <2>3, <2>4, <2>5
<1> QED
  BY <1>6, <1>10, <1>11, <1>12, <1>13 DEF Settles, r

(* processAck() settles, and then either ends the flow or sends on.        *)
LEMMA AckSettles ==
  ASSUME NEW t, NEW a, NEW c \in EventChoices, Books(t, {}), Report(a)
  PROVE  LET r == Ack(t, a, c)
         IN \E u, v \in Sender :
              /\ Settles(t, u, a) /\ Moves(u, v)
              /\ \/ Finished(t, a) /\ v.next = t.next /\ r = [v EXCEPT !.done = TRUE]
                 \/ ~Finished(t, a) /\ v.next \in {t.next, t.next + 1} /\ r = v
<1> DEFINE x == Account(t, a)
           u == IF FastRecovery THEN FastLoss(x, a, c) ELSE x
           v == SendIfPermitted(u, c)
<1>1. Settles(t, x, a) /\ Books(x, {}) /\ x \in Sender /\ {} \in SUBSET Seqs
  BY AccountSettles, AccountBooks DEF Carries, Books
<1>2. Ack(t, a, c) = IF Finished(u, a) THEN [u EXCEPT !.done = TRUE] ELSE v
  BY Zenon DEF Ack
<1> HIDE DEF x
<1>3. Moves(x, u) /\ u.next = x.next /\ Books(u, {}) /\ u \in Sender /\ u.rts = x.rts
  <2>1. Moves(x, x)
    BY <1>1, SameMoves DEF SameData
  <2>2. /\ Moves(x, FastLoss(x, a, c)) /\ FastLoss(x, a, c).next = x.next
        /\ Carries(x, FastLoss(x, a, c), {})
    BY <1>1, FastLossMoves, FastLossBooks
  <2> QED
    BY <1>1, <2>1, <2>2 DEF Carries, Books
<1> HIDE DEF u
<1>4. Moves(u, v) /\ v.next \in {u.next, u.next + 1} /\ v \in Sender
  BY <1>1, <1>3, SendIfPermittedMoves, SendIfPermittedBooks DEF Carries, Books
<1> HIDE DEF v
<1>5. Moves(x, v)
  BY <1>1, <1>3, <1>4, MovesTransitive
<1>6. Finished(u, a) = Finished(t, a)
  BY <1>1, <1>3 DEF Finished, Settles, Moves
<1>7. x.next = t.next
  BY <1>1 DEF Settles
<1> QED
  BY <1>1, <1>2, <1>3, <1>4, <1>5, <1>6, <1>7

-----------------------------------------------------------------------------
(* The sink.                                                               *)

HeldBy(x) == {q \in Seqs : Has(x, q)}

(* The sink holds nothing that was not sent, and its bitmap starts above   *)
(* the number it expects.                                                  *)
Spans(x, n) == x.expected <= n /\ x.got \subseteq x.expected + 1 .. n - 1

(* A packet is taken once, and the expected number moves past what is held. *)
LEMMA AdvanceTakes ==
  ASSUME NEW x \in Sink, NEW n \in Nat, NEW q \in Seqs, Spans(x, n), q < n, ~Has(x, q)
  PROVE  LET y == Advance(x, q)
         IN /\ Spans(y, n) /\ x.expected <= y.expected /\ y.recvd = x.recvd
            /\ HeldBy(y) = HeldBy(x) \cup {q}
<1>1. x.expected \in Nat /\ x.got \in SUBSET Seqs /\ Seqs \subseteq Nat /\ q \in Nat
  BY DEF Sink, Seqs
<1>2. CASE q # x.expected
  <2> DEFINE g == x.got \cup {q}
             y == [x EXCEPT !.got = g]
  <2>1. Advance(x, q) = y
    BY <1>2, Zenon DEF Advance
  <2> HIDE DEF g
  <2>2. y.got = g /\ y.expected = x.expected /\ y.recvd = x.recvd
    BY DEF Sink
  <2> HIDE DEF y
  <2>3. q \in x.expected + 1 .. n - 1
    BY <1>1, <1>2 DEF Has
  <2>4. Spans(y, n) /\ x.expected <= y.expected
    BY <1>1, <2>2, <2>3 DEF Spans, g
  <2>5. HeldBy(y) = HeldBy(x) \cup {q}
    BY <2>2 DEF HeldBy, Has, g
  <2> QED
    BY <2>1, <2>2, <2>4, <2>5
<1>3. CASE q = x.expected
  <2> DEFINE m == x.expected + 1
             c == Cardinality(x.got)
             I == m .. m + c
             Good(e) == e \notin x.got /\ (m .. e - 1) \subseteq x.got
  <2>1. m \in Nat /\ c \in Nat
    BY <1>1, SeqsFinite
  <2>2. \E e \in I : Good(e)
    BY NextMissing
  <2> DEFINE e == CHOOSE e \in I : Good(e)
             g == {p \in x.got : p > e}
             y == [x EXCEPT !.expected = e, !.got = g]
  <2>3. e \in I /\ Good(e)
    BY <2>2
  <2>4. Advance(x, q) = y
    BY <1>3, Zenon DEF Advance
  <2> HIDE DEF e
  <2>5. e \in Nat /\ m <= e
    BY <2>1, <2>3
  <2> HIDE DEF g
  <2>6. y.got = g /\ y.expected = e /\ y.recvd = x.recvd
    BY DEF Sink
  <2> HIDE DEF y
  <2>7. e <= n
    <3>1. CASE e = m
      BY <1>1, <1>3, <3>1
    <3>2. CASE e # m
      <4>1. e - 1 \in m .. e - 1
        BY <2>1, <2>5, <3>2
      <4>2. e - 1 \in x.expected + 1 .. n - 1
        BY <2>3, <4>1 DEF Spans
      <4> QED
        BY <1>1, <2>5, <4>2
    <3> QED
      BY <3>1, <3>2
  <2>8. g \subseteq e + 1 .. n - 1
    <3> SUFFICES ASSUME NEW p \in g PROVE p \in e + 1 .. n - 1
      OBVIOUS
    <3>1. p \in x.expected + 1 .. n - 1 /\ p > e
      BY DEF g, Spans
    <3> QED
      BY <1>1, <2>5, <3>1
  <2>9. Spans(y, n) /\ x.expected <= y.expected
    BY <1>1, <2>5, <2>6, <2>7, <2>8 DEF Spans
  <2>10. ASSUME NEW p \in Seqs
         PROVE  Has(y, p) <=> Has(x, p) \/ p = q
    <3>1. p \in Nat
      BY <1>1
    <3>2. CASE p < x.expected
      BY <1>1, <2>5, <2>6, <3>1, <3>2 DEF Has
    <3>3. CASE p = x.expected
      BY <1>1, <1>3, <2>5, <2>6, <3>1, <3>3 DEF Has
    <3>4. CASE x.expected < p /\ p < e
      <4>1. p \in m .. e - 1
        BY <1>1, <2>5, <3>1, <3>4
      <4> QED
        BY <2>3, <2>6, <3>4, <4>1 DEF Has
    <3>5. CASE p = e
      <4>1. ~(p < e) /\ ~(p > e) /\ ~(p < x.expected) /\ p # q
        BY <1>1, <1>3, <2>5, <3>1, <3>5
      <4> QED
        BY <2>3, <2>6, <3>5, <4>1 DEF Has, g
    <3>6. CASE p > e
      <4>1. ~(p < e) /\ ~(p < x.expected) /\ p # q
        BY <1>1, <1>3, <2>5, <3>1, <3>6
      <4> QED
        BY <2>6, <3>6, <4>1 DEF Has, g
    <3> QED
      BY <1>1, <2>5, <3>1, <3>2, <3>3, <3>4, <3>5, <3>6
  <2>11. HeldBy(y) = HeldBy(x) \cup {q}
    BY <2>10 DEF HeldBy
  <2> QED
    BY <2>4, <2>6, <2>9, <2>11
<1> QED
  BY <1>2, <1>3

(* r is what the sink x makes of a packet q of d bytes: it takes it, or has *)
(* it already, and whatever it acknowledges it has.                        *)
Takes(x, r, q, d, n) ==
  /\ Spans(r.sink, n) /\ x.expected <= r.sink.expected
  /\ \/ HeldBy(r.sink) = HeldBy(x) /\ r.sink.recvd = x.recvd
     \/ /\ q \in Seqs \ HeldBy(x)
        /\ HeldBy(r.sink) = HeldBy(x) \cup {q} /\ r.sink.recvd = x.recvd + d
  /\ \A a \in r.replies :
       a.kind = "ack" => /\ a.cum = r.sink.expected /\ a.sack \subseteq r.sink.got
                         /\ a.recvd = r.sink.recvd

(* An ACK of the sink's state, put together with it.                       *)
LEMMA ReplyTakes ==
  ASSUME NEW x, NEW y \in Sink, NEW z \in Sink, NEW q \in Seqs, NEW d, NEW n, NEW ref,
         z.expected = y.expected /\ z.got = y.got /\ z.recvd = y.recvd,
         Spans(y, n), x.expected <= y.expected,
         \/ HeldBy(y) = HeldBy(x) /\ y.recvd = x.recvd
         \/ q \notin HeldBy(x) /\ HeldBy(y) = HeldBy(x) \cup {q} /\ y.recvd = x.recvd + d
  PROVE  /\ Takes(x, Result(z, {Sack(y, ref)}), q, d, n)
         /\ Takes(x, Result(z, {}), q, d, n)
<1>1. HeldBy(z) = HeldBy(y) /\ Spans(z, n)
  BY DEF HeldBy, Has, Spans
<1>2. Sack(y, ref).cum = y.expected /\ Sack(y, ref).recvd = y.recvd
      /\ Sack(y, ref).sack \subseteq y.got
  BY DEF Sack
<1> QED
  BY <1>1, <1>2 DEF Takes, Result

(* A packet the sink has.                                                  *)
LEMMA DuplicateTakes ==
  ASSUME NEW x \in Sink, NEW q \in Seqs, NEW d, NEW n, NEW ref, Spans(x, n)
  PROVE  Takes(x, Duplicate(x, q, ref), q, d, n)
<1> DEFINE z == [x EXCEPT !.accepted = 0]
<1>1. z \in Sink /\ z.expected = x.expected /\ z.got = x.got /\ z.recvd = x.recvd
  BY DEF Sink
<1>2. Duplicate(x, q, ref) = Result(z, {Sack(x, ref)})
  BY Zenon DEF Duplicate
<1> HIDE DEF z
<1>3. x.expected <= x.expected
  BY DEF Sink
<1> QED
  BY <1>1, <1>2, <1>3, ReplyTakes

(* processData().                                                          *)
LEMMA ProcessDataTakes ==
  ASSUME NEW x \in Sink, NEW n \in Nat, NEW pkt \in Packet, NEW size \in Nat,
         NEW ecn \in BOOLEAN, Spans(x, n), pkt.seq < n
  PROVE  Takes(x, ProcessData(x, pkt, size, ecn), pkt.seq, size, n)
<1> DEFINE q  == pkt.seq
           ac == x.accepted + size
           rv == x.recvd + size
           pl == x.payload \/ size > Hdr
           ar == x.ackRequest \/ pkt.ar
           y  == [x EXCEPT !.accepted = ac, !.recvd = rv, !.payload = pl, !.ackRequest = ar]
           heard == Advance(y, q)
           drained == q = x.expected /\ heard.got = {} /\ heard.ackRequest
           after == IF drained THEN [heard EXCEPT !.ackRequest = FALSE] ELSE heard
           ref   == IF ecn \/ pkt.ar THEN q ELSE SackBase(after, q)
           dr    == IF ecn THEN q ELSE SackBase(x, q)
           last  == [after EXCEPT !.accepted = 0]
<1>1. q \in Seqs /\ ac \in Nat /\ rv \in Nat /\ pl \in BOOLEAN /\ ar \in BOOLEAN
  BY DEF Packet, Sink
<1>2. \/ Has(x, q) /\ ProcessData(x, pkt, size, ecn) = Duplicate(x, q, dr)
      \/ ~Has(x, q) /\ ProcessData(x, pkt, size, ecn) = Result(last, {Sack(after, ref)})
      \/ ~Has(x, q) /\ ProcessData(x, pkt, size, ecn) = Result(after, {})
  BY Zenon DEF ProcessData
<1> HIDE DEF ac, pl, ar, dr
<1>3. CASE Has(x, q)
  BY <1>1, <1>2, <1>3, DuplicateTakes
<1>4. CASE ~Has(x, q)
  <2> HIDE DEF rv
  <2>1. y \in Sink /\ y.expected = x.expected /\ y.got = x.got /\ y.recvd = rv
    BY <1>1 DEF Sink
  <2> HIDE DEF y
  <2>2. HeldBy(y) = HeldBy(x) /\ Spans(y, n) /\ ~Has(y, q)
    BY <1>4, <2>1 DEF HeldBy, Has, Spans
  <2>3. heard \in Sink
    BY <1>1, <2>1, AdvanceType
  <2>4. /\ Spans(heard, n) /\ y.expected <= heard.expected /\ heard.recvd = y.recvd
        /\ HeldBy(heard) = HeldBy(y) \cup {q}
    BY <1>1, <2>1, <2>2, AdvanceTakes
  <2> HIDE DEF heard
  <2>5. after \in Sink /\ after.expected = heard.expected /\ after.got = heard.got
        /\ after.recvd = heard.recvd
    BY <2>3 DEF Sink
  <2> HIDE DEF after, ref
  <2>6. last \in Sink /\ last.expected = after.expected /\ last.got = after.got
        /\ last.recvd = after.recvd
    BY <2>5 DEF Sink
  <2> HIDE DEF last
  <2>7. Spans(after, n) /\ x.expected <= after.expected
        /\ HeldBy(after) = HeldBy(x) \cup {q} /\ after.recvd = x.recvd + size
        /\ q \notin HeldBy(x)
    BY <1>4, <2>1, <2>2, <2>4, <2>5 DEF Spans, HeldBy, Has, rv
  <2> HIDE DEF q
  <2>8. /\ Takes(x, Result(last, {Sack(after, ref)}), q, size, n)
        /\ Takes(x, Result(after, {}), q, size, n)
    BY <1>1, <2>5, <2>6, <2>7, ReplyTakes
  <2> QED
    BY <1>2, <1>4, <2>8 DEF q
<1> QED
  BY <1>3, <1>4

(* processRts(): no bytes.                                                 *)
LEMMA ProcessRtsTakes ==
  ASSUME NEW x \in Sink, NEW n \in Nat, NEW pkt \in Packet, Spans(x, n), pkt.seq < n
  PROVE  Takes(x, ProcessRts(x, pkt), pkt.seq, 0, n)
<1> DEFINE q     == pkt.seq
           heard == Advance(x, q)
           after == IF q = x.expected /\ heard.got = {}
                    THEN [heard EXCEPT !.ackRequest = FALSE] ELSE heard
<1>1. q \in Seqs
  BY DEF Packet
<1>2. \/ Has(x, q) /\ ProcessRts(x, pkt) = Duplicate(x, q, SackBase(x, q))
      \/ ~Has(x, q) /\ ProcessRts(x, pkt) = Result(after, {Sack(after, q)})
  BY Zenon DEF ProcessRts
<1>3. CASE Has(x, q)
  BY <1>1, <1>2, <1>3, DuplicateTakes
<1>4. CASE ~Has(x, q)
  <2>1. heard \in Sink
    BY <1>1, AdvanceType
  <2>2. /\ Spans(heard, n) /\ x.expected <= heard.expected /\ heard.recvd = x.recvd
        /\ HeldBy(heard) = HeldBy(x) \cup {q}
    BY <1>1, <1>4, AdvanceTakes
  <2> HIDE DEF heard
  <2>3. after \in Sink /\ after.expected = heard.expected /\ after.got = heard.got
        /\ after.recvd = heard.recvd
    BY <2>1 DEF Sink
  <2> HIDE DEF after
  <2>4. Spans(after, n) /\ x.expected <= after.expected
        /\ HeldBy(after) = HeldBy(x) \cup {q} /\ after.recvd = x.recvd + 0
        /\ q \notin HeldBy(x)
    BY <1>4, <2>2, <2>3 DEF Spans, HeldBy, Has, Sink
  <2> HIDE DEF q
  <2>5. Takes(x, Result(after, {Sack(after, q)}), q, 0, n)
    BY <1>1, <2>3, <2>4, ReplyTakes
  <2> QED
    BY <1>2, <1>4, <2>5 DEF q
<1> QED
  BY <1>3, <1>4

(* processTrimmed(): nothing is taken.                                     *)
LEMMA ProcessTrimmedTakes ==
  ASSUME NEW x \in Sink, NEW n, NEW q \in Seqs, Spans(x, n)
  PROVE  /\ Takes(x, ProcessTrimmed(x, [seq |-> q]), q, 0, n)
         /\ ProcessTrimmed(x, [seq |-> q]).sink = x
<1>1. x.expected <= x.expected
  BY DEF Sink
<1>2. Takes(x, Result(x, {Sack(x, SackBase(x, q))}), q, 0, n)
  BY <1>1, ReplyTakes
<1>3. Takes(x, Result(x, {[kind |-> "nack", seq |-> q]}), q, 0, n)
  BY <1>1 DEF Takes, Result
<1> QED
  BY <1>2, <1>3 DEF ProcessTrimmed, Result

-----------------------------------------------------------------------------
(* The flow.                                                               *)

(* What the sender may take for delivered once r bytes are reported to it. *)
Known(r) ==
  {q \in Seqs : \/ s.recvd <= r /\ q \in Forgotten
               \/ \E a \in acks : a.kind = "ack" /\ a.recvd <= r /\ q \in Covered(a)}

OnTheWay ==
  /\ \A p \in BagToSet(wire) : p.seq \in Sent /\ (p.kind = "rts" => p.seq \in s.rts)
  /\ trimmed \subseteq Sent

(* What the sender takes for delivered, and what any ACK still on its way  *)
(* will tell it, is.                                                       *)
Truthful ==
  /\ Forgotten \subseteq Held
  /\ \A a \in acks : a.kind = "ack" =>
       a.cum <= k.expected /\ a.sack \subseteq Held /\ a.recvd <= k.recvd

(* The bytes reported cover the packets that are known: an ACK never tells *)
(* of a packet without its bytes, although ACKs overtake each other.       *)
Reported ==
  /\ s.recvd <= k.recvd
  /\ Mtu * Cardinality(Held \ s.rts) <= k.recvd
  /\ \A r \in Nat : Mtu * Cardinality(Known(r) \ s.rts) <= r

Ready(t) == Wired(t) /\ PortOK(t) /\ (~Dual => Drift(t) = 0) /\ (t.done => Idle(t))

TransferInv == Ready(s) /\ OnTheWay /\ Spans(k, s.next) /\ Truthful /\ Reported

(* Fewer packets are fewer bytes.                                          *)
LEMMA MtuMonotonic ==
  ASSUME NEW B \in SUBSET Seqs, NEW A \in SUBSET B
  PROVE  /\ Mtu * Cardinality(A) \in Nat /\ Mtu * Cardinality(B) \in Nat
         /\ Mtu * Cardinality(A) <= Mtu * Cardinality(B)
<1> DEFINE m == Mtu
           a == Cardinality(A)
           b == Cardinality(B)
<1>1. m \in Nat /\ a \in Nat /\ b \in Nat /\ a <= b
  BY SeqsFinite, FS_Subset, SenderAssumption
<1> HIDE DEF m, a, b
<1>2. m * a \in Nat /\ m * b \in Nat /\ m * a <= m * b
  BY <1>1
<1> QED
  BY <1>2 DEF m, a, b

(* An event of the sender that forgets only what it may keeps the flow     *)
(* truthful.                                                               *)
LEMMA SenderKeeps ==
  ASSUME FlowInv, TransferInv, NEW t, Books(t, {}), Ready(t),
         s' = [t EXCEPT !.out = {}], wire' = wire (+) SetToBag(t.out),
         k' = k, trimmed' = trimmed, acks' \subseteq acks,
         s.next <= t.next, s.rts \subseteq t.rts, t.recvd <= k.recvd,
         (0 .. t.next - 1) \ (t.tx \cup t.rtx) \subseteq Held,
         \A r \in Nat : \A q \in (0 .. t.next - 1) \ (t.tx \cup t.rtx) :
           t.recvd <= r => q \in Known(r)
  PROVE  TransferInv'
<1>1. t \in Sender /\ s \in Sender /\ k \in Sink /\ s.next \in Nat /\ t.next \in Nat
      /\ t.out \in SUBSET Packet
  BY DEF FlowInv, Books, Sender
<1>2. /\ s'.tx = t.tx /\ s'.rtx = t.rtx /\ s'.rts = t.rts /\ s'.inFlight = t.inFlight
      /\ s'.backlog = t.backlog /\ s'.next = t.next /\ s'.started = t.started
      /\ s'.recvd = t.recvd /\ s'.done = t.done /\ s'.ctrl = t.ctrl /\ s'.busy = t.busy
      /\ s'.queued = t.queued /\ s'.out = {}
  BY <1>1 DEF Sender
<1>3. Ready(s')
  <2>1. Drift(s') = Drift(t)
    BY <1>2 DEF Drift, Bytes
  <2> QED
    BY <1>2, <2>1 DEF Ready, Wired, PortOK, Idle
<1>4. Sent \subseteq Sent' /\ Sent' = 0 .. t.next - 1
  BY <1>1, <1>2 DEF Sent
<1>5. OnTheWay'
  <2>1. wire \in [BagToSet(wire) -> Nat \ {0}]
    BY DEF FlowInv, Messages
  <2>2. SetToBag(t.out) \in [t.out -> Nat \ {0}]
    BY DEF SetToBag
  <2>3. BagToSet(wire') \subseteq BagToSet(wire) \cup t.out
    BY <2>1, <2>2 DEF (+), BagToSet
  <2>4. \A p \in BagToSet(wire) : p.seq \in Sent' /\ (p.kind = "rts" => p.seq \in s'.rts)
    BY <1>2, <1>4 DEF TransferInv, OnTheWay
  <2>5. \A p \in t.out : p.seq \in Sent' /\ (p.kind = "rts" => p.seq \in s'.rts)
    BY <1>2, <1>4 DEF Ready, Wired
  <2>6. trimmed' \subseteq Sent'
    BY <1>4 DEF TransferInv, OnTheWay
  <2> QED
    BY <2>3, <2>4, <2>5, <2>6 DEF OnTheWay
<1>6. Spans(k', s'.next)
  <2>1. k.expected + 1 .. s.next - 1 \subseteq k.expected + 1 .. t.next - 1
        /\ (k.expected <= s.next => k.expected <= t.next)
    BY <1>1 DEF Sink
  <2> QED
    BY <1>2, <2>1 DEF TransferInv, Spans
<1>7. Held' = Held
  BY DEF Held, Has
<1>8. Forgotten' = (0 .. t.next - 1) \ (t.tx \cup t.rtx)
  BY <1>2 DEF Forgotten, Sent
<1>9. Truthful'
  BY <1>7, <1>8 DEF TransferInv, Truthful
<1>10. Reported'
  <2>1. s'.recvd <= k'.recvd
    BY <1>2
  <2>2. Held \in SUBSET Seqs /\ k.recvd \in Nat
    BY <1>1 DEF Held, Sink
  <2>3. Mtu * Cardinality(Held' \ s'.rts) <= k'.recvd
    <3>1. Held \ s.rts \in SUBSET Seqs /\ Held' \ s'.rts \in SUBSET (Held \ s.rts)
      BY <1>2, <1>7, <2>2
    <3> DEFINE x == Mtu * Cardinality(Held' \ s'.rts)
               y == Mtu * Cardinality(Held \ s.rts)
    <3>2. x \in Nat /\ y \in Nat /\ x <= y
      BY <3>1, MtuMonotonic
    <3>3. y <= k.recvd
      BY DEF TransferInv, Reported
    <3> HIDE DEF x, y
    <3>4. x <= k'.recvd
      BY <2>2, <3>2, <3>3
    <3> QED
      BY <3>4 DEF x
  <2>4. ASSUME NEW r \in Nat
        PROVE  Mtu * Cardinality(Known(r)' \ s'.rts) <= r
    <3>1. Known(r) \in SUBSET Seqs
      BY DEF Known
    <3>2. Known(r)' \subseteq Known(r)
      <4> SUFFICES ASSUME NEW q \in Known(r)' PROVE q \in Known(r)
        OBVIOUS
      <4>1. q \in Seqs /\ (\/ s'.recvd <= r /\ q \in Forgotten'
                          \/ \E a \in acks' : a.kind = "ack" /\ a.recvd <= r /\ q \in Covered(a))
        BY DEF Known
      <4>2. CASE s'.recvd <= r /\ q \in Forgotten'
        BY <1>2, <1>8, <4>2
      <4>3. CASE \E a \in acks' : a.kind = "ack" /\ a.recvd <= r /\ q \in Covered(a)
        BY <4>1, <4>3 DEF Known
      <4> QED
        BY <4>1, <4>2, <4>3
    <3>3. Known(r) \ s.rts \in SUBSET Seqs /\ Known(r)' \ s'.rts \in SUBSET (Known(r) \ s.rts)
      BY <1>2, <3>1, <3>2
    <3> DEFINE x == Mtu * Cardinality(Known(r)' \ s'.rts)
               y == Mtu * Cardinality(Known(r) \ s.rts)
    <3>4. x \in Nat /\ y \in Nat /\ x <= y
      BY <3>3, MtuMonotonic
    <3>5. y <= r
      BY DEF TransferInv, Reported
    <3> HIDE DEF x, y
    <3>6. x <= r
      BY <3>4, <3>5
    <3> QED
      BY <3>6 DEF x
  <2> QED
    BY <2>1, <2>3, <2>4 DEF Reported
<1> QED
  BY <1>3, <1>5, <1>6, <1>9, <1>10 DEF TransferInv

(* An event that only sends.                                               *)
LEMMA MovesKeeps ==
  ASSUME FlowInv, TransferInv, NEW t, Books(t, {}), Moves(s, t), PortOK(t),
         s' = [t EXCEPT !.out = {}], wire' = wire (+) SetToBag(t.out),
         k' = k, trimmed' = trimmed, acks' \subseteq acks
  PROVE  TransferInv' /\ Forgotten' = Forgotten
<1>1. t \in Sender /\ s \in Sender /\ s.next \in Nat /\ t.next \in Nat /\ Numbered(s)
  BY DEF FlowInv, Books, Sender
<1>2. Ready(t)
  BY DEF TransferInv, Ready, Moves
<1>3. (0 .. t.next - 1) \ (t.tx \cup t.rtx) = Forgotten
  <2>1. (0 .. t.next - 1) = (0 .. s.next - 1) \cup (s.next .. t.next - 1)
        /\ (0 .. s.next - 1) \cap (s.next .. t.next - 1) = {}
    BY <1>1 DEF Moves
  <2> QED
    BY <2>1 DEF Forgotten, Sent, Moves
<1>4. Forgotten \subseteq Seqs
  <2>1. \A q \in Forgotten : q \in Held
    BY DEF TransferInv, Truthful
  <2> QED
    BY <2>1 DEF Held
<1>5. TransferInv'
  <2>1. Forgotten \subseteq Held /\ s.recvd <= k.recvd
    BY DEF TransferInv, Truthful, Reported
  <2>2. s.next <= t.next /\ s.rts \subseteq t.rts /\ t.recvd = s.recvd
    BY DEF Moves
  <2>3. \A r \in Nat : \A q \in Forgotten : t.recvd <= r => q \in Known(r)
    BY <1>4, <2>2 DEF Known
  <2> QED
    BY <1>2, <1>3, <2>1, <2>2, <2>3, SenderKeeps
<1>6. s'.next = t.next /\ s'.tx = t.tx /\ s'.rtx = t.rtx
  BY <1>1 DEF Sender
<1> QED
  BY <1>3, <1>5, <1>6 DEF Forgotten, Sent

(* The sink holds nothing that was not sent.                               *)
LEMMA HeldSent ==
  ASSUME FlowInv, TransferInv
  PROVE  Held \subseteq Sent
<1>1. k.expected \in Nat /\ s.next \in Nat /\ Seqs \subseteq Nat
  BY DEF FlowInv, Books, Sender, Sink, Seqs
<1>2. k.expected <= s.next /\ k.got \subseteq k.expected + 1 .. s.next - 1
  BY DEF TransferInv, Spans
<1> SUFFICES ASSUME NEW q \in Held PROVE q \in 0 .. s.next - 1
  BY DEF Sent
<1>3. q \in Nat /\ (q < k.expected \/ q \in k.got)
  BY <1>1 DEF Held, Has
<1>4. CASE q < k.expected
  BY <1>1, <1>2, <1>3, <1>4
<1>5. CASE q \in k.got
  <2>1. q \in k.expected + 1 .. s.next - 1
    BY <1>2, <1>5
  <2> QED
    BY <1>1, <2>1
<1> QED
  BY <1>3, <1>4, <1>5

(* A sender that has nothing left knows everything.                        *)
LEMMA IdleDelivered ==
  ASSUME FlowInv, TransferInv, Idle(s)
  PROVE  Held = Sent /\ Forgotten = Sent
<1>1. Forgotten = Sent
  BY DEF Idle, Forgotten
<1> QED
  BY <1>1, HeldSent DEF TransferInv, Truthful

(* What an ACK covers has been delivered.                                  *)
LEMMA CoveredHeld ==
  ASSUME FlowInv, TransferInv, NEW a \in acks, a.kind = "ack"
  PROVE  Covered(a) \subseteq Held /\ Report(a)
<1>1. a \in Acks
  BY DEF FlowInv, Messages
<1>2. Report(a)
  BY <1>1 DEF Acks, Report
<1>3. a.cum <= k.expected /\ a.sack \subseteq Held /\ a.cum \in Nat /\ k.expected \in Nat
      /\ Seqs \subseteq Nat
  BY <1>2 DEF TransferInv, Truthful, FlowInv, Sink, Report, Seqs
<1>4. ASSUME NEW q \in Covered(a) PROVE q \in Held
  <2>1. q \in Seqs /\ q \in Nat
    BY <1>3 DEF Covered
  <2>2. CASE q < a.cum
    BY <1>3, <2>1, <2>2 DEF Held, Has
  <2>3. CASE q \in a.sack
    BY <1>3, <2>3
  <2> QED
    BY <2>2, <2>3 DEF Covered
<1> QED
  BY <1>2, <1>4

(* checkFinished(): the ACK covers all that was sent, and that is all.     *)
LEMMA FinishedCovers ==
  ASSUME FlowInv, TransferInv, NEW a \in acks, a.kind = "ack", ~s.done, Finished(s, a)
  PROVE  s.started /\ s.backlog = 0 /\ Sent \subseteq Covered(a)
<1> DEFINE n == Cardinality(s.rts)
           b == IF s.started THEN Pkts ELSE 0
<1>1. s \in Sender /\ s.next \in Nat /\ s.backlog \in 0 .. Pkts /\ n \in Nat
      /\ Pkts \in Nat \ {0} /\ MaxRts \in Nat
  BY SeqsFinite, SenderAssumption DEF FlowInv, Books, Sender
<1>2. s.next + s.backlog = b + n /\ n <= MaxRts
  BY DEF FlowInv, Books, Numbered
<1>3. a.cum \in Nat /\ k.expected \in Nat /\ a.cum <= k.expected /\ k.expected <= s.next
  BY CoveredHeld DEF Report, FlowInv, Sink, TransferInv, Truthful, Spans
<1>4. a.cum - n >= Pkts
  BY DEF Finished
<1> HIDE DEF n
<1>5. s.started
  BY <1>1, <1>2, <1>3, <1>4
<1>6. s.backlog = 0 /\ a.cum = s.next /\ s.next <= Pkts + MaxRts
  BY <1>1, <1>2, <1>3, <1>4, <1>5
<1>7. Sent \subseteq Covered(a)
  BY <1>1, <1>6 DEF Sent, Covered, Seqs
<1> QED
  BY <1>5, <1>6, <1>7

(* An ACK tells the sender only of packets that were delivered, and the    *)
(* last one of all of them.                                                *)
LEMMA AckKeeps ==
  ASSUME FlowInv, TransferInv, NEW a \in acks, a.kind = "ack",
         NEW u \in Sender, NEW v \in Sender, NEW t, Books(t, {}),
         Settles(s, u, a), Moves(u, v),
         \/ Finished(s, a) /\ v.next = s.next /\ t = [v EXCEPT !.done = TRUE]
         \/ ~Finished(s, a) /\ v.next \in {s.next, s.next + 1} /\ t = v,
         s' = [t EXCEPT !.out = {}], wire' = wire (+) SetToBag(t.out),
         k' = k, trimmed' = trimmed, acks' \subseteq acks
  PROVE  /\ TransferInv' /\ Forgotten \subseteq Forgotten' /\ s'.next = t.next
         /\ Forgotten' \subseteq Forgotten \cup Covered(a) /\ s.rts \subseteq s'.rts
         /\ ~Finished(s, a) => ~s.done /\ ~s'.done
         /\ Finished(s, a) => s'.done /\ Idle(s') /\ s'.next = s.next
<1>1. t \in Sender /\ s \in Sender /\ s.next \in Nat /\ t.next \in Nat
  BY DEF FlowInv, Books, Sender
<1>2. /\ t.tx = v.tx /\ t.rtx = v.rtx /\ t.rts = v.rts /\ t.next = v.next
      /\ t.recvd = v.recvd /\ t.out = v.out /\ t.ctrl = v.ctrl /\ t.busy = v.busy
      /\ t.queued = v.queued /\ t.inFlight = v.inFlight /\ t.started = v.started
      /\ t.backlog = v.backlog /\ (~Finished(s, a) => t.done = v.done)
      /\ (Finished(s, a) => t.done = TRUE)
  BY DEF Sender
<1>3. /\ s'.tx = t.tx /\ s'.rtx = t.rtx /\ s'.next = t.next /\ s'.done = t.done
      /\ s'.started = t.started /\ s'.backlog = t.backlog /\ s'.rts = t.rts
  BY <1>1 DEF Sender
<1>4. Covered(a) \subseteq Held /\ Report(a) /\ Held \subseteq Sent
  BY CoveredHeld, HeldSent
<1>5. s.next <= t.next /\ s.rts \subseteq t.rts /\ u.next = s.next
  BY <1>1, <1>2 DEF Settles, Moves
<1>6. (0 .. t.next - 1) \ (t.tx \cup t.rtx) = Forgotten \cup Covered(a)
  <2>1. (0 .. t.next - 1) = Sent \cup (s.next .. t.next - 1)
        /\ Sent \cap (s.next .. t.next - 1) = {}
    BY <1>1, <1>5 DEF Sent
  <2>2. t.tx \cup t.rtx = ((s.tx \cup s.rtx) \ Covered(a)) \cup (s.next .. t.next - 1)
    BY <1>2, <1>5 DEF Settles, Moves
  <2> QED
    BY <1>4, <2>1, <2>2 DEF Forgotten
<1>7. t.recvd = IF a.recvd > s.recvd THEN a.recvd ELSE s.recvd
  BY <1>2 DEF Settles, Moves
<1>8. a.recvd \in Nat /\ s.recvd \in Nat /\ k.recvd \in Nat
      /\ a.recvd <= k.recvd /\ s.recvd <= k.recvd
  BY <1>1, <1>4 DEF TransferInv, Truthful, Reported, Report, Sender, FlowInv, Sink
<1>9. Finished(s, a) => Idle(v)
  <2> SUFFICES ASSUME Finished(s, a) PROVE Idle(u)
    BY DEF Moves
  <2>1. CASE s.done
    BY <2>1 DEF TransferInv, Ready, Idle, Settles
  <2>2. CASE ~s.done
    <3>1. s.started /\ s.backlog = 0 /\ Sent \subseteq Covered(a)
      BY <2>2, FinishedCovers
    <3>2. s.tx \cup s.rtx \subseteq Sent
      BY DEF FlowInv, Books, Numbered, Sent
    <3> QED
      BY <3>1, <3>2 DEF Idle, Settles
  <2> QED
    BY <2>1, <2>2
<1>10. ~Finished(s, a) => ~s.done /\ ~t.done
  BY <1>2 DEF Finished, Settles, Moves
<1>11. Ready(t)
  <2>1. Wired(t) /\ PortOK(t)
    BY <1>2 DEF TransferInv, Ready, Settles, Moves, Wired, PortOK
  <2>2. ~Dual => Drift(t) = 0
    <3>1. Drift(t) = Drift(v)
      BY <1>2 DEF Drift, Bytes
    <3> QED
      BY <3>1 DEF TransferInv, Ready, Settles, Moves
  <2>3. t.done => Idle(t)
    BY <1>2, <1>9, <1>10 DEF Idle
  <2> QED
    BY <2>1, <2>2, <2>3 DEF Ready
<1>12. Forgotten \cup Covered(a) \subseteq Held
  BY <1>4 DEF TransferInv, Truthful
<1>13. t.recvd <= k.recvd
  BY <1>7, <1>8
<1>14. ASSUME NEW r \in Nat, NEW q \in Forgotten \cup Covered(a), t.recvd <= r
       PROVE  q \in Known(r)
  <2>1. q \in Seqs
    BY <1>12 DEF Held
  <2>2. s.recvd <= r /\ a.recvd <= r
    BY <1>7, <1>8, <1>14
  <2> QED
    BY <2>1, <2>2 DEF Known
<1>15. TransferInv'
  BY <1>5, <1>6, <1>11, <1>12, <1>13, <1>14, SenderKeeps
<1>16. Forgotten' = Forgotten \cup Covered(a)
  BY <1>3, <1>6 DEF Forgotten, Sent
<1>17. Finished(s, a) => Idle(s')
  BY <1>2, <1>3, <1>9 DEF Idle
<1> QED
  BY <1>2, <1>3, <1>5, <1>10, <1>15, <1>16, <1>17

(* What the sink takes and acknowledges it has, with the bytes of it.      *)
LEMMA SinkKeeps ==
  ASSUME FlowInv, TransferInv, NEW r, NEW q \in Sent, NEW d \in Nat,
         Takes(k, r, q, d, s.next), r.sink \in Sink,
         q \in s.rts \/ d = Mtu,
         s' = s, k' = r.sink, acks' \subseteq acks \cup r.replies,
         BagToSet(wire') \subseteq BagToSet(wire), trimmed' \subseteq Sent
  PROVE  TransferInv'
<1>1. k \in Sink /\ s \in Sender /\ k.recvd \in Nat /\ k'.recvd \in Nat
      /\ k.expected \in Nat /\ k'.expected \in Nat /\ k.expected <= k'.expected
      /\ k'.got \in SUBSET Seqs
  BY DEF FlowInv, Books, Sink, Takes
<1>2. Sent' = Sent /\ Forgotten' = Forgotten
  BY DEF Sent, Forgotten
<1>3. Ready(s')
  BY DEF TransferInv
<1>4. OnTheWay'
  BY <1>2 DEF TransferInv, OnTheWay
<1>5. Spans(k', s'.next)
  BY DEF Takes
<1>6. Held = HeldBy(k) /\ Held' = HeldBy(k') /\ Held \in SUBSET Seqs /\ Held' \in SUBSET Seqs
  BY DEF Held, HeldBy
<1>7. Held \subseteq Held' /\ k.recvd <= k'.recvd
  BY <1>1, <1>6 DEF Takes
<1>8. \A a \in acks' : a.kind = "ack" =>
        \/ a \in acks
        \/ a.cum = k'.expected /\ a.sack \subseteq k'.got /\ a.recvd = k'.recvd
  BY DEF Takes
<1>9. k'.got \subseteq Held'
  BY <1>1 DEF Held, Has
<1>10. \A a \in acks : a.kind = "ack" =>
         a.cum <= k.expected /\ a.sack \subseteq Held /\ a.recvd <= k.recvd
         /\ a.cum \in Nat /\ a.recvd \in Nat
  BY CoveredHeld DEF TransferInv, Truthful, Report
<1>11. Truthful'
  <2>1. Forgotten' \subseteq Held'
    BY <1>2, <1>7 DEF TransferInv, Truthful
  <2>2. ASSUME NEW a \in acks', a.kind = "ack"
        PROVE  a.cum <= k'.expected /\ a.sack \subseteq Held' /\ a.recvd <= k'.recvd
    <3>1. CASE a \in acks
      <4>1. a.cum <= k.expected /\ a.sack \subseteq Held /\ a.recvd <= k.recvd
            /\ a.cum \in Nat /\ a.recvd \in Nat
        BY <1>10, <2>2, <3>1
      <4> QED
        BY <1>1, <1>7, <4>1
    <3>2. CASE a.cum = k'.expected /\ a.sack \subseteq k'.got /\ a.recvd = k'.recvd
      BY <1>1, <1>9, <3>2
    <3> QED
      BY <1>8, <2>2, <3>1, <3>2
  <2> QED
    BY <2>1, <2>2 DEF Truthful
<1>12. Mtu * Cardinality(Held' \ s'.rts) <= k'.recvd
  <2> DEFINE x == Mtu * Cardinality(Held \ s.rts)
  <2>1. x <= k.recvd
    BY DEF TransferInv, Reported
  <2>2. x \in Int
    BY <1>6, MtuMonotonic
  <2>3. CASE Held' \ s'.rts = Held \ s.rts
    <3>1. x <= k'.recvd
      BY <1>1, <1>7, <2>1, <2>2
    <3> QED
      BY <2>3, <3>1
  <2>4. CASE Held' \ s'.rts # Held \ s.rts
    <3>1. q \notin Held /\ Held' = Held \cup {q} /\ k'.recvd = k.recvd + d /\ q \notin s.rts
      BY <1>6, <2>4 DEF Takes
    <3>2. Held' \ s'.rts = (Held \ s.rts) \cup {q}
      BY <3>1
    <3>3. IsFiniteSet(Held \ s.rts) /\ Cardinality(Held \ s.rts) \in Nat
      BY <1>6, SeqsFinite
    <3>4. Cardinality(Held' \ s'.rts) = Cardinality(Held \ s.rts) + 1
      BY <3>1, <3>2, <3>3, FS_AddElement
    <3>5. Mtu * Cardinality(Held' \ s'.rts) = x + Mtu
      BY <3>3, <3>4, MtuOnce
    <3> HIDE DEF x
    <3> QED
      BY <1>1, <2>1, <2>2, <3>1, <3>5, SenderAssumption
  <2> QED
    BY <2>3, <2>4
<1>13. s'.recvd <= k'.recvd
  <2>1. s.recvd <= k.recvd /\ s.recvd \in Nat
    BY <1>1 DEF TransferInv, Reported, Sender
  <2> QED
    BY <1>1, <1>7, <2>1
<1>14. ASSUME NEW n \in Nat
       PROVE  Mtu * Cardinality(Known(n)' \ s'.rts) <= n
  <2>1. CASE n < k'.recvd
    <3>1. \A a \in acks' : a.kind = "ack" /\ a.recvd <= n => a \in acks
      BY <1>1, <1>8, <2>1
    <3>2. Known(n)' \subseteq Known(n) /\ Known(n) \in SUBSET Seqs
      BY <1>2, <3>1 DEF Known
    <3>3. Known(n) \ s.rts \in SUBSET Seqs /\ Known(n)' \ s'.rts \in SUBSET (Known(n) \ s.rts)
      BY <3>2
    <3> DEFINE x == Mtu * Cardinality(Known(n)' \ s'.rts)
               y == Mtu * Cardinality(Known(n) \ s.rts)
    <3>4. x \in Nat /\ y \in Nat /\ x <= y
      BY <3>3, MtuMonotonic
    <3>5. y <= n
      BY DEF TransferInv, Reported
    <3> HIDE DEF x, y
    <3>6. x <= n
      BY <3>4, <3>5
    <3> QED
      BY <3>6 DEF x
  <2>2. CASE k'.recvd <= n
    <3>1. \A a \in acks' : a.kind = "ack" => Covered(a) \subseteq Held'
      <4> SUFFICES ASSUME NEW a \in acks', a.kind = "ack", NEW p \in Covered(a)
                   PROVE  p \in Held'
        OBVIOUS
      <4>1. CASE a \in acks
        BY <1>7, <4>1, CoveredHeld
      <4>2. CASE a.cum = k'.expected /\ a.sack \subseteq k'.got
        BY <1>9, <4>2 DEF Covered, Held, Has
      <4> QED
        BY <1>8, <4>1, <4>2
    <3>2. Forgotten' \subseteq Held'
      BY <1>11 DEF Truthful
    <3>3. Known(n)' \subseteq Held'
      BY <3>1, <3>2 DEF Known
    <3>4. Held' \ s'.rts \in SUBSET Seqs /\ Known(n)' \ s'.rts \in SUBSET (Held' \ s'.rts)
      BY <1>6, <3>3
    <3> DEFINE x == Mtu * Cardinality(Known(n)' \ s'.rts)
               y == Mtu * Cardinality(Held' \ s'.rts)
    <3>5. x \in Nat /\ y \in Nat /\ x <= y
      BY <3>4, MtuMonotonic
    <3>6. y <= k'.recvd
      BY <1>12
    <3> HIDE DEF x, y
    <3>7. x <= n
      BY <1>1, <2>2, <3>5, <3>6
    <3> QED
      BY <3>7 DEF x
  <2> QED
    BY <1>1, <2>1, <2>2
<1>15. Reported'
  BY <1>12, <1>13, <1>14 DEF Reported
<1> QED
  BY <1>3, <1>4, <1>5, <1>11, <1>15 DEF TransferInv

(* Nothing arrives: packets and answers are lost or trimmed.               *)
LEMMA LossKeeps ==
  ASSUME FlowInv, TransferInv, s' = s, k' = k, acks' \subseteq acks,
         BagToSet(wire') \subseteq BagToSet(wire), trimmed' \subseteq Sent
  PROVE  TransferInv'
<1>1. Ready(s') /\ Spans(k', s'.next)
  BY DEF TransferInv
<1>2. Sent' = Sent /\ Forgotten' = Forgotten /\ Held' = Held
  BY DEF Sent, Forgotten, Held, Has
<1>3. OnTheWay' /\ Truthful'
  BY <1>2 DEF TransferInv, OnTheWay, Truthful
<1>4. ASSUME NEW n \in Nat
      PROVE  Mtu * Cardinality(Known(n)' \ s'.rts) <= n
  <2>1. Known(n)' \subseteq Known(n) /\ Known(n) \in SUBSET Seqs
    BY <1>2 DEF Known
  <2>2. Known(n) \ s.rts \in SUBSET Seqs /\ Known(n)' \ s'.rts \in SUBSET (Known(n) \ s.rts)
    BY <2>1
  <2> DEFINE x == Mtu * Cardinality(Known(n)' \ s'.rts)
             y == Mtu * Cardinality(Known(n) \ s.rts)
  <2>3. x \in Nat /\ y \in Nat /\ x <= y
    BY <2>2, MtuMonotonic
  <2>4. y <= n
    BY DEF TransferInv, Reported
  <2> HIDE DEF x, y
  <2>5. x <= n
    BY <2>3, <2>4
  <2> QED
    BY <2>5 DEF x
<1>5. Reported'
  BY <1>2, <1>4 DEF TransferInv, Reported
<1> QED
  BY <1>1, <1>3, <1>5 DEF TransferInv

(* Taking a packet off the wire adds none.                                 *)
LEMMA TakenFromWire ==
  ASSUME FlowInv, NEW p
  PROVE  BagToSet(wire (-) SetToBag({p})) \subseteq BagToSet(wire)
BY DEF (-), BagToSet, SetToBag

(* The invariant holds at first.                                           *)
LEMMA InitTransfer == Init => TransferInv
<1> SUFFICES ASSUME Init PROVE TransferInv
  OBVIOUS
<1>1. FlowInv /\ s = FreshSender /\ k = FreshSink /\ acks = {} /\ trimmed = {}
      /\ wire = EmptyBag
  BY InitInv DEF Init
<1>2. /\ s.tx = {} /\ s.rtx = {} /\ s.rts = {} /\ s.inFlight = 0 /\ s.next = 0
      /\ s.recvd = 0 /\ s.done = FALSE /\ s.queued = 0 /\ s.ctrl = {} /\ s.out = {}
  BY <1>1 DEF FreshSender
<1>3. k.expected = 0 /\ k.got = {} /\ k.recvd = 0
  BY <1>1 DEF FreshSink
<1>4. Cardinality({}) = 0 /\ Mtu * 0 = 0 /\ Hdr * 0 = 0
  BY FS_EmptySet, SenderAssumption
<1>5. Ready(s)
  <2>1. {} \ s.rts = {} /\ {} \cap s.rts = {}
    OBVIOUS
  <2>2. Bytes(s, s.rtx) = 0
    BY <1>2, <1>4, <2>1 DEF Bytes
  <2>3. Drift(s) = 0
    BY <1>2, <1>4, <2>2 DEF Drift
  <2> QED
    BY <1>2, <2>3 DEF Ready, Wired, PortOK
<1>6. OnTheWay
  BY <1>1 DEF OnTheWay, EmptyBag, SetToBag, BagToSet
<1>7. Sent = {} /\ Forgotten = {} /\ Held = {}
  BY <1>2, <1>3 DEF Sent, Forgotten, Held, Has, Seqs
<1>8. Truthful /\ Spans(k, s.next)
  BY <1>1, <1>2, <1>3, <1>7 DEF Truthful, Spans
<1>9. Reported
  <2>1. \A r \in Nat : Known(r) = {}
    BY <1>1, <1>7 DEF Known
  <2>2. {} \ s.rts = {}
    OBVIOUS
  <2> QED
    BY <1>2, <1>3, <1>4, <1>7, <2>1, <2>2 DEF Reported
<1> QED
  BY <1>5, <1>6, <1>8, <1>9 DEF TransferInv

(* A step in which the sender sends and learns nothing.                    *)
SendsOnly ==
  /\ k' = k /\ Forgotten' = Forgotten /\ s'.done = s.done
  /\ acks' \subseteq acks /\ s.rts \subseteq s'.rts
  /\ s'.next \in s.next .. s.next + 2
  /\ Idle(s) => s'.next = s.next

(* An event of the sender, given what its method may do.                   *)
LEMMA EventKeeps ==
  ASSUME FlowInv, TransferInv, NEW T, Becomes(T),
         \A t \in T : Books(t, {}) /\ Moves(s, t) /\ t.next \in s.next .. s.next + 2,
         k' = k, trimmed' = trimmed, acks' \subseteq acks
  PROVE  TransferInv' /\ SendsOnly
<1>1. PICK t \in T : s' = [t EXCEPT !.out = {}] /\ wire' = wire (+) SetToBag(t.out)
  BY DEF Becomes
<1>2. Books(t, {}) /\ Moves(s, t) /\ t.next \in s.next .. s.next + 2
  BY <1>1
<1>3. t \in Sender /\ s.next \in Nat /\ t.next \in Nat
  BY <1>2 DEF Books, FlowInv, Sender
<1>4. PortOK(t)
  BY <1>2 DEF TransferInv, Ready, Moves
<1>5. TransferInv' /\ Forgotten' = Forgotten
  BY <1>1, <1>2, <1>4, MovesKeeps
<1>6. s'.next = t.next /\ s'.done = t.done /\ t.done = s.done /\ s.rts \subseteq s'.rts
  BY <1>1, <1>2, <1>3 DEF Sender, Moves
<1>7. Idle(s) => t.next = s.next
  <2> SUFFICES ASSUME Idle(s) PROVE t.next = s.next
    OBVIOUS
  <2>1. s.next <= t.next /\ s.next .. t.next - 1 = {}
    BY <1>2 DEF Moves, Idle
  <2> QED
    BY <1>3, <2>1
<1> QED
  BY <1>2, <1>5, <1>6, <1>7 DEF SendsOnly

(* The events that only send: the start, the port, the timer, a NACK.      *)
LEMMA SenderSteps ==
  ASSUME FlowInv, TransferInv,
         Start \/ NicDone \/ NicOther \/ Expire \/ \E a \in acks : ReceiveNack(a)
  PROVE  TransferInv' /\ SendsOnly
<1>1. Books(s, {}) /\ s \in Sender /\ s.next \in Nat
  BY DEF FlowInv, Books, Sender
<1>2. CASE Start
  <2> DEFINE T == {StartFlow(s, c) : c \in EventChoices}
  <2>1. \A c \in EventChoices :
          LET t == StartFlow(s, c)
          IN Books(t, {}) /\ Moves(s, t) /\ t.next \in {s.next, s.next + 1}
    BY <1>1, <1>2, StartFlowBooks, StartFlowMoves DEF Start
  <2>2. \A t \in T : Books(t, {}) /\ Moves(s, t) /\ t.next \in s.next .. s.next + 2
    BY <1>1, <2>1
  <2>3. Becomes(T) /\ k' = k /\ trimmed' = trimmed /\ acks' \subseteq acks
    BY <1>2 DEF Start
  <2> HIDE DEF T
  <2> QED
    BY <2>2, <2>3, EventKeeps
<1>3. CASE NicDone
  <2> DEFINE T == {PortFree(s, control, c) : control \in BOOLEAN, c \in EventChoices}
  <2>1. \A control \in BOOLEAN, c \in EventChoices :
          LET t == PortFree(s, control, c)
          IN Books(t, {}) /\ Moves(s, t) /\ t.next \in {s.next, s.next + 1}
    BY <1>1, PortFreeBooks, PortFreeMoves
  <2>2. \A t \in T : Books(t, {}) /\ Moves(s, t) /\ t.next \in s.next .. s.next + 2
    BY <1>1, <2>1
  <2>3. Becomes(T) /\ k' = k /\ trimmed' = trimmed /\ acks' \subseteq acks
    BY <1>3 DEF NicDone
  <2> HIDE DEF T
  <2> QED
    BY <2>2, <2>3, EventKeeps
<1>4. CASE NicOther
  <2> DEFINE u == [s EXCEPT !.busy = TRUE]
             T == {u}
  <2>1. Books(u, {})
    BY <1>1, PortBooks DEF Carries
  <2>2. u \in Sender /\ SameData(s, u) /\ u.busy /\ u.next = s.next
    BY <1>1 DEF Sender, SameData
  <2>3. Becomes(T) /\ k' = k /\ trimmed' = trimmed /\ acks' \subseteq acks
    BY <1>4 DEF NicOther
  <2> HIDE DEF u
  <2>4. Moves(s, u)
    BY <1>1, <2>2, SameMoves DEF PortOK
  <2>5. \A t \in T : Books(t, {}) /\ Moves(s, t) /\ t.next \in s.next .. s.next + 2
    BY <1>1, <2>1, <2>2, <2>4
  <2> HIDE DEF T
  <2> QED
    BY <2>3, <2>5, EventKeeps
<1>5. CASE Expire
  <2> DEFINE R == {r \in BOOLEAN : s.rts = {} => r}
             T == {Timeout(s, Oldest(s), mayRts /\ Cardinality(s.rts) < MaxRts, c) :
                     mayRts \in R, c \in EventChoices}
  <2>1. Oldest(s) \in s.tx
    <3>1. s.tx # {}
      BY <1>1, <1>5 DEF Expire, Books, Timed, Oldest
    <3> QED
      BY <1>1, <3>1, OldestIn DEF Books
  <2>2. \A t \in T : Books(t, {}) /\ Moves(s, t) /\ t.next \in s.next .. s.next + 2
    <3> TAKE t \in T
    <3>1. PICK mayRts \in R, c \in EventChoices :
            t = Timeout(s, Oldest(s), mayRts /\ Cardinality(s.rts) < MaxRts, c)
      OBVIOUS
    <3> DEFINE ok == mayRts /\ Cardinality(s.rts) < MaxRts
    <3>2. ok => Cardinality(s.rts) < MaxRts
      OBVIOUS
    <3> HIDE DEF ok
    <3>3. Books(Timeout(s, Oldest(s), ok, c), {})
      BY <1>1, <2>1, <3>2, TimeoutBooks
    <3>4. Moves(s, Timeout(s, Oldest(s), ok, c))
          /\ Timeout(s, Oldest(s), ok, c).next \in s.next .. s.next + 2
      BY <1>1, <2>1, <3>2, TimeoutMoves
    <3> QED
      BY <3>1, <3>3, <3>4 DEF ok
  <2>3. Becomes(T) /\ k' = k /\ trimmed' = trimmed /\ acks' \subseteq acks
    BY <1>5 DEF Expire
  <2> HIDE DEF T
  <2> QED
    BY <2>2, <2>3, EventKeeps
<1>6. ASSUME NEW a \in acks, ReceiveNack(a) PROVE TransferInv' /\ SendsOnly
  <2> DEFINE T == {Nack(s, a.seq, c) : c \in EventChoices}
  <2>1. \A t \in T : Books(t, {}) /\ Moves(s, t) /\ t.next \in s.next .. s.next + 2
    BY <1>1, NackBooks, NackMoves
  <2>2. Becomes(T) /\ k' = k /\ trimmed' = trimmed /\ acks' \subseteq acks
    BY <1>6 DEF ReceiveNack
  <2> HIDE DEF T
  <2> QED
    BY <2>1, <2>2, EventKeeps
<1> QED
  BY <1>2, <1>3, <1>4, <1>5, <1>6

(* A step in which the sender hears an ACK: the flow goes on, or all that   *)
(* was sent has been delivered.                                            *)
Learns ==
  /\ k' = k /\ Forgotten \subseteq Forgotten'
  /\ acks' \subseteq acks /\ s.rts \subseteq s'.rts
  /\ \E a \in acks :
       /\ a.kind = "ack" /\ Forgotten' \subseteq Forgotten \cup Covered(a)
       /\ Finished(s, a) => s'.done
  /\ \/ ~s.done /\ ~s'.done /\ s'.next \in {s.next, s.next + 1}
     \/ s'.done /\ Idle(s') /\ s'.next = s.next

(* An ACK.                                                                 *)
LEMMA AckStep ==
  ASSUME FlowInv, TransferInv, NEW a \in acks, ReceiveAck(a)
  PROVE  TransferInv' /\ Learns
<1>1. a.kind = "ack" /\ k' = k /\ trimmed' = trimmed /\ acks' \subseteq acks
      /\ Becomes({Ack(s, a, c) : c \in EventChoices})
  BY DEF ReceiveAck
<1>2. PICK c \in EventChoices : LET t == Ack(s, a, c) IN
        s' = [t EXCEPT !.out = {}] /\ wire' = wire (+) SetToBag(t.out)
  BY <1>1 DEF Becomes
<1> DEFINE t == Ack(s, a, c)
<1>3. Report(a)
  BY <1>1, CoveredHeld
<1>4. Books(s, {}) /\ Books(t, {})
  BY <1>3, AckBooks DEF FlowInv
<1>5. PICK u, v \in Sender :
        /\ Settles(s, u, a) /\ Moves(u, v)
        /\ \/ Finished(s, a) /\ v.next = s.next /\ t = [v EXCEPT !.done = TRUE]
           \/ ~Finished(s, a) /\ v.next \in {s.next, s.next + 1} /\ t = v
  BY <1>3, <1>4, AckSettles
<1>6. s' = [t EXCEPT !.out = {}] /\ wire' = wire (+) SetToBag(t.out)
  BY <1>2
<1> HIDE DEF t
<1>7. /\ TransferInv' /\ Forgotten \subseteq Forgotten' /\ s'.next = t.next
      /\ Forgotten' \subseteq Forgotten \cup Covered(a) /\ s.rts \subseteq s'.rts
      /\ ~Finished(s, a) => ~s.done /\ ~s'.done
      /\ Finished(s, a) => s'.done /\ Idle(s') /\ s'.next = s.next
  BY <1>1, <1>4, <1>5, <1>6, AckKeeps
<1> QED
  BY <1>1, <1>5, <1>7 DEF Learns

(* A step in which the sink takes in at most the packet with number q.     *)
TakesIn(q) ==
  /\ s' = s /\ q < s.next
  /\ \A a \in acks' \ acks : a.kind = "ack" => a.cum = k'.expected
  /\ Held' = Held \/ (q \notin Held /\ Held' = Held \cup {q})

(* What the sink does with a packet.                                       *)
LEMMA SinkSteps ==
  ASSUME FlowInv, TransferInv, ToSink
  PROVE  TransferInv' /\ \E q \in Seqs : TakesIn(q)
<1>1. k \in Sink /\ s \in Sender /\ s.next \in Nat /\ Spans(k, s.next)
  BY DEF FlowInv, Books, Sender, TransferInv
<1>2. ASSUME NEW r, NEW q \in Seqs, q \in Sent, NEW d \in Nat,
             Takes(k, r, q, d, s.next), Replies(r), Arrives(r), q \in s.rts \/ d = Mtu,
             s' = s, BagToSet(wire') \subseteq BagToSet(wire), trimmed' \subseteq Sent
      PROVE  TransferInv' /\ \E i \in Seqs : TakesIn(i)
  <2>1. k' = r.sink /\ acks' \subseteq acks \cup r.replies /\ r.sink \in Sink
    BY <1>2 DEF Arrives, Replies
  <2>2. TransferInv'
    BY <1>2, <2>1, SinkKeeps
  <2>3. q < s.next
    BY <1>1, <1>2 DEF Sent
  <2>4. Held = HeldBy(k) /\ Held' = HeldBy(k')
    BY DEF Held, HeldBy
  <2>5. TakesIn(q)
    BY <1>2, <2>1, <2>3, <2>4 DEF Takes, TakesIn
  <2> QED
    BY <1>2, <2>2, <2>5
<1>3. ASSUME NEW p \in BagToSet(wire)
      PROVE  /\ p \in Packet /\ p.seq \in Seqs /\ p.seq \in Sent /\ p.seq < s.next
             /\ p.kind = "rts" => p.seq \in s.rts
             /\ trimmed \subseteq Sent
  <2>1. p \in Packet
    BY TakeFromWire
  <2>2. p.seq \in Sent /\ (p.kind = "rts" => p.seq \in s.rts) /\ trimmed \subseteq Sent
    BY DEF TransferInv, OnTheWay
  <2>3. p.seq \in Seqs
    BY <2>1 DEF Packet
  <2>4. p.seq < s.next
    BY <1>1, <2>2 DEF Sent
  <2> QED
    BY <2>1, <2>2, <2>3, <2>4
<1>4. ASSUME NEW p \in BagToSet(wire), ReceiveData(p)
      PROVE  TransferInv' /\ \E i \in Seqs : TakesIn(i)
  <2> DEFINE d == Size(s, p.seq)
  <2>1. d \in Nat /\ (p.seq \in s.rts \/ d = Mtu)
    BY SenderAssumption DEF Size
  <2>2. PICK ecn \in BOOLEAN : Arrives(ProcessData(k, p, d, ecn))
    BY <1>4 DEF ReceiveData
  <2>3. s' = s /\ BagToSet(wire') \subseteq BagToSet(wire) /\ trimmed' \subseteq Sent
    BY <1>3, <1>4, TakenFromWire DEF ReceiveData
  <2> HIDE DEF d
  <2>4. Takes(k, ProcessData(k, p, d, ecn), p.seq, d, s.next)
        /\ Replies(ProcessData(k, p, d, ecn))
    BY <1>1, <1>3, <2>1, ProcessDataTakes, ProcessDataType
  <2> QED
    BY <1>2, <1>3, <2>1, <2>2, <2>3, <2>4
<1>5. ASSUME NEW p \in BagToSet(wire), ReceiveRts(p)
      PROVE  TransferInv' /\ \E i \in Seqs : TakesIn(i)
  <2>1. s' = s /\ BagToSet(wire') \subseteq BagToSet(wire) /\ trimmed' \subseteq Sent
        /\ Arrives(ProcessRts(k, p)) /\ p.kind = "rts"
    BY <1>3, <1>5, TakenFromWire DEF ReceiveRts
  <2>2. Takes(k, ProcessRts(k, p), p.seq, 0, s.next) /\ Replies(ProcessRts(k, p))
    BY <1>1, <1>3, ProcessRtsTakes, ProcessRtsType
  <2> QED
    BY <1>2, <1>3, <2>1, <2>2
<1>6. ASSUME NEW q \in trimmed, ReceiveTrimmed(q)
      PROVE  TransferInv' /\ \E i \in Seqs : TakesIn(i)
  <2> DEFINE r == ProcessTrimmed(k, [seq |-> q])
  <2>1. q \in Sent /\ q \in Seqs /\ q < s.next /\ trimmed \subseteq Sent
    BY <1>1 DEF FlowInv, Messages, TransferInv, OnTheWay, Sent
  <2>2. s' = s /\ BagToSet(wire') \subseteq BagToSet(wire) /\ trimmed' \subseteq Sent
        /\ Arrives(r)
    BY <1>6, <2>1 DEF ReceiveTrimmed
  <2>3. Takes(k, r, q, 0, s.next) /\ r.sink = k /\ Replies(r)
    BY <1>1, <2>1, ProcessTrimmedTakes, ProcessTrimmedType
  <2> HIDE DEF r
  <2>4. Takes(k, r, q, Mtu, s.next)
    BY <1>1, <2>3 DEF Takes
  <2> QED
    BY <1>2, <2>1, <2>2, <2>3, <2>4, SenderAssumption
<1> QED
  BY <1>4, <1>5, <1>6 DEF ToSink

(* Every event keeps the invariant, and is one of these.                   *)
LEMMA NextTransfer ==
  ASSUME FlowInv, TransferInv, [Next]_vars
  PROVE  /\ TransferInv'
         /\ \/ SendsOnly \/ Learns \/ \E q \in Seqs : TakesIn(q)
            \/ s' = s /\ k' = k /\ acks' \subseteq acks
<1>1. s.next \in Nat /\ trimmed \subseteq Sent
  BY DEF FlowInv, Books, Sender, TransferInv, OnTheWay
<1>2. CASE UNCHANGED vars
  <2>1. s' = s /\ k' = k /\ acks' \subseteq acks /\ trimmed' \subseteq Sent
        /\ BagToSet(wire') \subseteq BagToSet(wire)
    BY <1>1, <1>2 DEF vars
  <2> QED
    BY <2>1, LossKeeps
<1>3. CASE Start \/ NicDone \/ NicOther \/ Expire \/ \E a \in acks : ReceiveNack(a)
  BY <1>3, SenderSteps
<1>4. ASSUME NEW a \in acks, ReceiveAck(a) PROVE TransferInv' /\ Learns
  BY <1>4, AckStep
<1>5. CASE ToSink
  BY <1>5, SinkSteps
<1>6. CASE Network
  <2>1. s' = s /\ k' = k /\ acks' \subseteq acks
    BY <1>6 DEF Network, Drop, Trim, DropAck
  <2>2. BagToSet(wire') \subseteq BagToSet(wire)
    BY <1>6, TakenFromWire DEF Network, Drop, Trim, DropAck
  <2>3. trimmed' \subseteq Sent
    <3>1. \A p \in BagToSet(wire) : p.seq \in Sent
      BY DEF TransferInv, OnTheWay
    <3>2. ASSUME NEW p \in BagToSet(wire), Drop(p) \/ Trim(p)
          PROVE  trimmed' \subseteq Sent
      BY <1>1, <3>1, <3>2 DEF Drop, Trim
    <3>3. ASSUME NEW a \in acks, DropAck(a) PROVE trimmed' \subseteq Sent
      BY <1>1, <3>3 DEF DropAck
    <3> QED
      BY <1>6, <3>2, <3>3 DEF Network
  <2> QED
    BY <2>1, <2>2, <2>3, LossKeeps
<1> QED
  BY <1>2, <1>3, <1>4, <1>5, <1>6 DEF Next, ToSrc

-----------------------------------------------------------------------------
(* What follows.                                                           *)

(* What the sender takes for delivered, and every ACK that still travels,   *)
(* agrees with what the sink holds, in every reachable state.               *)
THEOREM TransferInvariant == Spec => [](FlowInv /\ TransferInv)
<1>1. Init => FlowInv /\ TransferInv
  BY InitInv, InitTransfer
<1>2. FlowInv /\ TransferInv /\ [Next]_vars => (FlowInv /\ TransferInv)'
  BY NextInv, NextTransfer
<1> QED
  BY <1>1, <1>2, PTL DEF Spec

(* Until it is finished, a flow that has sent all its data has still to     *)
(* hear of a packet, and will hear of it only with everything else.        *)
EndAhead ==
  s.started /\ ~s.done /\ s.backlog = 0 =>
    \E q \in Sent \ Forgotten :
      \A a \in acks : a.kind = "ack" /\ q \in Covered(a) => a.cum = s.next

(* While the sink misses a packet, no ACK tells of that one.               *)
LEMMA MissingAhead ==
  ASSUME FlowInv, TransferInv, k.expected # s.next
  PROVE  EndAhead
<1>1. k.expected \in Nat /\ s.next \in Nat /\ k.expected <= s.next
      /\ k.got \subseteq k.expected + 1 .. s.next - 1
  BY DEF FlowInv, Books, Sender, Sink, TransferInv, Spans
<1>2. k.expected \in Sent
  BY <1>1 DEF Sent
<1>3. k.expected \notin Held
  BY <1>1 DEF Held, Has
<1>4. k.expected \notin Forgotten
  BY <1>3 DEF TransferInv, Truthful
<1>5. \A a \in acks : a.kind = "ack" => k.expected \notin Covered(a)
  BY <1>3, CoveredHeld
<1> QED
  BY <1>2, <1>4, <1>5 DEF EndAhead

(* A sender with data left that sends nothing has data left.               *)
LEMMA BacklogStays ==
  ASSUME FlowInv, FlowInv', s'.next = s.next, s.rts \subseteq s'.rts,
         s'.started, s'.backlog = 0
  PROVE  s.started /\ s.backlog = 0
<1> DEFINE m == Cardinality(s.rts)
           n == Cardinality(s'.rts)
<1>1. /\ s \in Sender /\ s' \in Sender /\ s.next \in Nat
      /\ s.backlog \in 0 .. Pkts /\ Pkts \in Nat \ {0}
  BY SenderAssumption DEF FlowInv, Books, Sender
<1>2. m \in Nat /\ n \in Nat /\ m <= n
  <2>1. s.rts \in SUBSET Seqs /\ s'.rts \in SUBSET Seqs
    BY <1>1 DEF Sender
  <2>2. IsFiniteSet(s'.rts)
    BY <2>1, SeqsFinite
  <2> QED
    BY <2>1, <2>2, SeqsFinite, FS_Subset
<1>3. /\ s.next + s.backlog = (IF s.started THEN Pkts ELSE 0) + m
      /\ s'.next + s'.backlog = (IF s'.started THEN Pkts ELSE 0) + n
  BY DEF FlowInv, Books, Numbered
<1> HIDE DEF m, n
<1> QED
  BY <1>1, <1>2, <1>3

(* An ACK that covers the last packet to hear of ends the flow.            *)
LEMMA EndNext ==
  ASSUME FlowInv, FlowInv', TransferInv, EndAhead, [Next]_vars
  PROVE  EndAhead'
<1>1. TransferInv'
  BY NextTransfer
<1>2. CASE k'.expected # s'.next
  <2>1. (FlowInv /\ TransferInv /\ k.expected # s.next => EndAhead)'
    BY MissingAhead, PTL
  <2> QED
    BY <1>1, <1>2, <2>1
<1>3. CASE k'.expected = s'.next
  <2> SUFFICES ASSUME s'.started, ~s'.done, s'.backlog = 0
               PROVE  \E q \in Sent' \ Forgotten' :
                        \A a \in acks' : a.kind = "ack" /\ q \in Covered(a) => a.cum = s'.next
    BY DEF EndAhead
  <2>1. s.next \in Nat /\ s'.next \in Nat /\ k.expected \in Nat /\ k.expected <= s.next
    BY DEF FlowInv, Books, Sender, Sink, TransferInv, Spans
  <2>2. CASE SendsOnly
    <3>1. s'.next = s.next
      BY <1>3, <2>1, <2>2 DEF SendsOnly
    <3>2. s.started /\ s.backlog = 0 /\ ~s.done
      BY <2>2, <3>1, BacklogStays DEF SendsOnly
    <3> QED
      BY <2>2, <3>1, <3>2 DEF EndAhead, SendsOnly, Sent
  <2>3. CASE Learns
    <3>1. s'.next = s.next /\ ~s.done
      BY <1>3, <2>1, <2>3 DEF Learns
    <3>2. s.started /\ s.backlog = 0
      BY <2>3, <3>1, BacklogStays DEF Learns
    <3>3. PICK q \in Sent \ Forgotten :
            \A a \in acks : a.kind = "ack" /\ q \in Covered(a) => a.cum = s.next
      BY <3>1, <3>2 DEF EndAhead
    <3>4. PICK a \in acks :
            /\ a.kind = "ack" /\ Forgotten' \subseteq Forgotten \cup Covered(a)
            /\ ~Finished(s, a)
      BY <2>3 DEF Learns
    <3>5. a.cum # s.next
      <4>1. s.next = Pkts + Cardinality(s.rts)
        BY <2>1, <3>2 DEF FlowInv, Books, Numbered
      <4>2. Cardinality(s.rts) \in Nat /\ Pkts \in Nat
        BY SeqsFinite, SenderAssumption DEF FlowInv, Books, Sender
      <4> QED
        BY <3>4, <4>1, <4>2 DEF Finished
    <3>6. q \in Sent' \ Forgotten'
      BY <3>1, <3>3, <3>4, <3>5 DEF Sent
    <3> QED
      BY <2>3, <3>1, <3>3, <3>6 DEF Learns
  <2>4. CASE \E q \in Seqs : TakesIn(q)
    <3>1. s' = s /\ \A a \in acks' \ acks : a.kind = "ack" => a.cum = k'.expected
      BY <2>4 DEF TakesIn
    <3>2. Sent' = Sent /\ Forgotten' = Forgotten
      BY <3>1 DEF Sent, Forgotten
    <3> QED
      BY <1>3, <3>1, <3>2 DEF EndAhead
  <2>5. CASE s' = s /\ k' = k /\ acks' \subseteq acks
    BY <2>5 DEF EndAhead, Sent, Forgotten
  <2> QED
    BY <2>2, <2>3, <2>4, <2>5, NextTransfer
<1> QED
  BY <1>2, <1>3

(* Nothing has started at first.                                           *)
LEMMA EndInit == Init => EndAhead
  BY DEF Init, FreshSender, EndAhead

(* The port is never free while the source or an RTS waits for it: whoever  *)
(* declines the port hands it on.                                           *)
THEOREM PortHolds == Spec => []PortNeverIdle
<1>1. TransferInv => PortNeverIdle
  BY DEF TransferInv, Ready, PortOK, PortNeverIdle
<1> QED
  BY <1>1, TransferInvariant, PTL

(* checkFinished() reports the end exactly when everything sent, RTS        *)
(* packets included, has arrived and the sender has nothing outstanding,    *)
(* nothing to resend and nothing to send.                                  *)
THEOREM FinishedHolds == Spec => []FinishedMeansDelivered
<1>1. FlowInv /\ TransferInv /\ EndAhead => FinishedMeansDelivered
  <2> SUFFICES ASSUME FlowInv, TransferInv, EndAhead PROVE FinishedMeansDelivered
    OBVIOUS
  <2>1. s.done => Idle(s)
    BY DEF TransferInv, Ready
  <2>2. s.done => Held = Sent /\ Forgotten = Sent
    BY <2>1, IdleDelivered
  <2>3. s.done => s.timer = NoTimer
    BY <2>1 DEF FlowInv, Books, Timed, Oldest, Idle
  <2>4. s.started /\ s.backlog = 0 /\ Forgotten = Sent => s.done
    BY DEF EndAhead
  <2>5. s.done \in BOOLEAN /\ s.started \in BOOLEAN
    BY DEF FlowInv, Books, Sender
  <2> QED
    BY <2>1, <2>2, <2>3, <2>4, <2>5 DEF FinishedMeansDelivered, Idle
<1> QED
  BY <1>1, EndInit, EndNext, TransferInvariant, FlowInvariant, PTL DEF Spec

(* A step of the flow is a step of the reliable transfer, or changes        *)
(* nothing it promises.                                                     *)
LEMMA TransferStep ==
  ASSUME FlowInv, TransferInv, [Next]_vars
  PROVE  [Transfer!Next]_Transfer!vars
<1>1. FlowInv' /\ TransferInv'
  BY NextInv, NextTransfer
<1>2. s.next \in Nat /\ s'.next \in Nat /\ s.done \in BOOLEAN /\ s'.done \in BOOLEAN
  BY <1>1 DEF FlowInv, Books, Sender
<1>3. s'.next <= Pkts + MaxRts
  <2>1. s' \in Sender /\ Numbered(s')
    BY <1>1 DEF FlowInv, Books
  <2>2. s'.backlog \in Nat /\ s'.rts \in SUBSET Seqs
    BY <2>1 DEF Sender
  <2>3. Cardinality(s'.rts) \in Nat
    BY <2>2, SeqsFinite
  <2> QED
    BY <1>2, <2>1, <2>2, <2>3, SenderAssumption DEF Numbered
<1>4. Forgotten \subseteq Held /\ Forgotten' \subseteq Held'
  BY <1>1 DEF TransferInv, Truthful
<1>5. k' = k => Held' = Held
  BY DEF Held, Has
<1>6. ASSUME ~s.done, ~s'.done, Held' = Held, Forgotten \subseteq Forgotten',
             s'.next \in s.next .. s.next + 2
      PROVE  Transfer!Proceed
  <2>1. s'.done = s.done
    BY <1>2, <1>6
  <2> QED
    BY <1>3, <1>4, <1>6, <2>1 DEF Transfer!Proceed
<1>7. ASSUME s'.next = s.next, Held' = Held, Forgotten' = Forgotten, s'.done = s.done
      PROVE  UNCHANGED Transfer!vars
  BY <1>7 DEF Transfer!vars
<1>8. s.done => Idle(s)
  BY DEF TransferInv, Ready
<1>9. CASE SendsOnly
  <2>1. CASE s.done
    BY <1>5, <1>7, <1>8, <1>9, <2>1 DEF SendsOnly
  <2>2. CASE ~s.done
    BY <1>5, <1>6, <1>9, <2>2 DEF SendsOnly, Transfer!Next
  <2> QED
    BY <2>1, <2>2
<1>10. CASE Learns
  <2>1. CASE ~s.done /\ ~s'.done /\ s'.next \in {s.next, s.next + 1}
    <3>1. s'.next \in s.next .. s.next + 2
      BY <1>2, <2>1
    <3> QED
      BY <1>5, <1>6, <1>10, <2>1, <3>1 DEF Learns, Transfer!Next
  <2>2. CASE s'.done /\ Idle(s') /\ s'.next = s.next
    <3>1. (FlowInv /\ TransferInv /\ Idle(s) => Held = Sent /\ Forgotten = Sent)'
      BY IdleDelivered, PTL
    <3>2. Held' = Sent' /\ Forgotten' = Sent' /\ Sent' = Sent /\ Held' = Held
      BY <1>1, <1>5, <1>10, <2>2, <3>1 DEF Sent, Learns
    <3>3. CASE s.done
      <4>1. Forgotten = Sent /\ s'.done = s.done
        BY <1>2, <1>8, <2>2, <3>3, IdleDelivered
      <4> QED
        BY <1>7, <2>2, <3>2, <4>1
    <3>4. CASE ~s.done
      <4>1. Transfer!Finish
        BY <2>2, <3>2, <3>4 DEF Transfer!Finish, Sent
      <4> QED
        BY <4>1 DEF Transfer!Next
    <3> QED
      BY <3>3, <3>4
  <2> QED
    BY <1>10, <2>1, <2>2 DEF Learns
<1>11. CASE s' = s /\ k' = k
  BY <1>5, <1>7, <1>11 DEF Forgotten, Sent
<1>12. ASSUME NEW q \in Seqs, TakesIn(q) PROVE [Transfer!Next]_Transfer!vars
  <2>1. s' = s /\ Forgotten' = Forgotten
    BY <1>12 DEF TakesIn, Forgotten, Sent
  <2>2. CASE Held' = Held
    BY <1>7, <2>1, <2>2
  <2>3. CASE q \notin Held /\ Held' = Held \cup {q}
    <3>1. Transfer!Deliver(q)
      BY <1>12, <2>1, <2>3 DEF Transfer!Deliver, TakesIn
    <3>2. q \in 0 .. (Pkts + MaxRts) - 1
      BY SenderAssumption DEF Seqs
    <3> QED
      BY <3>1, <3>2 DEF Transfer!Next
  <2> QED
    BY <1>12, <2>2, <2>3 DEF TakesIn
<1> QED
  BY <1>9, <1>10, <1>11, <1>12, NextTransfer

(* One flow is a reliable transfer: each packet enters the sink once, the   *)
(* sender takes a packet for delivered only after it was, through every     *)
(* loss, trim, reordering and early timeout, and the end is reported once,  *)
(* with everything there.                                                   *)
THEOREM TransferImplemented == Spec => ImplementsTransfer
<1>1. Init => Transfer!Init
  BY DEF Init, FreshSender, FreshSink, Transfer!Init, Forgotten, Sent, Held, Has, Seqs
<1>2. FlowInv /\ TransferInv /\ [Next]_vars => [Transfer!Next]_Transfer!vars
  BY TransferStep
<1> QED
  BY <1>1, <1>2, TransferInvariant, PTL DEF Spec, ImplementsTransfer, Transfer!Spec

(* The packets of two disjoint sets, in bytes.                             *)
LEMMA MtuUnion ==
  ASSUME NEW A \in SUBSET Seqs, NEW B \in SUBSET Seqs, A \cap B = {}
  PROVE  /\ Mtu * Cardinality(A) \in Nat /\ Mtu * Cardinality(B) \in Nat
         /\ Mtu * Cardinality(A \cup B) = Mtu * Cardinality(A) + Mtu * Cardinality(B)
<1> DEFINE m == Mtu
           a == Cardinality(A)
           b == Cardinality(B)
<1>1. Cardinality(A \cup B) = Cardinality(A) + Cardinality(B) - Cardinality(A \cap B)
  BY SeqsFinite, FS_Union
<1>2. Cardinality(A \cap B) = 0
  BY FS_EmptySet
<1>3. m \in Nat /\ a \in Nat /\ b \in Nat
  BY SeqsFinite, SenderAssumption
<1>4. Cardinality(A \cup B) = a + b
  BY <1>1, <1>2, <1>3
<1> HIDE DEF m, a, b
<1>5. m * a \in Nat /\ m * b \in Nat /\ m * (a + b) = m * a + m * b
  BY <1>3
<1> QED
  BY <1>4, <1>5 DEF m, a, b

(* With one window, what is off by nothing balances; and what was reported *)
(* covers what was forgotten, so nothing is in flight but _tx_bitmap.      *)
LEMMA OneWindowExact ==
  ASSUME FlowInv, TransferInv, ~Dual
  PROVE  InFlightExact
<1> DEFINE A  == (s.tx \cup Forgotten) \ s.rts
           R  == s.rtx \ s.rts
           T  == s.tx \ s.rts
           G  == Forgotten \ s.rts
           D  == Sent \ s.rts
           h  == Hdr * Cardinality(s.rtx \cap s.rts)
           g  == Hdr * Cardinality(s.tx \cap s.rts)
<1>1. s \in Sender /\ s.next \in Nat /\ s.tx \in SUBSET Seqs /\ s.rtx \in SUBSET Seqs
      /\ s.rts \in SUBSET Seqs /\ s.inFlight \in Int /\ s.recvd \in Nat
  BY DEF FlowInv, Books, Sender
<1>2. s.tx \cap s.rtx = {} /\ s.tx \cup s.rtx \cup s.rts \subseteq Sent
  BY DEF FlowInv, Books, Filed, Numbered, Sent
<1>3. Forgotten \in SUBSET Seqs
  BY DEF TransferInv, Truthful, Held
<1>4. A \in SUBSET Seqs /\ R \in SUBSET Seqs /\ T \in SUBSET Seqs /\ G \in SUBSET Seqs
      /\ D = A \cup R /\ A \cap R = {} /\ A = T \cup G /\ T \cap G = {}
  BY <1>1, <1>2, <1>3 DEF Forgotten
<1>5. Cardinality(D) = s.next - Cardinality(s.rts)
  <2>1. IsFiniteSet(Sent) /\ Cardinality(Sent) = s.next
    <3> DEFINE n == s.next - 1
    <3>1. n \in Int /\ 0 \in Int /\ Sent = 0 .. n /\ n + 1 = s.next /\ (0 > n => s.next = 0)
      BY <1>1 DEF Sent
    <3> HIDE DEF n
    <3>2. IsFiniteSet(0 .. n)
          /\ Cardinality(0 .. n) = IF 0 > n THEN 0 ELSE n - 0 + 1
      BY <3>1, FS_Interval
    <3> QED
      BY <3>1, <3>2
  <2>2. D \cup s.rts = Sent /\ D \cap s.rts = {} /\ D \in SUBSET Seqs
    BY <1>2, <1>4
  <2>3. Cardinality(D \cup s.rts) = Cardinality(D) + Cardinality(s.rts) - Cardinality(D \cap s.rts)
    BY <1>1, <2>2, SeqsFinite, FS_Union
  <2>4. Cardinality(D \cap s.rts) = 0
    BY <2>2, FS_EmptySet
  <2>5. Cardinality(D) \in Nat /\ Cardinality(s.rts) \in Nat
    BY <1>1, <2>2, SeqsFinite
  <2>6. Cardinality(D \cup s.rts) = s.next
    BY <2>1, <2>2, Zenon
  <2> HIDE DEF D
  <2> QED
    BY <1>1, <2>3, <2>4, <2>5, <2>6
<1>6. h \in Nat /\ g \in Nat
  <2>1. s.rtx \cap s.rts \in SUBSET Seqs /\ s.tx \cap s.rts \in SUBSET Seqs
    BY <1>1
  <2>2. Cardinality(s.rtx \cap s.rts) \in Nat /\ Cardinality(s.tx \cap s.rts) \in Nat
    BY <2>1, SeqsFinite
  <2> QED
    BY <2>2, SenderAssumption
<1>7. /\ Mtu * Cardinality(A) \in Nat /\ Mtu * Cardinality(R) \in Nat
      /\ Mtu * Cardinality(D) = Mtu * Cardinality(A) + Mtu * Cardinality(R)
  <2> HIDE DEF A, R, D
  <2> QED
    BY <1>4, MtuUnion
<1>8. /\ Mtu * Cardinality(T) \in Nat /\ Mtu * Cardinality(G) \in Nat
      /\ Mtu * Cardinality(A) = Mtu * Cardinality(T) + Mtu * Cardinality(G)
  <2> HIDE DEF A, T, G
  <2> QED
    BY <1>4, MtuUnion
<1>9. Mtu * Cardinality(G) <= s.recvd
  <2>1. Forgotten \subseteq Known(s.recvd) /\ Known(s.recvd) \in SUBSET Seqs
    BY <1>1, <1>3 DEF Known
  <2>2. Known(s.recvd) \ s.rts \in SUBSET Seqs /\ G \in SUBSET (Known(s.recvd) \ s.rts)
    BY <2>1
  <2> DEFINE x == Mtu * Cardinality(G)
             y == Mtu * Cardinality(Known(s.recvd) \ s.rts)
  <2>3. x \in Nat /\ y \in Nat /\ x <= y
    BY <2>2, MtuMonotonic
  <2>4. y <= s.recvd
    BY <1>1 DEF TransferInv, Reported
  <2> HIDE DEF x, y
  <2>5. x <= s.recvd
    BY <1>1, <2>3, <2>4
  <2> QED
    BY <2>5 DEF x
<1>10. s.inFlight + s.recvd + (Mtu * Cardinality(R) + h) - Mtu * Cardinality(D) = 0
  <2>1. Drift(s) = 0
    BY DEF TransferInv, Ready
  <2>2. Drift(s) = s.inFlight + s.recvd + (Mtu * Cardinality(R) + h)
                     - Mtu * (s.next - Cardinality(s.rts))
    BY Zenon DEF Drift, Bytes
  <2> HIDE DEF R, h, D
  <2> QED
    BY <1>5, <2>1, <2>2
<1> DEFINE a == Mtu * Cardinality(A)
           r == Mtu * Cardinality(R)
           d == Mtu * Cardinality(D)
           t == Mtu * Cardinality(T)
           f == Mtu * Cardinality(G)
<1>11. Bytes(s, s.tx) = t + g
  BY Zenon DEF Bytes
<1>12. /\ a \in Nat /\ r \in Nat /\ t \in Nat /\ f \in Nat /\ d = a + r /\ a = t + f
       /\ f <= s.recvd /\ s.inFlight + s.recvd + (r + h) - d = 0
  BY <1>7, <1>8, <1>9, <1>10
<1>13. InFlightBalance <=> (s.inFlight + s.recvd = a - h)
  BY Zenon DEF InFlightBalance
<1> HIDE DEF a, r, d, t, f, g, h
<1>14. s.inFlight + s.recvd = a - h /\ s.inFlight <= t + g
  BY <1>1, <1>6, <1>12
<1> QED
  BY <1>11, <1>13, <1>14 DEF InFlightExact, NoPhantomInFlight

(* With two windows, each counts a part of _tx_bitmap.                     *)
LEMMA TwoWindowsExact ==
  ASSUME FlowInv, Dual, ~Elephant
  PROVE  InFlightExact
<1>1. s \in Sender /\ s.tx \in SUBSET Seqs
  BY DEF FlowInv, Books, Sender
<1>2. s.inFlight = s.safe + s.random
      /\ s.safe = Bytes(s, Tagged(s, s.tx, "safe"))
      /\ s.random = Bytes(s, Tagged(s, s.tx, "random"))
  BY DEF FlowInv, Books, Balanced, Exact, Charged
<1>3. s.inFlight = Bytes(s, Counted(s, s.tx))
  BY <1>1, <1>2, CountedBytes
<1>4. Counted(s, s.tx) \in SUBSET s.tx
  BY DEF Counted
<1> DEFINE c == Counted(s, s.tx)
<1>5. s.tx \ c \in SUBSET Seqs /\ c \in SUBSET Seqs
  BY <1>1, <1>4
<1>6. Bytes(s, s.tx \ c) = Bytes(s, s.tx) - Bytes(s, c)
  BY <1>1, <1>4, BytesMinus
<1>7. Bytes(s, s.tx \ c) \in Nat /\ Bytes(s, s.tx) \in Nat /\ Bytes(s, c) \in Nat
  BY <1>1, <1>5, BytesType
<1> HIDE DEF c
<1>8. Bytes(s, c) <= Bytes(s, s.tx)
  BY <1>6, <1>7
<1> QED
  BY <1>3, <1>8 DEF c, InFlightExact, InFlightBalance, NoPhantomInFlight

(* _in_flight, which ACKs lower by bytes reported and losses by packets,    *)
(* counts the same bytes in every reachable state: it neither leaks nor     *)
(* keeps what is no longer outstanding.  (An elephant of a dual-window flow *)
(* breaks this, as it breaks assertDualWindowInvariant().)                  *)
THEOREM InFlightHolds ==
  ASSUME ~(Dual /\ Elephant)
  PROVE  Spec => []InFlightExact
<1>1. FlowInv /\ TransferInv => InFlightExact
  BY OneWindowExact, TwoWindowsExact
<1> QED
  BY <1>1, TransferInvariant, PTL

-----------------------------------------------------------------------------
(* No timeout without a cause.                                             *)

(* The window has room, whichever draw it is asked for.                    *)
Room(t) == \A w \in Cwnds : t.inFlight < w

(* The port has the source in its queue and will find it able to send.     *)
Eager(t) == t.queued > 0 /\ t.blocked /\ HasWork(t) /\ Room(t)

(* Nothing has been lost as far as the sender can see: no RTS and no       *)
(* recovery.                                                               *)
Smooth(t) == t.rts = {} /\ t.ctrl = {} /\ ~t.recovery

(* One window, of one size.                                                *)
OneWindow == ~Dual /\ \A v, w \in Cwnds : v = w

(* What a smooth sender does when it gets the chance: nothing; one new     *)
(* packet, which asks for an ACK unless more packets will follow; or one   *)
(* from the rtx queue.                                                     *)
Sends(t, u) ==
  /\ Smooth(u)
  /\ \/ /\ u.next = t.next /\ u.tx = t.tx /\ u.rtx = t.rtx /\ u.out = {}
        /\ Eager(t) => Eager(u)
     \/ \E p : /\ u.out = {p} /\ p.kind = "data" /\ p.seq = t.next
               /\ t.rtx = {} /\ u.rtx = {} /\ u.next = t.next + 1
               /\ p.ar \/ Eager(u)
     \/ \E p : /\ u.out = {p} /\ p.kind = "data" /\ p.seq \in t.rtx
               /\ u.rtx \subseteq t.rtx /\ u.next = t.next

(* With one window, permission to send is room.                            *)
LEMMA Gate ==
  ASSUME OneWindow, NEW t \in Sender, NEW c \in EventChoices
  PROVE  /\ c.safe \in Cwnds /\ c.safe \in Nat /\ c.random = 0
         /\ \A w : Full(t, w, c) <=> ~Room(t)
         /\ ~t.recovery => \A w : Permitted(t, w, c) <=> Room(t)
<1>1. c.safe \in Cwnds /\ c.random = 0
  <2>1. c \in [safe : Cwnds, random : {0}, pred : {"none"}, next : {"none"}]
    BY DEF EventChoices, OneWindow
  <2> QED
    BY <2>1
<1>2. c.safe \in Nat /\ t.inFlight \in Int
  BY <1>1, SenderAssumption DEF Sender
<1>3. Room(t) <=> t.inFlight < c.safe
  BY <1>1 DEF Room, OneWindow
<1>4. \A w : Full(t, w, c) <=> ~Room(t)
  BY <1>2, <1>3 DEF Full, OneWindow
<1> QED
  BY <1>1, <1>2, <1>4 DEF Permitted

(* sendNewPacket() leaves without asking for an ACK only when there is     *)
(* more to send and room for it.                                           *)
LEMMA NewPacketSent ==
  ASSUME OneWindow, NEW t, NEW S \in SUBSET Seqs, NEW w, NEW c \in EventChoices,
         Books(t, S), Smooth(t), t.backlog > 0, t.out = {}, GoodTag(w)
  PROVE  LET r == NewPacket(t, w, c)
         IN /\ Smooth(r) /\ r.rtx = t.rtx /\ r.next = t.next + 1
            /\ \E p : /\ r.out = {p} /\ p.kind = "data" /\ p.seq = t.next
                      /\ p.ar \/ (r.backlog > 0 /\ Room(r))
<1> DEFINE v  == DrawnTag(w)
           wa == WantsAck(t, v, c)
           p  == [seq |-> t.next, kind |-> "data", ar |-> wa]
           o  == t.out \cup {p}
           bl == t.backlog - 1
           fl == t.inFlight + Mtu
           nx == t.next + 1
           b  == [t EXCEPT !.backlog = bl, !.inFlight = fl, !.next = nx, !.out = o]
           r  == AddRecord(b, t.next, v)
<1>1. t \in Sender /\ Numbered(t)
  BY DEF Books
<1>2. t.next \in Seqs /\ t.next \in Nat /\ t.backlog \in 0 .. Pkts /\ v \in Tags
      /\ t.inFlight \in Int /\ Mtu \in Nat
  BY <1>1, NextInSeqs, SenderAssumption DEF Sender, DrawnTag, GoodTag, Tags
<1>3. NewPacket(t, w, c) = r
  BY Zenon DEF NewPacket
<1>4. wa \in BOOLEAN /\ (wa \/ (t.backlog # 1 /\ fl < c.safe))
  BY <1>1, <1>2, Gate DEF WantsAck, OneWindow
<1> HIDE DEF wa
<1>5. p \in Packet /\ p.seq = t.next /\ p.kind = "data" /\ p.ar = wa
  BY <1>2, <1>4 DEF Packet
<1> HIDE DEF p
<1>6. o \in SUBSET Packet /\ o = {p} /\ bl \in 0 .. Pkts /\ fl \in Int /\ nx \in Nat
  BY <1>1, <1>2, <1>5, SenderAssumption DEF Sender
<1>7. wa \/ (bl > 0 /\ \A x \in Cwnds : fl < x)
  BY <1>2, <1>4, <1>1, Gate DEF OneWindow
<1> HIDE DEF o, bl, fl, nx, v
<1>8. b \in Sender
  BY <1>1, <1>6 DEF Sender
<1>9. /\ b.rtx = t.rtx /\ b.rts = t.rts /\ b.inFlight = fl /\ b.backlog = bl
      /\ b.next = nx /\ b.ctrl = t.ctrl /\ b.out = o /\ b.recovery = t.recovery
  BY <1>1 DEF Sender
<1> HIDE DEF b
<1>10. Recorded(b, r, t.next, v) /\ r.out = b.out
  BY <1>2, <1>8, AddRecordFields, AddRecordFrame
<1> HIDE DEF r
<1>11. /\ r.rtx = t.rtx /\ r.rts = t.rts /\ r.inFlight = fl /\ r.backlog = bl
       /\ r.next = t.next + 1 /\ r.ctrl = t.ctrl /\ r.out = {p} /\ r.recovery = t.recovery
  BY <1>6, <1>9, <1>10 DEF Recorded, nx
<1>12. Smooth(r) /\ (p.ar \/ (r.backlog > 0 /\ Room(r)))
  BY <1>5, <1>7, <1>11 DEF Smooth, Room
<1> QED
  BY <1>3, <1>5, <1>11, <1>12

(* sendRtxPacket() sends what waited in the rtx queue.                     *)
LEMMA RtxPacketSent ==
  ASSUME NEW t, NEW S, Books(t, S), Smooth(t), t.rtx # {}, t.out = {}
  PROVE  LET r == RtxPacket(t)
         IN /\ Smooth(r) /\ r.rtx \subseteq t.rtx /\ r.next = t.next
            /\ \E p : r.out = {p} /\ p.kind = "data" /\ p.seq \in t.rtx
<1> DEFINE q  == Min(t.rtx)
           v  == t.tag[q]
           p  == [seq |-> q, kind |-> "data", ar |-> TRUE]
           rx == t.rtx \ {q}
           d  == Bytes(t, Counted(t, {q}))
           fl == t.inFlight + d
           o  == t.out \cup {p}
           b  == [t EXCEPT !.rtx = rx, !.inFlight = fl, !.out = o]
           r  == AddRecord(b, q, v)
<1>1. t \in Sender /\ t.rtx \in SUBSET Seqs
  BY DEF Books, Sender
<1>2. q \in t.rtx /\ q \in Seqs
  BY <1>1, MinIn DEF Seqs
<1> HIDE DEF q
<1>3. d \in Nat
  BY <1>1, <1>2, CountedBytes
<1> HIDE DEF d
<1>4. v \in Tags /\ p \in Packet /\ p.seq = q /\ p.kind = "data"
  BY <1>1, <1>2 DEF Sender, Packet
<1>5. RtxPacket(t) = r
  BY Zenon DEF RtxPacket, q, d
<1> HIDE DEF v, p
<1>6. rx \in SUBSET Seqs /\ fl \in Int /\ o \in SUBSET Packet /\ o = {p} /\ rx \subseteq t.rtx
  <2>1. t.inFlight \in Int
    BY <1>1 DEF Sender
  <2> QED
    BY <1>1, <1>3, <1>4, <2>1
<1> HIDE DEF rx, fl, o
<1>7. b \in Sender
  BY <1>1, <1>6 DEF Sender
<1>8. /\ b.rtx = rx /\ b.rts = t.rts /\ b.next = t.next /\ b.ctrl = t.ctrl
      /\ b.out = o /\ b.recovery = t.recovery
  BY <1>1 DEF Sender
<1> HIDE DEF b
<1>9. Recorded(b, r, q, v) /\ r.out = b.out
  BY <1>2, <1>4, <1>7, AddRecordFields, AddRecordFrame
<1> HIDE DEF r
<1>10. Smooth(r) /\ r.rtx \subseteq t.rtx /\ r.next = t.next /\ r.out = {p}
  BY <1>6, <1>8, <1>9 DEF Recorded, Smooth
<1> QED
  BY <1>2, <1>4, <1>5, <1>10

(* u is t but for its dealings with the port.                              *)
SamePort(t, u) ==
  /\ u.next = t.next /\ u.tx = t.tx /\ u.rtx = t.rtx /\ u.rts = t.rts /\ u.ctrl = t.ctrl
  /\ u.recovery = t.recovery /\ u.inFlight = t.inFlight /\ u.backlog = t.backlog
  /\ u.out = t.out

(* Dealing with the port touches nothing else, and enqueueing puts the     *)
(* source in its queue.                                                    *)
LEMMA PortSent ==
  ASSUME NEW t \in Sender
  PROVE  /\ SamePort(t, StartSending(t)) /\ StartSending(t) \in Sender
         /\ SamePort(t, Enqueue(t)) /\ Enqueue(t).queued > 0 /\ Enqueue(t).blocked
<1>1. SamePort(t, StartSending(t)) /\ StartSending(t) \in Sender
  <2> DEFINE n == IF t.queued > 0 THEN t.queued - 1 ELSE t.queued
  <2>1. StartSending(t) = [t EXCEPT !.busy = TRUE, !.queued = n]
    BY Zenon DEF StartSending
  <2>2. n \in Nat
    BY DEF Sender
  <2> HIDE DEF n
  <2> DEFINE u == [t EXCEPT !.busy = TRUE, !.queued = n]
  <2>3. u \in Sender
    BY <2>2 DEF Sender
  <2>4. SamePort(t, u)
    BY DEF Sender, SamePort
  <2> HIDE DEF u
  <2> QED
    BY <2>1, <2>3, <2>4 DEF u
<1>2. SamePort(t, Enqueue(t)) /\ Enqueue(t).queued > 0 /\ Enqueue(t).blocked
  <2> DEFINE n == t.queued + 1
  <2>1. Enqueue(t) = [t EXCEPT !.queued = n, !.blocked = TRUE] /\ n \in Nat /\ n > 0
    BY DEF Enqueue, Sender
  <2> HIDE DEF n
  <2> QED
    BY <2>1 DEF Sender, SamePort
<1> QED
  BY <1>1, <1>2

(* One packet and then the port's queue, or no more that could be sent.    *)
LEMMA PacketSent ==
  ASSUME OneWindow, NEW t, NEW S \in SUBSET Seqs, NEW w, NEW c \in EventChoices,
         Books(t, S), Smooth(t), HasWork(t), t.out = {}, GoodTag(w)
  PROVE  LET sent == StartSending(SendPacket(t, w, c))
         IN /\ Smooth(sent) /\ sent \in Sender
            /\ Sends(t, Enqueue(sent))
            /\ ~(Room(sent) /\ HasWork(sent)) => Sends(t, sent)
            /\ t.rtx = {} => sent.rtx = {}
            /\ sent.out # {} /\ Enqueue(sent).out # {}
<1> DEFINE x == SendPacket(t, w, c)
           sent == StartSending(x)
           e == Enqueue(sent)
<1>1. Books(x, S) /\ x \in Sender
  BY SendPacketBooks DEF Carries, Books
<1>2. /\ Smooth(x)
      /\ \/ /\ t.rtx = {} /\ x.rtx = {} /\ x.next = t.next + 1
            /\ \E p : /\ x.out = {p} /\ p.kind = "data" /\ p.seq = t.next
                      /\ p.ar \/ (x.backlog > 0 /\ Room(x))
         \/ /\ t.rtx # {} /\ x.rtx \subseteq t.rtx /\ x.next = t.next
            /\ \E p : x.out = {p} /\ p.kind = "data" /\ p.seq \in t.rtx
  <2>1. CASE t.rtx = {}
    BY <2>1, NewPacketSent DEF SendPacket, HasWork
  <2>2. CASE t.rtx # {}
    BY <2>2, RtxPacketSent DEF SendPacket
  <2> QED
    BY <2>1, <2>2
<1> HIDE DEF x
<1>3. SamePort(x, sent) /\ sent \in Sender
  BY <1>1, PortSent
<1> HIDE DEF sent
<1>4. SamePort(sent, e) /\ e.queued > 0 /\ e.blocked
  BY <1>3, PortSent
<1> HIDE DEF e
<1>5. Smooth(sent) /\ Smooth(e)
  BY <1>2, <1>3, <1>4 DEF Smooth, SamePort
<1>6. x.backlog > 0 /\ Room(x) => Room(sent) /\ HasWork(sent) /\ Eager(e)
  BY <1>3, <1>4 DEF Room, HasWork, Eager, SamePort
<1>7. Sends(t, e)
  BY <1>2, <1>3, <1>4, <1>5, <1>6 DEF Sends, SamePort
<1>8. ~(Room(sent) /\ HasWork(sent)) => Sends(t, sent)
  BY <1>2, <1>3, <1>5, <1>6 DEF Sends, SamePort
<1>9. sent.out # {} /\ e.out # {}
  BY <1>2, <1>3, <1>4 DEF SamePort
<1> QED
  BY <1>2, <1>3, <1>5, <1>7, <1>8, <1>9 DEF x, sent, e, SamePort

(* Sending nothing is harmless as long as an eager source stays eager.     *)
LEMMA SameSends ==
  ASSUME NEW t, NEW u, SamePort(t, u), Smooth(t), t.out = {}, Eager(t) => Eager(u)
  PROVE  Sends(t, u)
BY DEF SamePort, Smooth, Sends

(* sendIfPermitted().                                                      *)
LEMMA SendIfPermittedSends ==
  ASSUME OneWindow, NEW t, NEW c \in EventChoices, Books(t, {}), Smooth(t), t.out = {}
  PROVE  Sends(t, SendIfPermitted(t, c))
<1> DEFINE u    == SendIfPermitted(t, c)
           sent == StartSending(SendPacket(t, c.pred, c))
<1>1. t \in Sender /\ {} \in SUBSET Seqs /\ GoodTag(c.pred)
  BY ChoiceTypes DEF Books
<1>2. \/ u = t
      \/ HasWork(t) /\ Permitted(t, c.pred, c) /\ t.busy /\ u = Enqueue(t)
      \/ HasWork(t) /\ Permitted(sent, c.next, c) /\ HasWork(sent) /\ u = Enqueue(sent)
      \/ HasWork(t) /\ ~(Permitted(sent, c.next, c) /\ HasWork(sent)) /\ u = sent
  BY DEF SendIfPermitted
<1>3. CASE u = t
  <2>1. Sends(t, t)
    BY SameSends DEF SamePort
  <2> QED
    BY <1>3, <2>1
<1>4. CASE u = Enqueue(t)
  <2> DEFINE e == Enqueue(t)
  <2>1. SamePort(t, e) /\ e.queued > 0 /\ e.blocked
    BY <1>1, PortSent
  <2> HIDE DEF e
  <2>2. Eager(t) => Eager(e)
    BY <2>1 DEF Eager, Room, HasWork, SamePort
  <2>3. Sends(t, e)
    BY <2>1, <2>2, SameSends
  <2> QED
    BY <1>4, <2>3 DEF e
<1>5. CASE HasWork(t) /\ u = Enqueue(sent)
  <2>1. Sends(t, Enqueue(sent))
    BY <1>1, <1>5, PacketSent
  <2> QED
    BY <1>5, <2>1
<1>6. CASE HasWork(t) /\ ~(Permitted(sent, c.next, c) /\ HasWork(sent)) /\ u = sent
  <2>1. /\ Smooth(sent) /\ sent \in Sender
        /\ ~(Room(sent) /\ HasWork(sent)) => Sends(t, sent)
    BY <1>1, <1>6, PacketSent
  <2>2. Permitted(sent, c.next, c) <=> Room(sent)
    BY <2>1, Gate DEF Smooth
  <2> QED
    BY <1>6, <2>1, <2>2
<1> HIDE DEF u, sent
<1> QED
  BY <1>2, <1>3, <1>4, <1>5, <1>6 DEF u

(* timeToSend(): the port's turn is taken, or the source is back in its    *)
(* queue.                                                                  *)
LEMMA TimeToSendSends ==
  ASSUME OneWindow, NEW t, NEW c \in EventChoices, Books(t, {}), Smooth(t), t.out = {}
  PROVE  Sends(t, TimeToSend(t, c))
<1> DEFINE u    == [t EXCEPT !.blocked = FALSE]
           sent == StartSending(SendPacket(u, c.pred, c))
           more == IF sent.recovery THEN sent.rtx # {}
                   ELSE IF Dual THEN ~(Full(sent, "safe", c) /\ Full(sent, "random", c))
                   ELSE ~Full(sent, "none", c)
           r    == TimeToSend(t, c)
<1>1. t \in Sender /\ {} \in SUBSET Seqs /\ GoodTag(c.pred)
  BY ChoiceTypes DEF Books
<1>2. Books(u, {}) /\ u \in Sender /\ SamePort(t, u)
  <2>1. Books(u, {})
    BY PortBooks DEF Carries
  <2>2. u \in Sender /\ SamePort(t, u)
    BY <1>1 DEF Sender, SamePort
  <2> QED
    BY <2>1, <2>2
<1>3. \/ ~HasWork(t) /\ r = CantSend(t)
      \/ ~Permitted(u, c.pred, c) /\ r = CantSend(u)
      \/ HasWork(t) /\ r = Enqueue(sent)
      \/ HasWork(t) /\ ~(more /\ HasWork(sent)) /\ r = sent
  BY DEF TimeToSend
<1> HIDE DEF u
<1>4. Smooth(u) /\ u.out = {} /\ (HasWork(t) <=> HasWork(u)) /\ (Room(t) <=> Room(u))
  BY <1>2 DEF Smooth, SamePort, HasWork, Room
<1>5. ASSUME NEW x \in Sender, SamePort(t, x)
      PROVE  SamePort(t, CantSend(x))
  <2> DEFINE y == [x EXCEPT !.queued = 0]
  <2>1. CantSend(x) = IF y.ctrl # {} THEN SendControl(y) ELSE y
    BY Zenon DEF CantSend
  <2>2. SamePort(x, y)
    BY <1>5 DEF Sender, SamePort
  <2> HIDE DEF y
  <2> QED
    BY <1>5, <2>1, <2>2 DEF SamePort, Smooth
<1>6. CASE ~HasWork(t) /\ r = CantSend(t)
  <2>1. SamePort(t, CantSend(t))
    BY <1>1, <1>5 DEF SamePort
  <2> QED
    BY <1>6, <2>1, SameSends DEF Eager
<1>7. CASE ~Permitted(u, c.pred, c) /\ r = CantSend(u)
  <2>1. SamePort(t, CantSend(u))
    BY <1>2, <1>5
  <2>2. ~Eager(t)
    BY <1>2, <1>4, <1>7, Gate DEF Eager, Smooth
  <2> QED
    BY <1>7, <2>1, <2>2, SameSends
<1>8. ASSUME Sends(u, r), r.out # {} PROVE Sends(t, r)
  BY <1>2, <1>8 DEF Sends, SamePort
<1>9. CASE HasWork(t) /\ r = Enqueue(sent)
  BY <1>1, <1>2, <1>4, <1>8, <1>9, PacketSent
<1>10. CASE HasWork(t) /\ ~(more /\ HasWork(sent)) /\ r = sent
  <2>1. /\ Smooth(sent) /\ sent \in Sender /\ sent.out # {}
        /\ ~(Room(sent) /\ HasWork(sent)) => Sends(u, sent)
    BY <1>1, <1>2, <1>4, <1>10, PacketSent
  <2> HIDE DEF sent
  <2>2. more <=> Room(sent)
    BY <2>1, Gate DEF Smooth, OneWindow
  <2> HIDE DEF more, r
  <2> QED
    BY <1>8, <1>10, <2>1, <2>2 DEF r
<1> HIDE DEF r, sent, more
<1> QED
  BY <1>3, <1>6, <1>7, <1>9, <1>10 DEF r

(* The port finishes a packet and gives the next turn.                     *)
LEMMA PortFreeSends ==
  ASSUME OneWindow, NEW t, NEW control, NEW c \in EventChoices,
         Books(t, {}), Smooth(t), t.out = {}
  PROVE  Sends(t, PortFree(t, control, c))
<1> DEFINE u == [t EXCEPT !.busy = FALSE]
           r == PortFree(t, control, c)
<1>1. t \in Sender
  BY DEF Books
<1>2. Books(u, {})
  BY PortBooks DEF Carries
<1>3. SamePort(t, u) /\ u.queued = t.queued /\ u.blocked = t.blocked
  BY <1>1 DEF Sender, SamePort
<1>4. \/ u.queued > 0 /\ r = TimeToSend(u, c)
      \/ u.ctrl # {} /\ r = SendControl(u)
      \/ ~(u.queued > 0) /\ r = u
  BY <1>3 DEF PortFree, SamePort, Smooth
<1> HIDE DEF u
<1>5. Smooth(u) /\ u.out = {} /\ (Eager(t) <=> Eager(u))
  BY <1>3 DEF Smooth, SamePort, Eager, HasWork, Room
<1>6. CASE u.queued > 0 /\ r = TimeToSend(u, c)
  <2>1. Sends(u, TimeToSend(u, c))
    BY <1>2, <1>5, TimeToSendSends
  <2> QED
    BY <1>3, <1>5, <1>6, <2>1 DEF Sends, SamePort
<1>7. CASE ~(u.queued > 0) /\ r = u
  BY <1>3, <1>5, <1>7, SameSends
<1> HIDE DEF r
<1> QED
  BY <1>4, <1>5, <1>6, <1>7 DEF r, Smooth

(* startFlow() up to the first packet.                                     *)
LEMMA StartFlowSends ==
  ASSUME OneWindow, NEW t, NEW c \in EventChoices, Books(t, {}), ~t.started,
         Smooth(t), t.out = {}
  PROVE  Sends(t, StartFlow(t, c))
<1> DEFINE b    == [t EXCEPT !.started = TRUE, !.backlog = Pkts]
           x    == NewPacket(b, c.pred, c)
           sent == StartSending(x)
           r    == StartFlow(t, c)
<1>1. t \in Sender /\ Pkts > 0 /\ {} \in SUBSET Seqs /\ GoodTag(c.pred) /\ t.next \in Nat
  BY SenderAssumption, ChoiceTypes DEF Books, Sender
<1>2. b \in Sender
  <2>1. Pkts \in 0 .. Pkts
    BY <1>1, SenderAssumption
  <2> QED
    BY <1>1, <2>1 DEF Sender
<1>3. /\ b.tx = t.tx /\ b.rtx = t.rtx /\ b.rts = t.rts /\ b.inFlight = t.inFlight
      /\ b.next = t.next /\ b.ctrl = t.ctrl /\ b.out = t.out /\ b.queued = t.queued
      /\ b.backlog = Pkts /\ b.started /\ b.blocked = t.blocked
      /\ b.recovery = t.recovery
      /\ b.tag = t.tag /\ b.before = t.before /\ b.timer = t.timer
      /\ b.safe = t.safe /\ b.random = t.random
  BY <1>1 DEF Sender
<1>4. \/ r = Enqueue(b)
      \/ r = Enqueue(sent)
      \/ ~(sent.backlog > 0) /\ r = sent
  BY DEF StartFlow
<1> HIDE DEF b
<1>5. Books(b, {}) /\ t.rtx = {}
  <2>1. t.backlog \in 0 .. Pkts /\ t.rts = {} /\ Cardinality({}) = 0
    BY <1>1, FS_EmptySet DEF Sender, Smooth
  <2>2. t.next = 0
    BY <1>1, <2>1 DEF Books, Numbered
  <2>3. Numbered(b) /\ t.rtx = {}
    BY <1>1, <1>3, <2>1, <2>2, SenderAssumption DEF Books, Numbered
  <2>4. Filed(b) /\ Timed(b, {}) /\ Exact(b) /\ Balanced(b)
    BY <1>3 DEF Books, Filed, Timed, Oldest, Exact, Charged, Bytes, Tagged, Balanced
  <2> QED
    BY <1>2, <2>3, <2>4 DEF Books
<1>6. Smooth(b) /\ b.out = {} /\ HasWork(b) /\ b.rtx = {} /\ (Room(b) <=> Room(t))
  BY <1>1, <1>3, <1>5 DEF Smooth, HasWork, Room
<1>7. CASE r = Enqueue(b)
  <2> DEFINE e == Enqueue(b)
  <2>1. SamePort(b, e) /\ e.queued > 0 /\ e.blocked
    BY <1>2, PortSent
  <2> HIDE DEF e
  <2>2. Eager(t) => Eager(e)
    BY <1>1, <1>3, <2>1 DEF Eager, Room, HasWork, SamePort
  <2>3. Sends(t, e)
    BY <1>3, <1>6, <2>1, <2>2 DEF Sends, SamePort, Smooth
  <2> QED
    BY <1>7, <2>3 DEF e
<1>8. /\ Sends(b, Enqueue(sent)) /\ Enqueue(sent).out # {}
      /\ ~(sent.backlog > 0) => Sends(b, sent) /\ sent.out # {}
  <2>1. SendPacket(b, c.pred, c) = x
    BY <1>6 DEF SendPacket
  <2>2. /\ Sends(b, Enqueue(sent)) /\ sent.rtx = {}
        /\ ~(Room(sent) /\ HasWork(sent)) => Sends(b, sent)
        /\ sent.out # {} /\ Enqueue(sent).out # {}
    BY <1>1, <1>5, <1>6, <2>1, PacketSent
  <2> QED
    BY <2>2 DEF HasWork
<1> HIDE DEF sent, r
<1>9. ASSUME Sends(b, r), r.out # {} PROVE Sends(t, r)
  BY <1>3, <1>9 DEF Sends
<1> QED
  BY <1>4, <1>7, <1>8, <1>9 DEF r

(* Someone will answer for the last packet: it asks for an ACK while it is *)
(* under way, the sink remembers being asked when it got there out of      *)
(* order, and once the sink has everything the ACK that says so is under   *)
(* way or was heard.                                                       *)
Asked(t, x, W, A) ==
  /\ \A p \in W : p.seq = t.next - 1 => p.ar \/ Has(x, p.seq)
  /\ t.next - 1 \in x.got => x.ackRequest
  /\ x.expected = t.next => t.tx = {} \/ W # {} \/ \E a \in A : a.cum = t.next

(* A flow in which nothing was lost: every packet is at the sink or under  *)
(* way, what a spurious retransmission would repeat has arrived and every  *)
(* ACK says so, and the source will send on or has asked for an ACK.       *)
Calm(t, x, W, A) ==
  /\ Smooth(t)
  /\ \A p \in W : p.kind = "data"
  /\ \A a \in A : a.kind = "ack"
  /\ 0 .. t.next - 1 \subseteq HeldBy(x) \cup {p.seq : p \in W}
  /\ t.rtx # {} => x.expected = t.next /\ \A a \in A : a.cum = t.next
  /\ Eager(t) \/ Asked(t, x, W, A)

(* What the sink has out of order lies between what it expects and what    *)
(* was sent.                                                               *)
LEMMA SpanTypes ==
  ASSUME NEW x \in Sink, NEW n \in Nat, Spans(x, n)
  PROVE  /\ x.expected \in Nat /\ x.expected <= n
         /\ \A q \in x.got : q \in Nat /\ x.expected < q /\ q < n
<1>1. x.expected \in Nat /\ x.got \subseteq x.expected + 1 .. n - 1 /\ x.expected <= n
  BY DEF Sink, Spans
<1> QED
  BY <1>1

(* Sending keeps the calm.                                                 *)
LEMMA SendsKeep ==
  ASSUME NEW t \in Sender, NEW u \in Sender, NEW x \in Sink, NEW W, NEW A,
         Spans(x, t.next), \A p \in W : p.seq \in 0 .. t.next - 1,
         t.rtx \subseteq 0 .. t.next - 1,
         Calm(t, x, W, A), Sends(t, u)
  PROVE  Calm(u, x, W \cup u.out, A)
<1>1. /\ t.next \in Nat /\ x.expected \in Nat /\ x.expected <= t.next
      /\ \A q \in x.got : q \in Nat /\ x.expected < q /\ q < t.next
  BY SpanTypes DEF Sender
<1>2. CASE /\ u.next = t.next /\ u.tx = t.tx /\ u.rtx = t.rtx /\ u.out = {}
           /\ Eager(t) => Eager(u)
  <2>1. W \cup u.out = W
    BY <1>2
  <2>2. Asked(t, x, W, A) => Asked(u, x, W, A)
    BY <1>2 DEF Asked
  <2> QED
    BY <1>2, <2>1, <2>2 DEF Calm, Sends
<1>3. ASSUME NEW p, u.out = {p}, p.kind = "data", p.seq = t.next,
             t.rtx = {}, u.rtx = {}, u.next = t.next + 1, p.ar \/ Eager(u)
      PROVE  Calm(u, x, W \cup u.out, A)
  <2>1. 0 .. u.next - 1 = (0 .. t.next - 1) \cup {t.next} /\ u.next - 1 = t.next
    BY <1>1, <1>3
  <2>2. 0 .. u.next - 1 \subseteq HeldBy(x) \cup {r.seq : r \in W \cup u.out}
    BY <1>3, <2>1 DEF Calm
  <2>3. p.ar => Asked(u, x, W \cup u.out, A)
    <3>1. \A r \in W : r.seq # t.next
      BY <1>1
    <3>2. t.next \notin x.got /\ x.expected # u.next
      BY <1>1, <1>3
    <3> QED
      BY <1>3, <2>1, <3>1, <3>2 DEF Asked
  <2> QED
    BY <1>3, <2>2, <2>3 DEF Calm, Sends
<1>4. ASSUME NEW p, u.out = {p}, p.kind = "data", p.seq \in t.rtx,
             u.rtx \subseteq t.rtx, u.next = t.next
      PROVE  Calm(u, x, W \cup u.out, A)
  <2>1. x.expected = t.next /\ \A a \in A : a.cum = t.next
    BY <1>4 DEF Calm
  <2>2. \A r \in W \cup u.out : r.seq \in 0 .. t.next - 1 /\ r.kind = "data"
    BY <1>4 DEF Calm
  <2>3. \A r \in W \cup u.out : Has(x, r.seq)
    BY <1>1, <2>1, <2>2 DEF Has
  <2>4. t.next - 1 \notin x.got
    BY <1>1, <2>1
  <2>5. Asked(u, x, W \cup u.out, A)
    BY <1>4, <2>3, <2>4 DEF Asked
  <2> QED
    BY <1>4, <2>1, <2>2, <2>5 DEF Calm, Sends
<1> QED
  BY <1>2, <1>3, <1>4 DEF Sends

(* Neither loss recovery nor the wait for the port has changed.            *)
SameMode(t, u) == u.recovery = t.recovery /\ u.blocked = t.blocked

(* The bookkeeping of records leaves the mode alone.                       *)
LEMMA ModeKept ==
  ASSUME NEW t, {"recovery", "blocked"} \subseteq DOMAIN t, NEW A
  PROVE  /\ SameMode(t, Erase(t, A)) /\ SameMode(t, Discharge(t, A))
         /\ SameMode(t, RecalculateRTO(t)) /\ SameMode(t, Rearm(t, A))
<1>1. SameMode(t, Erase(t, A))
  <2> DEFINE tx == t.tx \ A
             bf == {p \in t.before : p[1] \notin A /\ p[2] \notin A}
  <2>1. Erase(t, A) = [t EXCEPT !.tx = tx, !.before = bf]
    BY Zenon DEF Erase
  <2> HIDE DEF tx, bf
  <2> QED
    BY <2>1 DEF SameMode
<1>2. SameMode(t, Discharge(t, A))
  <2> DEFINE fl == t.inFlight - Bytes(t, Counted(t, A))
             sf == t.safe - Bytes(t, Tagged(t, A, "safe"))
             rd == t.random - Bytes(t, Tagged(t, A, "random"))
  <2>1. Discharge(t, A) = [t EXCEPT !.inFlight = fl, !.safe = sf, !.random = rd]
    BY Zenon DEF Discharge
  <2> HIDE DEF fl, sf, rd
  <2> QED
    BY <2>1 DEF SameMode
<1>3. SameMode(t, RecalculateRTO(t))
  <2> DEFINE o == Oldest(t)
  <2>1. RecalculateRTO(t) = [t EXCEPT !.timer = o]
    BY Zenon DEF RecalculateRTO
  <2> HIDE DEF o
  <2> QED
    BY <2>1 DEF SameMode
<1> QED
  BY <1>1, <1>2, <1>3 DEF Rearm, SameMode

(* So does the accounting of an ACK.                                       *)
LEMMA AccountMode ==
  ASSUME NEW t \in Sender, NEW a
  PROVE  SameMode(t, Account(t, a))
<1> DEFINE A  == t.tx \cap Covered(a)
           R  == t.rtx \cap Covered(a)
           sa == Bytes(t, Tagged(t, A, "safe"))
           ra == Bytes(t, Tagged(t, A, "random"))
           e  == Erase(t, A)
           rx == e.rtx \ R
           tg == [q \in Seqs |-> IF q \in A \cup R THEN "none" ELSE e.tag[q]]
           fl == IF Dual THEN e.inFlight - (sa + ra)
                         ELSE e.inFlight - Newly(t, a) + GiveBack(t, R)
           sf == e.safe - sa
           rd == e.random - ra
           rv == e.recvd + Newly(t, a)
           hr == Max({e.highRecv} \cup a.sack)
           lc == IF t.recovery THEN (e.lossCount - 1) % LossWrap ELSE e.lossCount
           u  == [e EXCEPT !.rtx = rx, !.tag = tg, !.inFlight = fl, !.safe = sf,
                           !.random = rd, !.recvd = rv, !.highRecv = hr, !.lossCount = lc]
<1>1. Account(t, a) = Rearm(u, A)
  BY Zenon DEF Account
<1>2. A \in SUBSET Seqs /\ {"recovery", "blocked"} \subseteq DOMAIN t
  BY DEF Sender
<1>3. SameMode(t, e)
  BY <1>2, ModeKept
<1>4. e \in Sender
  BY <1>2, EraseFields DEF Erased
<1> HIDE DEF e, rx, tg, fl, sf, rd, rv, hr, lc
<1>5. SameMode(e, u) /\ {"recovery", "blocked"} \subseteq DOMAIN u
  BY <1>4 DEF SameMode, Sender
<1> HIDE DEF u
<1>6. SameMode(u, Rearm(u, A))
  BY <1>5, ModeKept
<1> QED
  BY <1>1, <1>3, <1>5, <1>6 DEF SameMode

(* Hearing an ACK keeps the calm: what it covers is covered, and it is no  *)
(* longer needed under way.                                                *)
LEMMA AccountKeeps ==
  ASSUME ~Dual, NEW t, NEW x \in Sink, NEW W, NEW A, NEW a \in A, Books(t, {}), Report(a),
         Spans(x, t.next), Calm(t, x, W, A), \A p \in W : p.seq \in 0 .. t.next - 1
  PROVE  Calm(Account(t, a), x, W, A \ {a})
<1> DEFINE u == Account(t, a)
<1>1. Settles(t, u, a) /\ SameMode(t, u)
  BY AccountSettles, AccountMode DEF Books
<1>2. t \in Sender /\ u \in Sender /\ Numbered(t)
  BY AccountBooks DEF Carries, Books
<1> HIDE DEF u
<1>3. /\ t.next \in Nat /\ x.expected \in Nat /\ x.expected <= t.next
      /\ \A q \in x.got : q \in Nat /\ x.expected < q /\ q < t.next
  BY <1>2, SpanTypes DEF Sender
<1>4. u.next = t.next /\ Smooth(u)
  BY <1>1 DEF Settles, SameMode, Smooth, Calm
<1>5. a.cum = t.next => u.tx = {} /\ u.rtx = {}
  <2>1. t.tx \cup t.rtx \subseteq 0 .. t.next - 1 /\ t.tx \cup t.rtx \subseteq Seqs
    BY <1>2 DEF Numbered, Sender
  <2>2. a.cum = t.next => t.tx \cup t.rtx \subseteq Covered(a)
    BY <1>3, <2>1 DEF Covered
  <2> QED
    BY <1>1, <2>2 DEF Settles
<1>6. CASE a.cum = t.next /\ x.expected = t.next
  <2>1. \A p \in W : Has(x, p.seq)
    BY <1>3, <1>6 DEF Has
  <2>2. t.next - 1 \notin x.got
    BY <1>3, <1>6
  <2>3. Asked(u, x, W, A \ {a})
    BY <1>4, <1>5, <1>6, <2>1, <2>2 DEF Asked
  <2> QED
    BY <1>4, <1>5, <1>6, <2>3 DEF Calm, u
<1>7. CASE t.rtx = {}
  <2>1. u.rtx = {} /\ u.tx \subseteq t.tx
    BY <1>1, <1>7 DEF Settles
  <2>2. u.inFlight <= t.inFlight /\ t.inFlight \in Int /\ u.inFlight \in Int
    <3> DEFINE m == Mtu * (t.next - Cardinality(t.rts))
    <3>1. Bytes(t, t.rtx) = 0 /\ Bytes(u, u.rtx) = 0
      <4>1. 0 \in Seqs
        BY SenderAssumption DEF Seqs
      <4> QED
        BY <1>2, <1>7, <2>1, <4>1, BytesOne
    <3>2. Drift(t) = t.inFlight + t.recvd + 0 - m /\ Drift(u) = u.inFlight + u.recvd + 0 - m
      BY <1>1, <3>1 DEF Drift, Settles
    <3>3. Drift(u) = Drift(t) /\ u.recvd >= t.recvd
      BY <1>1, <1>2 DEF Settles, Report, Sender
    <3>4. m \in Int /\ t.inFlight \in Int /\ u.inFlight \in Int /\ t.recvd \in Nat /\ u.recvd \in Nat
      BY <1>2, SeqsFinite, SenderAssumption DEF Sender
    <3> HIDE DEF m
    <3> QED
      BY <3>2, <3>3, <3>4
  <2>3. Eager(t) => Eager(u)
    <3>1. Room(t) => Room(u)
      BY <2>2, SenderAssumption DEF Room
    <3> QED
      BY <1>1, <1>7, <3>1 DEF Eager, HasWork, Settles, SameMode
  <2>4. Asked(t, x, W, A) => Asked(u, x, W, A \ {a})
    BY <1>4, <1>5, <2>1 DEF Asked
  <2> QED
    BY <1>4, <2>1, <2>3, <2>4 DEF Calm, u
<1> QED
  BY <1>6, <1>7 DEF Calm, u

(* processData(): a packet the sink has is answered at once; a new one     *)
(* that was asked for, or follows one that was, is answered when it closes *)
(* the last gap and remembered otherwise.                                  *)
LEMMA DataAnswered ==
  ASSUME NEW x \in Sink, NEW n \in Nat, NEW pkt \in Packet, NEW size \in Nat,
         NEW ecn \in BOOLEAN, Spans(x, n), pkt.seq < n
  PROVE  LET r == ProcessData(x, pkt, size, ecn)
         IN /\ \A a \in r.replies : a.kind = "ack"
            /\ Has(r.sink, pkt.seq)
            /\ Has(x, pkt.seq) =>
                 /\ r.sink.expected = x.expected /\ r.sink.got = x.got
                 /\ r.sink.ackRequest = x.ackRequest /\ r.replies # {}
            /\ ~Has(x, pkt.seq) /\ (x.ackRequest \/ pkt.ar) =>
                 /\ r.sink.got # {} => r.sink.ackRequest
                 /\ pkt.seq = x.expected /\ r.sink.got = {} => r.replies # {}
<1> DEFINE q  == pkt.seq
           ac == x.accepted + size
           rv == x.recvd + size
           pl == x.payload \/ size > Hdr
           ar == x.ackRequest \/ pkt.ar
           y  == [x EXCEPT !.accepted = ac, !.recvd = rv, !.payload = pl, !.ackRequest = ar]
           heard == Advance(y, q)
           drained == q = x.expected /\ heard.got = {} /\ heard.ackRequest
           after == IF drained THEN [heard EXCEPT !.ackRequest = FALSE] ELSE heard
           ref   == IF ecn \/ pkt.ar THEN q ELSE SackBase(after, q)
           dr    == IF ecn THEN q ELSE SackBase(x, q)
           last  == [after EXCEPT !.accepted = 0]
           xl    == [x EXCEPT !.accepted = 0]
           r     == ProcessData(x, pkt, size, ecn)
<1>1. q \in Seqs /\ ac \in Nat /\ rv \in Nat /\ pl \in BOOLEAN /\ ar \in BOOLEAN
  BY DEF Packet, Sink
<1>2. \/ Has(x, q) /\ r = Result(xl, {Sack(x, dr)})
      \/ ~Has(x, q) /\ r = Result(last, {Sack(after, ref)})
      \/ ~Has(x, q) /\ ~drained /\ r = Result(after, {})
  BY Zenon DEF ProcessData, Duplicate
<1>3. \A z, g : Sack(z, g).kind = "ack"
  BY DEF Sack
<1>4. \A z, R : Result(z, R).sink = z /\ Result(z, R).replies = R
  BY DEF Result
<1> SUFFICES /\ \A a \in r.replies : a.kind = "ack"
             /\ Has(r.sink, q)
             /\ Has(x, q) =>
                  /\ r.sink.expected = x.expected /\ r.sink.got = x.got
                  /\ r.sink.ackRequest = x.ackRequest /\ r.replies # {}
             /\ ~Has(x, q) /\ ar =>
                  /\ r.sink.got # {} => r.sink.ackRequest
                  /\ q = x.expected /\ r.sink.got = {} => r.replies # {}
  OBVIOUS
<1> HIDE DEF ac, pl, rv, dr, r
<1>5. CASE Has(x, q) /\ r = Result(xl, {Sack(x, dr)})
  <2>1. xl.expected = x.expected /\ xl.got = x.got /\ xl.ackRequest = x.ackRequest
    BY DEF Sink
  <2> HIDE DEF xl
  <2> QED
    BY <1>3, <1>4, <1>5, <2>1 DEF Has
<1>6. CASE /\ ~Has(x, q)
           /\ r = Result(last, {Sack(after, ref)}) \/ (~drained /\ r = Result(after, {}))
  <2> HIDE DEF ar
  <2>1. /\ y \in Sink /\ y.ackRequest = ar /\ Spans(y, n)
        /\ (Has(y, q) <=> Has(x, q))
    BY <1>1 DEF Sink, Spans, Has
  <2> HIDE DEF y
  <2>2. heard \in Sink /\ heard.ackRequest = ar /\ Has(heard, q)
    <3>1. heard \in Sink
      BY <1>1, <2>1, AdvanceType
    <3> DEFINE e == CHOOSE e \in y.expected + 1 .. y.expected + 1 + Cardinality(y.got) :
                      e \notin y.got /\ (y.expected + 1 .. e - 1) \subseteq y.got
               g == y.got \cup {q}
               h == {p \in y.got : p > e}
    <3>2. heard = [y EXCEPT !.got = g] \/ heard = [y EXCEPT !.expected = e, !.got = h]
      BY Zenon DEF Advance
    <3> HIDE DEF e, g, h, heard
    <3>3. heard.ackRequest = y.ackRequest
      BY <2>1, <3>2 DEF Sink
    <3>4. Has(Advance(y, q), q)
      BY <1>1, <1>6, <2>1, AdvanceTakes DEF HeldBy
    <3> QED
      BY <2>1, <3>1, <3>3, <3>4 DEF heard
  <2> HIDE DEF heard
  <2>3. /\ after \in Sink /\ after.got = heard.got /\ (drained \/ after.ackRequest = ar)
        /\ Has(after, q)
    BY <2>2 DEF Sink, Has
  <2>4. drained <=> (q = x.expected /\ after.got = {} /\ ar)
    BY <2>2, <2>3
  <2> HIDE DEF after, ref, drained
  <2>5. last.got = after.got /\ last.ackRequest = after.ackRequest /\ Has(last, q)
    BY <2>3 DEF Sink, Has
  <2> HIDE DEF last
  <2>6. CASE r = Result(last, {Sack(after, ref)})
    BY <1>3, <1>4, <1>6, <2>3, <2>4, <2>5, <2>6
  <2>7. CASE ~drained /\ r = Result(after, {})
    BY <1>1, <1>4, <1>6, <2>3, <2>4, <2>7
  <2> QED
    BY <1>6, <2>6, <2>7
<1> QED
  BY <1>2, <1>5, <1>6

(* A packet that reaches the sink keeps the calm, whether it is new, late  *)
(* or a duplicate on the wire.                                             *)
LEMMA ReceiveKeeps ==
  ASSUME NEW t \in Sender, NEW x \in Sink, NEW W \in SUBSET Packet, NEW A, NEW pkt \in W,
         NEW size \in Nat, NEW ecn \in BOOLEAN, NEW V \in SUBSET W, W \subseteq V \cup {pkt},
         Spans(x, t.next), Calm(t, x, W, A), \A p \in W : p.seq \in 0 .. t.next - 1
  PROVE  LET r == ProcessData(x, pkt, size, ecn)
         IN Calm(t, r.sink, V, A \cup r.replies)
<1> DEFINE r == ProcessData(x, pkt, size, ecn)
           y == r.sink
           q == pkt.seq
           n == t.next
<1>1. n \in Nat /\ q \in Nat /\ q < n /\ q \in Seqs
  BY DEF Sender, Packet, Seqs
<1>2. Takes(x, r, q, size, n)
  BY <1>1, ProcessDataTakes
<1>3. /\ \A a \in r.replies : a.kind = "ack"
      /\ Has(y, q)
      /\ Has(x, q) => /\ y.expected = x.expected /\ y.got = x.got
                      /\ y.ackRequest = x.ackRequest /\ r.replies # {}
      /\ ~Has(x, q) /\ (x.ackRequest \/ pkt.ar) =>
           /\ y.got # {} => y.ackRequest
           /\ q = x.expected /\ y.got = {} => r.replies # {}
  BY <1>1, DataAnswered
<1>4. y \in Sink
  BY <1>1, ProcessDataType DEF Replies
<1> HIDE DEF r
<1>5. /\ \A a \in r.replies : a.cum = y.expected
      /\ Spans(y, n) /\ x.expected <= y.expected
      /\ HeldBy(y) = HeldBy(x) \/ (q \notin HeldBy(x) /\ HeldBy(y) = HeldBy(x) \cup {q})
  BY <1>2, <1>3 DEF Takes
<1>6. /\ x.expected \in Nat /\ x.expected <= n
      /\ \A i \in x.got : i \in Nat /\ x.expected < i /\ i < n
  BY <1>1, SpanTypes
<1>7. /\ y.expected \in Nat /\ y.expected <= n
      /\ \A i \in y.got : i \in Nat /\ y.expected < i /\ i < n
  BY <1>1, <1>4, <1>5, SpanTypes
<1> HIDE DEF y
<1>8. \A i \in Seqs : Has(x, i) => Has(y, i)
  BY <1>5 DEF HeldBy
<1>9. \A p \in V : p.kind = "data"
  BY DEF Calm
<1>10. \A a \in A \cup r.replies : a.kind = "ack"
  BY <1>3 DEF Calm
<1>11. 0 .. n - 1 \subseteq HeldBy(y) \cup {p.seq : p \in V}
  <2>1. q \in HeldBy(y)
    BY <1>1, <1>3 DEF HeldBy
  <2>2. HeldBy(x) \subseteq HeldBy(y)
    BY <1>5
  <2> QED
    BY <2>1, <2>2 DEF Calm
<1>12. t.rtx # {} => y.expected = n /\ \A a \in A \cup r.replies : a.cum = n
  BY <1>5, <1>6, <1>7 DEF Calm
<1>13. Asked(t, x, W, A) => Asked(t, y, V, A \cup r.replies)
  <2> SUFFICES ASSUME Asked(t, x, W, A) PROVE Asked(t, y, V, A \cup r.replies)
    OBVIOUS
  <2>1. \A p \in V : p.seq = n - 1 => p.ar \/ Has(y, p.seq)
    <3> SUFFICES ASSUME NEW p \in V, p.seq = n - 1, ~p.ar PROVE Has(y, p.seq)
      OBVIOUS
    <3>1. Has(x, p.seq) /\ p.seq \in Seqs
      BY DEF Asked, Packet
    <3> QED
      BY <1>8, <3>1
  <2>2. n - 1 \in y.got => y.ackRequest
    <3> SUFFICES ASSUME n - 1 \in y.got PROVE y.ackRequest
      OBVIOUS
    <3>1. CASE Has(x, q)
      BY <1>3, <3>1 DEF Asked
    <3>2. CASE ~Has(x, q)
      <4>1. n - 1 \in Seqs /\ n - 1 \in HeldBy(y) /\ ~(n - 1 < x.expected)
        BY <1>1, <1>4, <1>5, <1>6, <1>7 DEF HeldBy, Has, Sink
      <4>2. n - 1 \in x.got \/ n - 1 = q
        BY <1>5, <4>1 DEF HeldBy, Has
      <4>3. x.ackRequest \/ pkt.ar
        BY <3>2, <4>2 DEF Asked
      <4> QED
        BY <1>3, <3>2, <4>3
    <3> QED
      BY <3>1, <3>2
  <2>3. y.expected = n => \E a \in r.replies : a.cum = n
    <3> SUFFICES ASSUME y.expected = n PROVE r.replies # {}
      BY <1>5
    <3>1. CASE Has(x, q)
      BY <1>3, <3>1
    <3>2. CASE ~Has(x, q)
      <4>1. x.expected # n /\ y.got = {}
        BY <1>1, <1>6, <1>7, <3>2 DEF Has
      <4>2. q = x.expected
        <5>1. x.expected \in Seqs
          <6>1. x.expected \in 0 .. n - 1
            BY <1>1, <1>6, <4>1
          <6>2. CASE x.expected \in HeldBy(x)
            BY <6>2 DEF HeldBy
          <6>3. CASE \E p \in W : x.expected = p.seq
            BY <6>3 DEF Packet
          <6> QED
            BY <6>1, <6>2, <6>3 DEF Calm
        <5>2. Has(y, x.expected)
          BY <1>1, <1>6, <4>1 DEF Has
        <5>3. ~Has(x, x.expected)
          BY <1>6 DEF Has
        <5> QED
          BY <1>5, <5>1, <5>2, <5>3 DEF HeldBy
      <4>3. x.ackRequest \/ pkt.ar
        <5>1. CASE q = n - 1
          BY <3>2, <5>1 DEF Asked
        <5>2. CASE q # n - 1
          <6>1. n - 1 \in Seqs
            <7>1. n - 1 \in 0 .. n - 1
              BY <1>1
            <7>2. CASE n - 1 \in HeldBy(x)
              BY <7>2 DEF HeldBy
            <7>3. CASE \E p \in W : n - 1 = p.seq
              BY <7>3 DEF Packet
            <7> QED
              BY <7>1, <7>2, <7>3 DEF Calm
          <6>2. Has(y, n - 1)
            BY <1>1 DEF Has
          <6>3. Has(x, n - 1) /\ ~(n - 1 < x.expected)
            BY <1>1, <1>5, <1>6, <4>2, <5>2, <6>1, <6>2 DEF HeldBy
          <6> QED
            BY <6>3 DEF Asked, Has
        <5> QED
          BY <5>1, <5>2
      <4> QED
        BY <1>3, <3>2, <4>1, <4>2, <4>3
    <3> QED
      BY <3>1, <3>2
  <2> QED
    BY <2>1, <2>2, <2>3 DEF Asked
<1> QED
  BY <1>9, <1>10, <1>11, <1>12, <1>13 DEF Calm, r, y

(* A timer that expires while the source is still in the port's queue only *)
(* moves a packet to the rtx queue.                                        *)
LEMMA TimeoutWaits ==
  ASSUME OneWindow, NEW t, NEW q \in t.tx, NEW mayRts, NEW c \in EventChoices,
         Books(t, {}), PortOK(t), Smooth(t), Eager(t), t.out = {}
  PROVE  LET r == Timeout(t, q, mayRts, c)
         IN Smooth(r) /\ Eager(r) /\ r.next = t.next /\ r.out = {}
<1> DEFINE e == Erase(t, {q})
           x == RecalculateRTO(e)
           u == Discharge(x, {q})
           y == [u EXCEPT !.rtx = u.rtx \cup {q}]
           v == QueueForRtx(u, {q}, c)
           w == [v EXCEPT !.queued = v.queued + 1]
           r == Timeout(t, q, mayRts, c)
<1>1. t \in Sender /\ {q} \in SUBSET Seqs /\ q \in Seqs /\ t.busy
      /\ {"recovery", "blocked"} \subseteq DOMAIN t
  BY DEF Books, Sender, PortOK, Eager
<1>2. Lost(t, u, {q}) /\ SameMode(t, u)
  <2>1. Gone(t, e, {q}) /\ Erased(t, e, {q}) /\ SameMode(t, e)
    BY <1>1, EraseGone, EraseFields, ModeKept
  <2> HIDE DEF e
  <2>2. Filed(e) /\ e \in Sender
    BY <2>1 DEF Filed, Erased, Books
  <2>3. x \in Sender /\ SameData(e, x) /\ Aside(e, x) /\ SameMode(e, x)
    <3>1. {"recovery", "blocked"} \subseteq DOMAIN e
      BY <2>2 DEF Sender
    <3> QED
      BY <2>2, <3>1, RearmSame, ModeKept
  <2> HIDE DEF x
  <2>4. Gone(t, x, {q})
    BY <2>1, <2>3 DEF Gone, SameData, Aside
  <2>5. SameMode(x, u)
    <3>1. {"recovery", "blocked"} \subseteq DOMAIN x
      BY <2>3 DEF Sender
    <3> QED
      BY <3>1, ModeKept
  <2> QED
    BY <1>1, <2>1, <2>3, <2>4, <2>5, DischargeLost DEF SameMode
<1>3. r = IF u.rtx # {} THEN v
          ELSE IF Cwnd(c) < Size(t, q) + v.inFlight
               THEN IF mayRts THEN Rts(v) ELSE v
          ELSE IF v.busy THEN w
          ELSE StartSending(RtxPacket(v))
  BY Zenon DEF Timeout
<1> HIDE DEF r, u
<1>4. /\ u \in Sender /\ u.rts = {} /\ u.ctrl = {} /\ ~u.recovery /\ u.blocked
      /\ u.queued \in Nat /\ u.queued > 0 /\ u.busy /\ u.out = {} /\ u.next = t.next
      /\ u.inFlight = t.inFlight - Mtu /\ t.inFlight \in Int /\ Mtu \in Nat
  <2>1. Bytes(t, {q}) = Mtu /\ Size(t, q) = Mtu
    BY <1>1, BytesOne DEF Size, Smooth
  <2>2. t.queued \in Nat /\ t.inFlight \in Int
    BY <1>1 DEF Sender
  <2> QED
    BY <1>1, <1>2, <2>1, <2>2, SenderAssumption
    DEF Lost, Aside, SameMode, Smooth, Eager, OneWindow
<1>5. /\ y \in Sender /\ q \in y.rtx /\ y.rts = {} /\ y.ctrl = {} /\ ~y.recovery /\ y.blocked
      /\ y.queued = u.queued /\ y.busy /\ y.out = {} /\ y.next = t.next
      /\ y.inFlight = u.inFlight
  <2> DEFINE rx == u.rtx \cup {q}
  <2>1. rx \in SUBSET Seqs /\ q \in rx
    BY <1>1, <1>4 DEF Sender
  <2> HIDE DEF rx
  <2>2. LET z == [u EXCEPT !.rtx = rx]
        IN /\ z \in Sender /\ z.rtx = rx /\ z.rts = {} /\ z.ctrl = {} /\ ~z.recovery
           /\ z.blocked /\ z.queued = u.queued /\ z.busy /\ z.out = {} /\ z.next = t.next
           /\ z.inFlight = u.inFlight
    BY <1>4, <2>1 DEF Sender
  <2> QED
    BY <2>1, <2>2 DEF rx
<1>6. v = y
  <2>1. v = SendIfPermitted(y, c)
    BY Zenon DEF QueueForRtx
  <2> HIDE DEF y, v
  <2> QED
    BY <1>5, <2>1 DEF SendIfPermitted
<1> HIDE DEF y, v
<1>7. ~(Cwnd(c) < Size(t, q) + v.inFlight)
  <2>1. c.safe \in Cwnds /\ c.safe \in Nat /\ c.random = 0
    BY <1>1, Gate
  <2>2. t.inFlight < c.safe
    BY <2>1 DEF Eager, Room
  <2>3. Size(t, q) = Mtu
    BY DEF Size, Smooth
  <2> QED
    BY <1>4, <1>5, <1>6, <2>1, <2>2, <2>3 DEF Cwnd
<1>8. \A i \in Cwnds : v.inFlight < i
  BY <1>4, <1>5, <1>6, SenderAssumption DEF Eager, Room
<1>9. /\ v.rtx # {} /\ v.rts = {} /\ v.ctrl = {} /\ ~v.recovery /\ v.blocked
      /\ v.queued > 0 /\ v.out = {} /\ v.next = t.next
  BY <1>4, <1>5, <1>6
<1>10. /\ w.rtx # {} /\ w.rts = {} /\ w.ctrl = {} /\ ~w.recovery /\ w.blocked
       /\ w.queued > 0 /\ w.out = {} /\ w.next = t.next /\ w.inFlight = v.inFlight
  <2> DEFINE n == v.queued + 1
  <2>1. n > 0
    BY <1>4, <1>5, <1>6
  <2> HIDE DEF n
  <2>2. LET z == [v EXCEPT !.queued = n]
        IN /\ z.rtx # {} /\ z.rts = {} /\ z.ctrl = {} /\ ~z.recovery /\ z.blocked
           /\ z.queued = n /\ z.out = {} /\ z.next = t.next /\ z.inFlight = v.inFlight
    BY <1>5, <1>6, <1>9 DEF Sender
  <2> QED
    BY <2>1, <2>2 DEF n
<1> HIDE DEF w
<1>11. r = v \/ r = w
  BY <1>3, <1>5, <1>6, <1>7
<1> QED
  BY <1>8, <1>9, <1>10, <1>11 DEF r, Smooth, Eager, HasWork, Room

(* The invariant: until a packet is lost or a timer is early, the flow is  *)
(* calm.                                                                   *)
CalmInv == losses = 0 /\ early = 0 => trimmed = {} /\ Calm(s, k, BagToSet(wire), acks)

(* A flow that has not started is calm.                                    *)
LEMMA CalmInit == Init => CalmInv
<1> SUFFICES ASSUME Init PROVE Calm(s, k, BagToSet(wire), acks) /\ trimmed = {}
  BY DEF CalmInv
<1>1. /\ s.tx = {} /\ s.rtx = {} /\ s.rts = {} /\ s.next = 0 /\ s.ctrl = {} /\ ~s.recovery
      /\ k.expected = 0 /\ k.got = {} /\ acks = {} /\ trimmed = {} /\ BagToSet(wire) = {}
  BY DEF Init, FreshSender, FreshSink, EmptyBag, SetToBag, BagToSet
<1> QED
  BY <1>1 DEF Calm, Smooth, Asked

(* What the sender emits joins the wire.                                   *)
LEMMA WireGains ==
  ASSUME FlowInv, NEW O
  PROVE  BagToSet(wire (+) SetToBag(O)) = BagToSet(wire) \cup O
BY DEF (+), BagToSet, SetToBag

(* An event of the sender alone leaves the sink as it is.                  *)
LEMMA EventCalm ==
  ASSUME FlowInv, NEW T, Becomes(T), k' = k, trimmed' = {},
         \A t \in T : t \in Sender /\ Calm(t, k, BagToSet(wire) \cup t.out, acks')
  PROVE  CalmInv'
<1>1. PICK t \in T : s' = [t EXCEPT !.out = {}] /\ wire' = wire (+) SetToBag(t.out)
  BY DEF Becomes
<1> DEFINE u == [t EXCEPT !.out = {}]
<1>2. t \in Sender /\ Calm(t, k, BagToSet(wire'), acks')
  BY <1>1, WireGains
<1>3. /\ u.tx = t.tx /\ u.rtx = t.rtx /\ u.rts = t.rts /\ u.ctrl = t.ctrl /\ u.next = t.next
      /\ u.recovery = t.recovery /\ u.queued = t.queued /\ u.blocked = t.blocked
      /\ u.inFlight = t.inFlight /\ u.backlog = t.backlog
  BY <1>2 DEF Sender
<1> HIDE DEF u
<1>4. Smooth(u) <=> Smooth(t)
  BY <1>3 DEF Smooth
<1>5. Eager(u) <=> Eager(t)
  BY <1>3 DEF Eager, HasWork, Room
<1>6. Asked(u, k, BagToSet(wire'), acks') <=> Asked(t, k, BagToSet(wire'), acks')
  BY <1>3 DEF Asked
<1>7. Calm(u, k, BagToSet(wire'), acks')
  BY <1>2, <1>3, <1>4, <1>5, <1>6 DEF Calm
<1>8. Calm(s', k', BagToSet(wire'), acks')
  BY <1>1, <1>7 DEF u
<1> QED
  BY <1>8 DEF CalmInv

(* Only a packet taken off the wire is missing from it.                    *)
LEMMA WireLoses ==
  ASSUME FlowInv, NEW p
  PROVE  BagToSet(wire) \subseteq BagToSet(wire (-) SetToBag({p})) \cup {p}
<1> DEFINE B == SetToBag({p})
<1>1. wire \in [BagToSet(wire) -> Nat \ {0}] /\ BagToSet(wire) = DOMAIN wire
  BY DEF FlowInv, Messages, BagToSet
<1>2. DOMAIN B = {p}
  BY DEF SetToBag
<1> HIDE DEF B
<1>3. ASSUME NEW e \in DOMAIN wire, e # p PROVE e \in DOMAIN (wire (-) B)
  <2>1. wire[e] \in Nat \ {0} /\ e \notin DOMAIN B
    BY <1>1, <1>2, <1>3
  <2> QED
    BY <2>1 DEF (-)
<1> QED
  BY <1>1, <1>3 DEF BagToSet, B

(* Every event keeps the calm.  A loss or an early timer ends the claim; a *)
(* timer that is not early finds the network empty, so that only an eager  *)
(* source can have anything outstanding.                                   *)
LEMMA CalmNext ==
  ASSUME OneWindow, ~FastRecovery, FlowInv, TransferInv, CalmInv, [Next]_vars
  PROVE  CalmInv'
<1> SUFFICES ASSUME losses' = 0, early' = 0 PROVE CalmInv'
  BY DEF CalmInv
<1> DEFINE W == BagToSet(wire)
<1>1. losses \in Nat /\ early \in Nat /\ Books(s, {}) /\ s \in Sender /\ s.out = {}
      /\ k \in Sink /\ W \in SUBSET Packet /\ s.next \in Nat
  BY FlowAssumption DEF FlowInv, Messages, Books, Sender
<1>2. PortOK(s) /\ Spans(k, s.next) /\ s.rtx \subseteq 0 .. s.next - 1
      /\ \A p \in W : p.seq \in 0 .. s.next - 1
  BY <1>1 DEF TransferInv, Ready, OnTheWay, Sent, Books, Numbered
<1>3. ASSUME losses = 0, early = 0 PROVE trimmed = {} /\ Calm(s, k, W, acks) /\ Smooth(s)
  BY <1>3 DEF CalmInv, Calm
<1>4. CASE UNCHANGED vars
  BY <1>4 DEF vars, CalmInv
<1>5. ASSUME losses = 0, early = 0, NEW T, Becomes(T), k' = k, trimmed' = trimmed,
             acks' = acks, \A t \in T : Books(t, {}) /\ Sends(s, t)
      PROVE  CalmInv'
  <2>1. \A t \in T : t \in Sender /\ Calm(t, k, W \cup t.out, acks')
    BY <1>1, <1>2, <1>3, <1>5, SendsKeep DEF Books
  <2> QED
    BY <1>3, <1>5, <2>1, EventCalm
<1>6. CASE Start
  <2> DEFINE T == {StartFlow(s, c) : c \in EventChoices}
  <2>1. /\ losses = 0 /\ early = 0 /\ Becomes(T) /\ k' = k /\ trimmed' = trimmed
        /\ acks' = acks /\ ~s.started
    BY <1>6 DEF Start
  <2>2. \A t \in T : Books(t, {}) /\ Sends(s, t)
    BY <1>1, <1>3, <2>1, StartFlowBooks, StartFlowSends
  <2> HIDE DEF T
  <2> QED
    BY <1>5, <2>1, <2>2
<1>7. CASE NicDone
  <2> DEFINE T == {PortFree(s, control, c) : control \in BOOLEAN, c \in EventChoices}
  <2>1. /\ losses = 0 /\ early = 0 /\ Becomes(T) /\ k' = k /\ trimmed' = trimmed
        /\ acks' = acks
    BY <1>7 DEF NicDone
  <2>2. \A t \in T : Books(t, {}) /\ Sends(s, t)
    BY <1>1, <1>3, <2>1, PortFreeBooks, PortFreeSends
  <2> HIDE DEF T
  <2> QED
    BY <1>5, <2>1, <2>2
<1>8. CASE NicOther
  <2> DEFINE u == [s EXCEPT !.busy = TRUE]
             T == {u}
  <2>1. /\ losses = 0 /\ early = 0 /\ Becomes(T) /\ k' = k /\ trimmed' = trimmed
        /\ acks' = acks
    BY <1>8 DEF NicOther
  <2>2. Books(u, {})
    BY <1>1, PortBooks DEF Carries
  <2>3. SamePort(s, u) /\ u.queued = s.queued /\ u.blocked = s.blocked
    BY <1>1 DEF Sender, SamePort
  <2> HIDE DEF u
  <2>4. Eager(s) => Eager(u)
    BY <2>3 DEF Eager, HasWork, Room, SamePort
  <2>5. Sends(s, u)
    BY <1>1, <1>3, <2>1, <2>3, <2>4, SameSends
  <2>6. \A t \in T : Books(t, {}) /\ Sends(s, t)
    BY <2>2, <2>5
  <2> HIDE DEF T
  <2> QED
    BY <1>5, <2>1, <2>6
<1>9. CASE Expire
  <2> DEFINE T == {Timeout(s, Oldest(s), mayRts /\ Cardinality(s.rts) < MaxRts, c) :
                     mayRts \in {r \in BOOLEAN : s.rts = {} => r}, c \in EventChoices}
  <2>1. s.timer # NoTimer /\ k' = k /\ trimmed' = trimmed /\ acks' = acks /\ losses = 0
        /\ Becomes(T)
    BY <1>9 DEF Expire
  <2>2. Quiet /\ early = 0
    BY <1>1, <1>9 DEF Expire
  <2>3. W = {} /\ acks = {} /\ trimmed = {}
    BY <2>2 DEF Quiet, EmptyBag, SetToBag, BagToSet
  <2>4. Oldest(s) \in s.tx
    <3>1. s.tx # {}
      BY <1>1, <2>1 DEF Books, Timed, Oldest
    <3> QED
      BY <1>1, <3>1, OldestIn DEF Books
  <2>5. Calm(s, k, W, acks) /\ Smooth(s)
    BY <1>3, <2>1, <2>2
  <2>6. k.expected = s.next /\ Has(k, k.expected) = FALSE
    <3>1. k.expected \in Nat /\ k.expected <= s.next /\ k.expected \notin k.got
      BY <1>1, <1>2, SpanTypes
    <3>2. 0 .. s.next - 1 \subseteq HeldBy(k)
      BY <2>3, <2>5 DEF Calm
    <3>3. ~Has(k, k.expected)
      BY <3>1 DEF Has
    <3>4. k.expected \notin 0 .. s.next - 1
      BY <3>2, <3>3 DEF HeldBy
    <3> QED
      BY <1>1, <3>1, <3>3, <3>4
  <2>7. Eager(s)
    BY <2>3, <2>4, <2>5, <2>6 DEF Calm, Asked
  <2>8. ASSUME NEW t \in T
        PROVE  t \in Sender /\ Smooth(t) /\ Eager(t) /\ t.next = s.next /\ t.out = {}
    <3>1. PICK mayRts \in {r \in BOOLEAN : s.rts = {} => r}, c \in EventChoices :
            t = Timeout(s, Oldest(s), mayRts /\ Cardinality(s.rts) < MaxRts, c)
      BY <2>8
    <3> DEFINE ok == mayRts /\ Cardinality(s.rts) < MaxRts
    <3>2. t = Timeout(s, Oldest(s), ok, c) /\ (ok => Cardinality(s.rts) < MaxRts)
      BY <3>1
    <3> HIDE DEF ok, T
    <3>3. Books(t, {})
      BY <1>1, <2>4, <3>2, TimeoutBooks
    <3>4. Smooth(t) /\ Eager(t) /\ t.next = s.next /\ t.out = {}
      BY <1>1, <1>2, <2>4, <2>5, <2>7, <3>2, TimeoutWaits
    <3> QED
      BY <3>3, <3>4 DEF Books
  <2> HIDE DEF T
  <2>9. \A t \in T : t \in Sender /\ Calm(t, k, W \cup t.out, acks')
    <3> TAKE t \in T
    <3>1. t \in Sender /\ Smooth(t) /\ Eager(t) /\ t.next = s.next /\ t.out = {}
      BY <2>8
    <3>2. W \cup t.out = {} /\ acks' = {}
      BY <2>1, <2>3, <3>1
    <3> QED
      BY <2>3, <2>5, <2>6, <3>1, <3>2 DEF Calm
  <2> QED
    BY <2>1, <2>3, <2>9, EventCalm
<1>10. ASSUME NEW a \in acks, ReceiveAck(a) PROVE CalmInv'
  <2> DEFINE T == {Ack(s, a, c) : c \in EventChoices}
             u == Account(s, a)
  <2>1. /\ losses = 0 /\ early = 0 /\ k' = k /\ trimmed' = trimmed /\ acks' = acks \ {a}
        /\ Becomes(T)
    BY <1>10 DEF ReceiveAck
  <2>2. Report(a)
    BY <1>10, CoveredHeld DEF ReceiveAck
  <2>3. Calm(u, k, W, acks') /\ Books(u, {}) /\ Settles(s, u, a)
    <3>1. Calm(u, k, W, acks \ {a})
      BY <1>1, <1>2, <1>3, <2>1, <2>2, AccountKeeps DEF OneWindow
    <3> QED
      BY <1>1, <2>1, <2>2, <3>1, AccountBooks, AccountSettles DEF Carries
  <2>4. \A c \in EventChoices :
          Ack(s, a, c) = IF Finished(u, a) THEN [u EXCEPT !.done = TRUE]
                         ELSE SendIfPermitted(u, c)
    BY Zenon DEF Ack
  <2> HIDE DEF u
  <2>5. u \in Sender /\ u.out = {} /\ Smooth(u) /\ Numbered(u) /\ u.next = s.next
    BY <1>1, <2>3 DEF Calm, Books, Settles
  <2>6. Spans(k, u.next) /\ u.rtx \subseteq 0 .. u.next - 1
        /\ \A p \in W : p.seq \in 0 .. u.next - 1
    BY <1>2, <2>5 DEF Numbered
  <2>7. ASSUME NEW c \in EventChoices
        PROVE  LET t == SendIfPermitted(u, c)
               IN t \in Sender /\ Calm(t, k, W \cup t.out, acks')
    <3> DEFINE t == SendIfPermitted(u, c)
    <3>1. Sends(u, t) /\ t \in Sender
      BY <2>3, <2>5, SendIfPermittedSends, SendIfPermittedBooks DEF Carries, Books
    <3> HIDE DEF t
    <3>2. Calm(t, k, W \cup t.out, acks')
      BY <1>1, <2>3, <2>5, <2>6, <3>1, SendsKeep
    <3> QED
      BY <3>1, <3>2 DEF t
  <2>8. LET t == [u EXCEPT !.done = TRUE]
        IN t \in Sender /\ Calm(t, k, W \cup t.out, acks')
    <3> DEFINE t == [u EXCEPT !.done = TRUE]
    <3>1. t \in Sender /\ SamePort(u, t) /\ t.queued = u.queued /\ t.blocked = u.blocked
      BY <2>5 DEF Sender, SamePort
    <3> HIDE DEF t
    <3>2. Eager(u) => Eager(t)
      BY <3>1 DEF Eager, HasWork, Room, SamePort
    <3>3. Sends(u, t)
      BY <2>5, <3>1, <3>2, SameSends
    <3>4. Calm(t, k, W \cup t.out, acks')
      BY <1>1, <2>3, <2>5, <2>6, <3>1, <3>3, SendsKeep
    <3> QED
      BY <3>1, <3>4 DEF t
  <2>9. \A t \in T : t \in Sender /\ Calm(t, k, W \cup t.out, acks')
    <3> TAKE t \in T
    <3>1. PICK c \in EventChoices : t = Ack(s, a, c)
      OBVIOUS
    <3> HIDE DEF T
    <3>2. t = [u EXCEPT !.done = TRUE] \/ t = SendIfPermitted(u, c)
      BY <2>4, <3>1
    <3> QED
      BY <2>7, <2>8, <3>2
  <2> HIDE DEF T
  <2> QED
    BY <1>3, <2>1, <2>9, EventCalm
<1>11. ASSUME NEW a \in acks, ReceiveNack(a) PROVE FALSE
  <2>1. losses = 0 /\ early = 0 /\ a.kind = "nack"
    BY <1>11 DEF ReceiveNack
  <2> QED
    BY <1>3, <2>1 DEF Calm
<1>12. ASSUME NEW p \in W, ReceiveData(p) PROVE CalmInv'
  <2> DEFINE d == Size(s, p.seq)
             V == BagToSet(wire (-) SetToBag({p}))
  <2>1. PICK ecn \in BOOLEAN : Arrives(ProcessData(k, p, d, ecn))
    BY <1>12 DEF ReceiveData
  <2>2. /\ losses = 0 /\ early = 0 /\ s' = s /\ trimmed' = trimmed
        /\ BagToSet(wire') = V
    BY <1>12 DEF ReceiveData
  <2>3. d \in Nat
    BY SenderAssumption DEF Size
  <2>4. V \in SUBSET W /\ W \subseteq V \cup {p}
    BY TakenFromWire, WireLoses
  <2> HIDE DEF d, V
  <2>5. Calm(s, ProcessData(k, p, d, ecn).sink, V, acks \cup ProcessData(k, p, d, ecn).replies)
    BY <1>1, <1>2, <1>3, <2>2, <2>3, <2>4, ReceiveKeeps
  <2>6. Calm(s', k', BagToSet(wire'), acks')
    BY <2>1, <2>2, <2>5 DEF Arrives
  <2> QED
    BY <1>3, <2>2, <2>6 DEF CalmInv
<1>13. ASSUME NEW p \in W, ReceiveRts(p) PROVE FALSE
  <2>1. losses = 0 /\ early = 0 /\ p.kind = "rts"
    BY <1>13 DEF ReceiveRts
  <2> QED
    BY <1>3, <2>1 DEF Calm
<1>14. ASSUME NEW q \in trimmed, ReceiveTrimmed(q) PROVE FALSE
  <2>1. losses = 0 /\ early = 0
    BY <1>14 DEF ReceiveTrimmed
  <2> QED
    BY <1>3, <1>14, <2>1
<1>15. CASE Network
  <2>1. losses' = losses + 1
    BY <1>15 DEF Network, Drop, Trim, DropAck, Lossy
  <2> QED
    BY <1>1, <2>1
<1> QED
  BY <1>4, <1>6, <1>7, <1>8, <1>9, <1>10, <1>11, <1>12, <1>13, <1>14, <1>15
  DEF Next, ToSink, ToSrc

(* With one window of constant size and without fast recovery, as long as  *)
(* nothing is lost and no timer is early, a flow with an empty network and *)
(* no turn at its port has nothing outstanding: processData()'s batching   *)
(* never leaves the tail of a window to the timer, for every size of flow, *)
(* window, threshold and SACK bitmap.                                      *)
THEOREM NoNeedlessTimeoutHolds ==
  ASSUME ~Dual, ~FastRecovery, \A v, w \in Cwnds : v = w
  PROVE  Spec => []NoNeedlessTimeout
<1>1. OneWindow
  BY DEF OneWindow
<1>2. FlowInv /\ TransferInv /\ CalmInv => NoNeedlessTimeout
  <2> SUFFICES ASSUME FlowInv, TransferInv, CalmInv,
                      losses = 0, early = 0, Quiet, s.queued = 0
               PROVE  s.tx = {}
    BY DEF NoNeedlessTimeout
  <2>1. BagToSet(wire) = {} /\ acks = {}
    BY DEF Quiet, EmptyBag, SetToBag, BagToSet
  <2>2. Calm(s, k, {}, {}) /\ ~Eager(s)
    BY <2>1 DEF CalmInv, Eager
  <2>3. s.next \in Nat /\ k \in Sink /\ Spans(k, s.next)
    BY DEF FlowInv, Books, Sender, TransferInv
  <2>4. k.expected \in Nat /\ k.expected <= s.next /\ k.expected \notin k.got
    BY <2>3, SpanTypes
  <2>5. k.expected = s.next
    <3>1. 0 .. s.next - 1 \subseteq HeldBy(k)
      BY <2>2 DEF Calm
    <3>2. k.expected \notin 0 .. s.next - 1
      BY <2>4, <3>1 DEF HeldBy, Has
    <3> QED
      BY <2>3, <2>4, <3>2
  <2> QED
    BY <2>2, <2>5 DEF Calm, Asked
<1>3. CalmInv /\ FlowInv /\ TransferInv /\ [Next]_vars => CalmInv'
  BY <1>1, CalmNext
<1> QED
  BY <1>2, <1>3, CalmInit, TransferInvariant, PTL DEF Spec

-----------------------------------------------------------------------------
(* A flow goes on, or a cause can be named.                                *)

(* A source that could send has told its port, or takes itself for told.   *)
Restless(t) ==
  t.tx = {} /\ HasWork(t) /\ (t.recovery => t.rtx # {}) => t.blocked \/ t.queued > 0

(* With one window, nothing outstanding leaves nothing in flight.          *)
Light(t) == ~Dual /\ t.tx = {} => t.inFlight <= 0

(* A window that counts nothing lets any packet pass.                      *)
LEMMA OpenGate ==
  ASSUME NEW t, NEW S, NEW c \in EventChoices, Books(t, S), Light(t), t.tx = {}
  PROVE  /\ \A w : ~Full(t, w, c)
         /\ \A w : ~Permitted(t, w, c) => t.recovery /\ t.rtx = {}
<1>1. /\ t \in Sender /\ t.safe = Charged(t, "safe") /\ t.random = Charged(t, "random")
  BY DEF Books, Exact
<1>2. t.safe = 0 /\ t.random = 0
  <2>1. \A w : Tagged(t, t.tx, w) = {}
    BY DEF Tagged
  <2>2. {} \cap t.rts = {} /\ {} \ t.rts = {}
    OBVIOUS
  <2>3. Cardinality({}) = 0
    BY FS_EmptySet
  <2>4. Bytes(t, {}) = 0
    BY <2>2, <2>3, SenderAssumption DEF Bytes
  <2> QED
    BY <1>1, <2>1, <2>4 DEF Charged
<1>3. c.safe \in Nat /\ c.safe > 0 /\ (Dual => c.random \in Nat /\ c.random > 0)
  <2>1. c.safe \in Cwnds /\ (Dual => c.random \in Cwnds)
    BY DEF EventChoices
  <2>2. \A w \in Cwnds : w \in Nat /\ w > 0
    <3>1. Mtu \in Nat /\ Mtu > 0 /\ \A w \in Cwnds : w \in Nat /\ w >= Mtu
      BY SenderAssumption
    <3> QED
      BY <3>1
  <2> QED
    BY <2>1, <2>2
<1>4. \A w : ~Full(t, w, c)
  <2>1. CASE Dual
    <3>1. ~(c.safe <= t.safe) /\ ~(c.random <= t.random)
      BY <1>2, <1>3, <2>1
    <3> QED
      BY <2>1, <3>1 DEF Full
  <2>2. CASE ~Dual
    <3>1. t.inFlight \in Int /\ t.inFlight <= 0
      BY <1>1, <2>2 DEF Sender, Light
    <3>2. ~(c.safe <= t.inFlight)
      BY <1>3, <3>1
    <3> QED
      BY <2>2, <3>2 DEF Full
  <2> QED
    BY <2>1, <2>2
<1> QED
  BY <1>4 DEF Permitted

(* A packet that was sent has a record, whatever the port does next.       *)
LEMMA SentHasRecord ==
  ASSUME NEW t, NEW S \in SUBSET Seqs, NEW w, NEW c \in EventChoices,
         Books(t, S), HasWork(t), GoodTag(w)
  PROVE  LET sent == StartSending(SendPacket(t, w, c))
         IN sent.tx # {} /\ Enqueue(sent).blocked
<1> DEFINE x == SendPacket(t, w, c)
           sent == StartSending(x)
<1>1. x \in Sender
  BY SendPacketBooks DEF Carries, Books
<1>2. x.tx # {}
  <2>1. CASE t.rtx = {}
    <3> DEFINE v == DrawnTag(w)
               o == t.out \cup {[seq |-> t.next, kind |-> "data", ar |-> WantsAck(t, v, c)]}
               bl == t.backlog - 1
               fl == t.inFlight + Mtu
               nx == t.next + 1
               b == [t EXCEPT !.backlog = bl, !.inFlight = fl, !.next = nx, !.out = o]
    <3>1. x = AddRecord(b, t.next, v)
      BY <2>1, Zenon DEF SendPacket, NewPacket
    <3> HIDE DEF v, b
    <3>2. t.next \in (AddRecord(b, t.next, v)).tx
      BY DEF AddRecord
    <3> QED
      BY <3>1, <3>2
  <2>2. CASE t.rtx # {}
    BY <2>2 DEF SendPacket, RtxPacket, AddRecord
  <2> QED
    BY <2>1, <2>2
<1> HIDE DEF x
<1>3. sent \in Sender /\ sent.tx = x.tx
  BY <1>1, PortSent DEF SamePort
<1> HIDE DEF sent
<1>4. Enqueue(sent).blocked
  BY <1>3, PortSent
<1> QED
  BY <1>2, <1>3, <1>4 DEF x, sent

(* sendIfPermitted() leaves no source waiting with an open window.         *)
LEMMA SendIfPermittedRestless ==
  ASSUME NEW t, NEW S \in SUBSET Seqs, NEW c \in EventChoices, Books(t, S),
         Light(SendIfPermitted(t, c))
  PROVE  Restless(SendIfPermitted(t, c))
<1> DEFINE u    == SendIfPermitted(t, c)
           sent == StartSending(SendPacket(t, c.pred, c))
<1>1. GoodTag(c.pred) /\ t \in Sender
  BY ChoiceTypes DEF Books
<1>2. \/ u = t /\ (~Permitted(t, c.pred, c) \/ ~HasWork(t) \/ t.blocked)
      \/ u = Enqueue(t)
      \/ HasWork(t) /\ u \in {sent, Enqueue(sent)}
  BY DEF SendIfPermitted
<1>3. CASE u = t /\ (~Permitted(t, c.pred, c) \/ ~HasWork(t) \/ t.blocked)
  BY <1>3, OpenGate DEF Restless
<1>4. CASE u = Enqueue(t)
  BY <1>1, <1>4, PortSent DEF Restless
<1>5. CASE HasWork(t) /\ u \in {sent, Enqueue(sent)}
  <2>1. sent.tx # {} /\ Enqueue(sent).blocked
    BY <1>1, <1>5, SentHasRecord
  <2> QED
    BY <1>5, <2>1 DEF Restless
<1> HIDE DEF u, sent
<1> QED
  BY <1>2, <1>3, <1>4, <1>5 DEF u

(* u has what t has to send, and the same standing with its port.          *)
SameStanding(t, u) ==
  /\ u.tx = t.tx /\ u.rtx = t.rtx /\ u.backlog = t.backlog /\ u.inFlight = t.inFlight
  /\ u.recovery = t.recovery /\ u.blocked = t.blocked

(* A control packet changes nothing of that, nor does a turn that is       *)
(* declined.                                                               *)
LEMMA ControlStands ==
  ASSUME NEW t \in Sender
  PROVE  /\ SameStanding(t, SendControl(t)) /\ SendControl(t).queued = t.queued
         /\ SameStanding(t, CantSend(t))
<1> DEFINE cs(x) == x.ctrl \ {Min(x.ctrl)}
           o(x) == x.out \cup {[seq |-> Min(x.ctrl), kind |-> "rts", ar |-> TRUE]}
<1>1. ASSUME NEW x \in Sender
      PROVE  SameStanding(x, SendControl(x)) /\ SendControl(x).queued = x.queued
  <2>1. SendControl(x) = [x EXCEPT !.busy = TRUE, !.ctrl = cs(x), !.out = o(x)]
    BY Zenon DEF SendControl
  <2> HIDE DEF cs, o
  <2> QED
    BY <2>1 DEF Sender, SameStanding
<1>2. SameStanding(t, CantSend(t))
  <2> DEFINE r == [t EXCEPT !.queued = 0]
  <2>1. r \in Sender /\ SameStanding(t, r)
    BY DEF Sender, SameStanding
  <2>2. CantSend(t) \in {r, SendControl(r)}
    BY DEF CantSend
  <2> HIDE DEF r
  <2>3. SameStanding(r, SendControl(r))
    BY <1>1, <2>1
  <2> QED
    BY <2>1, <2>2, <2>3 DEF SameStanding
<1> QED
  BY <1>1, <1>2

(* A turn at the port is declined for lack of work or of room only.        *)
LEMMA TimeToSendRestless ==
  ASSUME NEW t, NEW c \in EventChoices, Books(t, {}), Light(TimeToSend(t, c))
  PROVE  Restless(TimeToSend(t, c))
<1> DEFINE u    == [t EXCEPT !.blocked = FALSE]
           sent == StartSending(SendPacket(u, c.pred, c))
           r    == TimeToSend(t, c)
<1>1. Books(u, {}) /\ GoodTag(c.pred) /\ t \in Sender /\ {} \in SUBSET Seqs
  BY PortBooks, ChoiceTypes DEF Carries, Books
<1>2. /\ u \in Sender /\ u.tx = t.tx /\ u.rtx = t.rtx /\ u.backlog = t.backlog
      /\ u.inFlight = t.inFlight /\ u.recovery = t.recovery
  BY <1>1 DEF Sender
<1>3. \/ ~HasWork(t) /\ r = CantSend(t)
      \/ HasWork(t) /\ ~Permitted(u, c.pred, c) /\ r = CantSend(u)
      \/ HasWork(t) /\ r \in {sent, Enqueue(sent)}
  BY DEF TimeToSend
<1> HIDE DEF u, r
<1> SUFFICES Restless(r)
  BY DEF r
<1>4. CASE ~HasWork(t) /\ r = CantSend(t)
  BY <1>1, <1>4, ControlStands DEF SameStanding, HasWork, Restless
<1>5. CASE HasWork(t) /\ ~Permitted(u, c.pred, c) /\ r = CantSend(u)
  <2>1. SameStanding(u, r)
    BY <1>2, <1>5, ControlStands
  <2>2. Light(u)
    BY <2>1 DEF r, Light, SameStanding
  <2>3. u.tx = {} => u.recovery /\ u.rtx = {}
    BY <1>1, <1>5, <2>2, OpenGate
  <2> QED
    BY <2>1, <2>3 DEF SameStanding, Restless
<1>6. CASE HasWork(t) /\ r \in {sent, Enqueue(sent)}
  <2>1. HasWork(u)
    BY <1>2, <1>6 DEF HasWork
  <2>2. sent.tx # {} /\ Enqueue(sent).blocked
    BY <1>1, <2>1, SentHasRecord
  <2> HIDE DEF sent
  <2> QED
    BY <1>6, <2>2 DEF Restless
<1> QED
  BY <1>3, <1>4, <1>5, <1>6

(* The end of a packet gives the turn away and takes none from the source. *)
LEMMA PortFreeRestless ==
  ASSUME NEW t, NEW control, NEW c \in EventChoices, Books(t, {}), Restless(t),
         Light(PortFree(t, control, c))
  PROVE  Restless(PortFree(t, control, c))
<1> DEFINE u == [t EXCEPT !.busy = FALSE]
           r == PortFree(t, control, c)
<1>1. Books(u, {}) /\ t \in Sender
  BY PortBooks DEF Carries, Books
<1>2. u \in Sender /\ SameStanding(t, u) /\ u.queued = t.queued
  BY <1>1 DEF Sender, SameStanding
<1>3. r \in {TimeToSend(u, c), SendControl(u), u}
  BY DEF PortFree
<1> HIDE DEF u, r
<1> SUFFICES Restless(r)
  BY DEF r
<1>4. CASE r = TimeToSend(u, c)
  BY <1>1, <1>4, TimeToSendRestless DEF r
<1>5. CASE r = SendControl(u)
  BY <1>2, <1>5, ControlStands DEF SameStanding, Restless, HasWork
<1>6. CASE r = u
  BY <1>2, <1>6 DEF SameStanding, Restless, HasWork
<1> QED
  BY <1>3, <1>4, <1>5, <1>6

(* startFlow() sends a packet or enters the port's queue.                  *)
LEMMA StartFlowRestless ==
  ASSUME NEW t, NEW c \in EventChoices, Books(t, {}), ~t.started
  PROVE  Restless(StartFlow(t, c))
<1> DEFINE b    == [t EXCEPT !.started = TRUE, !.backlog = Pkts]
           x    == NewPacket(b, c.pred, c)
           sent == StartSending(x)
<1>1. t \in Sender /\ Pkts \in Nat
  BY SenderAssumption DEF Books
<1>2. b \in Sender
  <2>1. Pkts \in 0 .. Pkts
    BY <1>1
  <2> QED
    BY <1>1, <2>1 DEF Sender
<1>3. StartFlow(t, c) \in {Enqueue(b), Enqueue(sent), sent}
  BY DEF StartFlow
<1>4. Enqueue(b).blocked
  BY <1>2, PortSent
<1> HIDE DEF b
<1>5. sent.tx # {}
  <2> DEFINE v == DrawnTag(c.pred)
             o == b.out \cup {[seq |-> b.next, kind |-> "data", ar |-> WantsAck(b, v, c)]}
             bl == b.backlog - 1
             fl == b.inFlight + Mtu
             nx == b.next + 1
             d == [b EXCEPT !.backlog = bl, !.inFlight = fl, !.next = nx, !.out = o]
  <2>1. x = AddRecord(d, b.next, v)
    BY Zenon DEF NewPacket
  <2> HIDE DEF v, d
  <2>2. b.next \in x.tx
    BY <2>1 DEF AddRecord
  <2> HIDE DEF x
  <2>3. x.tx # {}
    BY <2>2
  <2> QED
    BY <2>3 DEF StartSending
<1>6. Enqueue(sent).tx = sent.tx
  BY DEF Enqueue, StartSending, NewPacket, AddRecord
<1> HIDE DEF sent
<1> QED
  BY <1>3, <1>4, <1>5, <1>6 DEF Restless

(* An RTS has a record, and so has a packet that is sent again.            *)
LEMMA RecordLeft ==
  ASSUME NEW t
  PROVE  Rts(t).tx # {} /\ StartSending(RtxPacket(t)).tx # {}
<1>1. ASSUME NEW x, NEW q, NEW w PROVE AddRecord(x, q, w).tx # {}
  <2>1. q \in AddRecord(x, q, w).tx
    BY DEF AddRecord
  <2> QED
    BY <2>1
<1>2. Rts(t).tx # {}
  <2> DEFINE b == [t EXCEPT !.rts = @ \cup {t.next}, !.next = @ + 1, !.ctrl = @ \cup {t.next}]
             r == AddRecord(b, t.next, "none")
  <2>1. Rts(t) \in {r, SendControl(r)}
    BY DEF Rts
  <2>2. r.tx # {}
    BY <1>1
  <2> HIDE DEF r
  <2>3. SendControl(r).tx = r.tx
    BY DEF SendControl
  <2> QED
    BY <2>1, <2>2, <2>3
<1>3. RtxPacket(t).tx # {}
  BY <1>1 DEF RtxPacket
<1>4. StartSending(RtxPacket(t)).tx = RtxPacket(t).tx
  BY DEF StartSending
<1> QED
  BY <1>2, <1>3, <1>4

(* A timeout sends the packet again, sends an RTS, or enters the port's    *)
(* queue, even if the source took itself for queued.                       *)
LEMMA TimeoutRestless ==
  ASSUME NEW t, NEW q \in t.tx, NEW mayRts, NEW c \in EventChoices,
         Books(t, {}), Light(Timeout(t, q, mayRts, c))
  PROVE  Restless(Timeout(t, q, mayRts, c))
<1> DEFINE u == Discharge(RecalculateRTO(Erase(t, {q})), {q})
           y == [u EXCEPT !.rtx = u.rtx \cup {q}]
           v == SendIfPermitted(y, c)
           r == Timeout(t, q, mayRts, c)
           A == {q}
           E == {}
<1>1. A \in SUBSET Seqs /\ E \in SUBSET Seqs
  BY DEF Books, Sender
<1>2. Books(u, E) /\ A \cap u.tx = {} /\ A \subseteq 0 .. u.next - 1
  BY TimedOutBooks DEF Carries
<1>3. QueueForRtx(u, {q}, c) = v
  BY Zenon DEF QueueForRtx
<1>4. \/ r = v
      \/ r = Rts(v)
      \/ r = [v EXCEPT !.queued = v.queued + 1]
      \/ r = StartSending(RtxPacket(v))
  BY <1>3 DEF Timeout
<1> HIDE DEF u, E
<1>5. Books(y, E)
  BY <1>1, <1>2, ToQueueBooks DEF Carries
<1> HIDE DEF y
<1>6. Books(v, E)
  BY <1>1, <1>5, SendIfPermittedBooks DEF Carries
<1>7. Light(v) => Restless(v)
  BY <1>1, <1>5, SendIfPermittedRestless
<1> HIDE DEF v, r
<1> SUFFICES Restless(r)
  BY DEF r
<1>8. CASE r = v
  BY <1>7, <1>8 DEF r
<1>9. CASE r \in {Rts(v), StartSending(RtxPacket(v))}
  BY <1>9, RecordLeft DEF Restless
<1>10. CASE r = [v EXCEPT !.queued = v.queued + 1]
  BY <1>6, <1>10 DEF Books, Sender, Restless
<1> QED
  BY <1>4, <1>8, <1>9, <1>10

(* A NACK's second attempt to send leaves nothing waiting.                 *)
LEMMA NackRestless ==
  ASSUME NEW t, NEW q, NEW c \in EventChoices, Books(t, {}), Restless(t),
         Light(Nack(t, q, c))
  PROVE  Restless(Nack(t, q, c))
<1>1. CASE q \notin t.tx
  BY <1>1 DEF Nack
<1>2. CASE q \in t.tx
  <2> DEFINE u == Discharge(Erase(t, {q}), {q})
             v == QueueForRtx(u, {q}, c)
             w == Rearm(v, {q})
  <2>1. t \in Sender /\ {q} \in SUBSET Seqs /\ {q} \in SUBSET t.tx /\ Numbered(t)
    BY <1>2 DEF Books, Sender
  <2>2. Lifted(t, u, {q})
    BY <2>1, EraseFields, DischargeErased
  <2>3. Nack(t, q, c) = SendIfPermitted(w, c)
    BY <1>2 DEF Nack
  <2> HIDE DEF u
  <2>4. Books(u, {q})
    BY <2>1, <2>2, LiftedBooks DEF Carries
  <2>5. {q} \cap u.tx = {} /\ {q} \subseteq 0 .. u.next - 1
    BY <2>1, <2>2 DEF Lifted, Numbered
  <2>6. Books(v, {q})
    BY <2>1, <2>4, <2>5, QueueForRtxBooks DEF Carries
  <2> HIDE DEF v
  <2>7. Books(w, {}) /\ {} \in SUBSET Seqs
    BY <2>1, <2>6, RecalculateBooks DEF Carries
  <2> HIDE DEF w
  <2> QED
    BY <2>3, <2>7, SendIfPermittedRestless
<1> QED
  BY <1>1, <1>2

(* An ACK ends the flow or lets it send on.                                *)
LEMMA AckRestless ==
  ASSUME NEW t, NEW a, NEW c \in EventChoices, Books(t, {}), Report(a), Light(Ack(t, a, c))
  PROVE  Ack(t, a, c).done \/ Restless(Ack(t, a, c))
<1> DEFINE x == Account(t, a)
           u == IF FastRecovery THEN FastLoss(x, a, c) ELSE x
<1>1. Books(x, {})
  BY AccountBooks DEF Carries
<1> HIDE DEF x
<1>2. Books(u, {}) /\ {} \in SUBSET Seqs
  BY <1>1, FastLossBooks DEF Carries
<1>3. Ack(t, a, c) = IF Finished(u, a) THEN [u EXCEPT !.done = TRUE]
                     ELSE SendIfPermitted(u, c)
  BY Zenon DEF Ack, x
<1> HIDE DEF u
<1>4. [u EXCEPT !.done = TRUE].done
  BY <1>2 DEF Books, Sender
<1>5. Light(SendIfPermitted(u, c)) => Restless(SendIfPermitted(u, c))
  BY <1>2, SendIfPermittedRestless
<1> QED
  BY <1>3, <1>4, <1>5

(* Between two events nothing outstanding is nothing in flight.            *)
LEMMA LightBooks == FlowInv /\ TransferInv => Light(s)
<1> SUFFICES ASSUME FlowInv, TransferInv, ~Dual, s.tx = {} PROVE s.inFlight <= 0
  BY DEF Light
<1>1. s.inFlight <= Bytes(s, {})
  BY OneWindowExact DEF InFlightExact, NoPhantomInFlight
<1>2. Bytes(s, {}) = 0
  <2>1. {} \cap s.rts = {} /\ {} \ s.rts = {} /\ Cardinality({}) = 0
    BY FS_EmptySet
  <2> QED
    BY <2>1, SenderAssumption DEF Bytes
<1> QED
  BY <1>1, <1>2

(* An event leaves the sender restless if its method does, or ended it.    *)
LEMMA EventRestless ==
  ASSUME FlowInv, TransferInv, [Next]_vars, NEW T, Becomes(T),
         \A t \in T : t \in Sender /\ (t.done \/ (Light(t) => Restless(t)))
  PROVE  Restless(s')
<1>1. FlowInv' /\ TransferInv'
  BY NextInv, NextTransfer
<1>2. PICK t \in T : s' = [t EXCEPT !.out = {}]
  BY DEF Becomes
<1>3. t \in Sender /\ (t.done \/ (Light(t) => Restless(t)))
  BY <1>2
<1>4. /\ s'.tx = t.tx /\ s'.rtx = t.rtx /\ s'.backlog = t.backlog /\ s'.done = t.done
      /\ s'.recovery = t.recovery /\ s'.blocked = t.blocked /\ s'.queued = t.queued
      /\ s'.inFlight = t.inFlight
  BY <1>2, <1>3 DEF Sender
<1>5. CASE t.done
  <2>1. Idle(s')
    BY <1>1, <1>4, <1>5 DEF TransferInv, Ready
  <2>2. s'.backlog = 0 /\ s'.rtx = {}
    BY <2>1 DEF Idle
  <2>3. ~HasWork(s')
    BY <2>2 DEF HasWork
  <2> QED
    BY <2>3 DEF Restless
<1>6. CASE Light(t) => Restless(t)
  <2>1. Light(s')
    <3>1. (FlowInv /\ TransferInv => Light(s))'
      BY LightBooks, PTL
    <3> QED
      BY <1>1, <3>1
  <2>2. Light(t)
    BY <1>4, <2>1 DEF Light
  <2> QED
    BY <1>4, <1>6, <2>2 DEF Restless, HasWork
<1> QED
  BY <1>3, <1>5, <1>6

(* Every event leaves the sender restless.                                 *)
LEMMA RestlessNext ==
  ASSUME FlowInv, TransferInv, Restless(s), [Next]_vars
  PROVE  Restless(s')
<1>1. Books(s, {}) /\ s \in Sender
  BY DEF FlowInv, Books
<1>2. CASE s' = s
  BY <1>2
<1>3. CASE Start
  <2> DEFINE T == {StartFlow(s, c) : c \in EventChoices}
  <2>1. \A c \in EventChoices : Books(StartFlow(s, c), {}) /\ Restless(StartFlow(s, c))
    BY <1>1, <1>3, StartFlowBooks, StartFlowRestless DEF Start
  <2>2. \A t \in T : t \in Sender /\ Restless(t)
    BY <2>1 DEF Books
  <2>3. Becomes(T)
    BY <1>3 DEF Start
  <2> HIDE DEF T
  <2> QED
    BY <2>2, <2>3, EventRestless
<1>4. CASE NicDone
  <2> DEFINE T == {PortFree(s, control, c) : control \in BOOLEAN, c \in EventChoices}
  <2>1. \A control \in BOOLEAN, c \in EventChoices :
          LET t == PortFree(s, control, c)
          IN Books(t, {}) /\ (Light(t) => Restless(t))
    BY <1>1, PortFreeBooks, PortFreeRestless
  <2>2. \A t \in T : t \in Sender /\ (Light(t) => Restless(t))
    BY <2>1 DEF Books
  <2>3. Becomes(T)
    BY <1>4 DEF NicDone
  <2> HIDE DEF T
  <2> QED
    BY <2>2, <2>3, EventRestless
<1>5. CASE NicOther
  <2> DEFINE u == [s EXCEPT !.busy = TRUE]
             T == {u}
  <2>1. u \in Sender /\ SameStanding(s, u) /\ u.queued = s.queued
    BY <1>1 DEF Sender, SameStanding
  <2>2. Becomes(T)
    BY <1>5 DEF NicOther
  <2> HIDE DEF u
  <2>3. \A t \in T : t \in Sender /\ Restless(t)
    BY <2>1 DEF SameStanding, Restless, HasWork
  <2> HIDE DEF T
  <2> QED
    BY <2>2, <2>3, EventRestless
<1>6. CASE Expire
  <2> DEFINE R == {r \in BOOLEAN : s.rts = {} => r}
             T == {Timeout(s, Oldest(s), mayRts /\ Cardinality(s.rts) < MaxRts, c) :
                     mayRts \in R, c \in EventChoices}
  <2>1. Oldest(s) \in s.tx
    <3>1. s.tx # {}
      BY <1>1, <1>6 DEF Expire, Books, Timed, Oldest
    <3> QED
      BY <1>1, <3>1, OldestIn DEF Books
  <2>2. \A t \in T : t \in Sender /\ (Light(t) => Restless(t))
    <3> TAKE t \in T
    <3>1. PICK mayRts \in R, c \in EventChoices :
            t = Timeout(s, Oldest(s), mayRts /\ Cardinality(s.rts) < MaxRts, c)
      OBVIOUS
    <3> DEFINE ok == mayRts /\ Cardinality(s.rts) < MaxRts
    <3>2. ok => Cardinality(s.rts) < MaxRts
      OBVIOUS
    <3> HIDE DEF ok
    <3>3. Books(Timeout(s, Oldest(s), ok, c), {})
      BY <1>1, <2>1, <3>2, TimeoutBooks
    <3>4. Light(Timeout(s, Oldest(s), ok, c)) => Restless(Timeout(s, Oldest(s), ok, c))
      BY <1>1, <2>1, TimeoutRestless
    <3> QED
      BY <3>1, <3>3, <3>4 DEF ok, Books
  <2>3. Becomes(T)
    BY <1>6 DEF Expire
  <2> HIDE DEF T
  <2> QED
    BY <2>2, <2>3, EventRestless
<1>7. ASSUME NEW a \in acks, ReceiveAck(a) PROVE Restless(s')
  <2> DEFINE T == {Ack(s, a, c) : c \in EventChoices}
  <2>1. Report(a)
    BY <1>7 DEF ReceiveAck, FlowInv, Messages, Acks, Report
  <2>2. \A c \in EventChoices :
          LET t == Ack(s, a, c)
          IN Books(t, {}) /\ (t.done \/ (Light(t) => Restless(t)))
    BY <1>1, <2>1, AckBooks, AckRestless
  <2>3. \A t \in T : t \in Sender /\ (t.done \/ (Light(t) => Restless(t)))
    BY <2>2 DEF Books
  <2>4. Becomes(T)
    BY <1>7 DEF ReceiveAck
  <2> HIDE DEF T
  <2> QED
    BY <2>3, <2>4, EventRestless
<1>8. ASSUME NEW a \in acks, ReceiveNack(a) PROVE Restless(s')
  <2> DEFINE T == {Nack(s, a.seq, c) : c \in EventChoices}
  <2>1. \A c \in EventChoices :
          LET t == Nack(s, a.seq, c)
          IN Books(t, {}) /\ (Light(t) => Restless(t))
    BY <1>1, NackBooks, NackRestless
  <2>2. \A t \in T : t \in Sender /\ (Light(t) => Restless(t))
    BY <2>1 DEF Books
  <2>3. Becomes(T)
    BY <1>8 DEF ReceiveNack
  <2> HIDE DEF T
  <2> QED
    BY <2>2, <2>3, EventRestless
<1>9. CASE ToSink \/ Network \/ UNCHANGED vars
  BY <1>2, <1>9 DEF ToSink, ReceiveData, ReceiveRts, ReceiveTrimmed, Network, Drop, Trim,
                    DropAck, vars
<1> QED
  BY <1>3, <1>4, <1>5, <1>6, <1>7, <1>8, <1>9 DEF Next, ToSrc

(* A sender that has not started has nothing to send.                      *)
LEMMA RestlessInit == Init => Restless(s)
  BY DEF Init, FreshSender, Restless, HasWork

(* When nothing of a started flow is ahead of it, either its source takes  *)
(* itself for queued at the port and is not, or fast loss recovery waits   *)
(* for a packet to repeat and there is none; nothing else can stop a flow. *)
THEOREM StuckHasCauseHolds == Spec => []StuckHasCause
<1>1. FlowInv /\ TransferInv /\ FinishedMeansDelivered /\ Restless(s) => StuckHasCause
  <2> SUFFICES ASSUME FlowInv, TransferInv, FinishedMeansDelivered, Restless(s),
                      s.started, ~s.done, ~s.busy, s.timer = NoTimer
               PROVE  s.blocked \/ (s.recovery /\ s.rtx = {})
    BY DEF StuckHasCause
  <2>1. s.tx = {}
    <3>1. s.tx # {} => Oldest(s) \in s.tx
      BY OldestIn DEF FlowInv, Books
    <3>2. s.tx \subseteq Seqs /\ NoTimer \notin Seqs
      BY DEF FlowInv, Books, Sender, Seqs, NoTimer
    <3> QED
      BY <3>1, <3>2 DEF FlowInv, Books, Timed
  <2>2. HasWork(s)
    <3>1. s.backlog \in Nat
      BY SenderAssumption DEF FlowInv, Books, Sender
    <3>2. s.rtx = {} => Forgotten = Sent
      BY <2>1 DEF Forgotten
    <3> QED
      BY <3>1, <3>2 DEF FinishedMeansDelivered, HasWork
  <2>3. s.queued = 0
    BY DEF TransferInv, Ready, PortOK
  <2> QED
    BY <2>1, <2>2, <2>3 DEF Restless
<1>2. Spec => []Restless(s)
  <2>1. FlowInv /\ TransferInv /\ Restless(s) /\ [Next]_vars => Restless(s)'
    BY RestlessNext
  <2> QED
    BY <2>1, RestlessInit, TransferInvariant, PTL DEF Spec
<1> QED
  BY <1>1, <1>2, FinishedHolds, TransferInvariant, PTL

(* Loss recovery has neither begun nor ended.                              *)
Steady(t, u) == "recovery" \in DOMAIN u /\ u.recovery = t.recovery

(* Only fastLossRecovery() writes _loss_recovery_mode: not the records,     *)
LEMMA RecordsSteady ==
  ASSUME NEW t, "recovery" \in DOMAIN t, NEW A
  PROVE  /\ Steady(t, Erase(t, A)) /\ Steady(t, Discharge(t, A))
         /\ Steady(t, RecalculateRTO(t)) /\ Steady(t, Rearm(t, A))
         /\ \A q, v : Steady(t, AddRecord(t, q, v))
<1>1. Steady(t, Erase(t, A))
  <2> DEFINE tx == t.tx \ A
             bf == {p \in t.before : p[1] \notin A /\ p[2] \notin A}
  <2>1. Erase(t, A) = [t EXCEPT !.tx = tx, !.before = bf]
    BY Zenon DEF Erase
  <2> HIDE DEF tx, bf
  <2> QED
    BY <2>1 DEF Steady
<1>2. Steady(t, Discharge(t, A))
  <2> DEFINE fl == t.inFlight - Bytes(t, Counted(t, A))
             sf == t.safe - Bytes(t, Tagged(t, A, "safe"))
             rd == t.random - Bytes(t, Tagged(t, A, "random"))
  <2>1. Discharge(t, A) = [t EXCEPT !.inFlight = fl, !.safe = sf, !.random = rd]
    BY Zenon DEF Discharge
  <2> HIDE DEF fl, sf, rd
  <2> QED
    BY <2>1 DEF Steady
<1>3. Steady(t, RecalculateRTO(t))
  <2> DEFINE o == Oldest(t)
  <2>1. RecalculateRTO(t) = [t EXCEPT !.timer = o]
    BY Zenon DEF RecalculateRTO
  <2> HIDE DEF o
  <2> QED
    BY <2>1 DEF Steady
<1>4. ASSUME NEW q, NEW v PROVE Steady(t, AddRecord(t, q, v))
  <2> DEFINE tx == t.tx \cup {q}
             bf == t.before \cup (t.tx \X {q})
             tg == [t.tag EXCEPT ![q] = v]
             sf == IF v = "safe" THEN t.safe + Size(t, q) ELSE t.safe
             rd == IF v = "random" THEN t.random + Size(t, q) ELSE t.random
             tm == IF t.timer = NoTimer THEN q ELSE t.timer
  <2>1. AddRecord(t, q, v) = [t EXCEPT !.tx = tx, !.before = bf, !.tag = tg,
                                       !.safe = sf, !.random = rd, !.timer = tm]
    BY Zenon DEF AddRecord
  <2> HIDE DEF tx, bf, tg, sf, rd, tm
  <2> QED
    BY <2>1 DEF Steady
<1> QED
  BY <1>1, <1>2, <1>3, <1>4 DEF Rearm, Steady

(* no send,                                                                *)
LEMMA SendSteady ==
  ASSUME NEW t, "recovery" \in DOMAIN t, NEW w, NEW c
  PROVE  /\ Steady(t, Enqueue(t)) /\ Steady(t, StartSending(t))
         /\ Steady(t, SendControl(t)) /\ Steady(t, NewPacket(t, w, c))
         /\ Steady(t, RtxPacket(t)) /\ Steady(t, SendPacket(t, w, c))
<1>1. Steady(t, Enqueue(t)) /\ Steady(t, StartSending(t))
  BY DEF Steady, Enqueue, StartSending
<1>2. Steady(t, SendControl(t))
  <2> DEFINE cs == t.ctrl \ {Min(t.ctrl)}
             o == t.out \cup {[seq |-> Min(t.ctrl), kind |-> "rts", ar |-> TRUE]}
  <2>1. SendControl(t) = [t EXCEPT !.busy = TRUE, !.ctrl = cs, !.out = o]
    BY Zenon DEF SendControl
  <2> HIDE DEF cs, o
  <2> QED
    BY <2>1 DEF Steady
<1>3. ASSUME NEW x, "recovery" \in DOMAIN x, NEW q, NEW v
      PROVE  Steady(x, AddRecord(x, q, v))
  BY <1>3, RecordsSteady
<1>4. Steady(t, NewPacket(t, w, c))
  <2> DEFINE v == DrawnTag(w)
             o == t.out \cup {[seq |-> t.next, kind |-> "data", ar |-> WantsAck(t, v, c)]}
             bl == t.backlog - 1
             fl == t.inFlight + Mtu
             nx == t.next + 1
             b == [t EXCEPT !.backlog = bl, !.inFlight = fl, !.next = nx, !.out = o]
  <2>1. NewPacket(t, w, c) = AddRecord(b, t.next, v)
    BY Zenon DEF NewPacket
  <2> HIDE DEF v, o, bl, fl, nx
  <2>2. Steady(t, b)
    BY DEF Steady
  <2> HIDE DEF b
  <2> QED
    BY <1>3, <2>1, <2>2 DEF Steady
<1>5. Steady(t, RtxPacket(t))
  <2> DEFINE q == Min(t.rtx)
             rx == t.rtx \ {q}
             fl == t.inFlight + Bytes(t, Counted(t, {q}))
             o == t.out \cup {[seq |-> q, kind |-> "data", ar |-> TRUE]}
             b == [t EXCEPT !.rtx = rx, !.inFlight = fl, !.out = o]
  <2>1. RtxPacket(t) = AddRecord(b, q, t.tag[q])
    BY Zenon DEF RtxPacket
  <2> HIDE DEF q, rx, fl, o
  <2>2. Steady(t, b)
    BY DEF Steady
  <2> HIDE DEF b
  <2> QED
    BY <1>3, <2>1, <2>2 DEF Steady
<1> QED
  BY <1>1, <1>2, <1>4, <1>5 DEF SendPacket

(* no turn at the port,                                                    *)
LEMMA PortSteady ==
  ASSUME NEW t, "recovery" \in DOMAIN t, NEW c
  PROVE  /\ Steady(t, SendIfPermitted(t, c)) /\ Steady(t, StartFlow(t, c))
         /\ \A control : Steady(t, PortFree(t, control, c))
<1>1. ASSUME NEW x, NEW y, Steady(x, y)
      PROVE  Steady(x, StartSending(y)) /\ Steady(x, Enqueue(StartSending(y)))
  <2>1. Steady(y, StartSending(y))
    BY <1>1, SendSteady DEF Steady
  <2> DEFINE z == StartSending(y)
  <2> HIDE DEF z
  <2>2. Steady(z, Enqueue(z))
    BY <2>1, SendSteady DEF z, Steady
  <2> QED
    BY <1>1, <2>1, <2>2 DEF z, Steady
<1>2. ASSUME NEW x, "recovery" \in DOMAIN x
      PROVE  LET sent == StartSending(SendPacket(x, c.pred, c))
             IN Steady(x, sent) /\ Steady(x, Enqueue(sent))
  BY <1>1, <1>2, SendSteady
<1>3. Steady(t, SendIfPermitted(t, c))
  <2> DEFINE sent == StartSending(SendPacket(t, c.pred, c))
  <2>1. SendIfPermitted(t, c) \in {t, Enqueue(t), sent, Enqueue(sent)}
    BY DEF SendIfPermitted
  <2>2. Steady(t, sent) /\ Steady(t, Enqueue(sent)) /\ Steady(t, Enqueue(t)) /\ Steady(t, t)
    BY <1>2, SendSteady DEF Steady
  <2> HIDE DEF sent
  <2> QED
    BY <2>1, <2>2
<1>4. Steady(t, StartFlow(t, c))
  <2> DEFINE b    == [t EXCEPT !.started = TRUE, !.backlog = Pkts]
             sent == StartSending(NewPacket(b, c.pred, c))
  <2>1. StartFlow(t, c) \in {Enqueue(b), sent, Enqueue(sent)}
    BY DEF StartFlow
  <2>2. Steady(t, b)
    BY DEF Steady
  <2> HIDE DEF b
  <2>3. Steady(b, NewPacket(b, c.pred, c)) /\ Steady(b, Enqueue(b))
    BY <2>2, SendSteady DEF Steady
  <2>4. Steady(b, sent) /\ Steady(b, Enqueue(sent))
    BY <1>1, <2>3
  <2> HIDE DEF sent
  <2> QED
    BY <2>1, <2>2, <2>3, <2>4 DEF Steady
<1>5. ASSUME NEW x, "recovery" \in DOMAIN x PROVE Steady(x, TimeToSend(x, c))
  <2> DEFINE u    == [x EXCEPT !.blocked = FALSE]
             sent == StartSending(SendPacket(u, c.pred, c))
  <2>1. TimeToSend(x, c) \in {CantSend(x), CantSend(u), sent, Enqueue(sent)}
    BY DEF TimeToSend
  <2>2. Steady(x, u)
    BY <1>5 DEF Steady
  <2>3. ASSUME NEW y, "recovery" \in DOMAIN y PROVE Steady(y, CantSend(y))
    <3> DEFINE r == [y EXCEPT !.queued = 0]
    <3>1. CantSend(y) \in {r, SendControl(r)}
      BY DEF CantSend
    <3>2. Steady(y, r)
      BY <2>3 DEF Steady
    <3> HIDE DEF r
    <3>3. Steady(r, SendControl(r))
      BY <3>2, SendSteady DEF Steady
    <3> QED
      BY <3>1, <3>2, <3>3 DEF Steady
  <2> HIDE DEF u
  <2>4. Steady(u, sent) /\ Steady(u, Enqueue(sent))
    BY <1>2, <2>2 DEF Steady
  <2> HIDE DEF sent
  <2>5. Steady(x, CantSend(x)) /\ Steady(u, CantSend(u))
    BY <1>5, <2>2, <2>3 DEF Steady
  <2> QED
    BY <2>1, <2>2, <2>4, <2>5 DEF Steady
<1>6. ASSUME NEW control PROVE Steady(t, PortFree(t, control, c))
  <2> DEFINE u == [t EXCEPT !.busy = FALSE]
  <2>1. PortFree(t, control, c) \in {TimeToSend(u, c), SendControl(u), u}
    BY DEF PortFree
  <2>2. Steady(t, u)
    BY DEF Steady
  <2> HIDE DEF u
  <2>3. Steady(u, TimeToSend(u, c)) /\ Steady(u, SendControl(u))
    BY <1>5, <2>2, SendSteady DEF Steady
  <2> QED
    BY <2>1, <2>2, <2>3 DEF Steady
<1> QED
  BY <1>3, <1>4, <1>6

(* no RTS,                                                                 *)
LEMMA RtsSteady ==
  ASSUME NEW t, "recovery" \in DOMAIN t
  PROVE  Steady(t, Rts(t))
<1> DEFINE rs == t.rts \cup {t.next}
           nx == t.next + 1
           ct == t.ctrl \cup {t.next}
           b == [t EXCEPT !.rts = rs, !.next = nx, !.ctrl = ct]
           r == AddRecord(b, t.next, "none")
<1>1. Rts(t) \in {r, SendControl(r)}
  BY Zenon DEF Rts
<1> HIDE DEF rs, nx, ct
<1>2. Steady(t, b)
  BY DEF Steady
<1> HIDE DEF b
<1>3. Steady(b, r)
  BY <1>2, RecordsSteady DEF Steady
<1> HIDE DEF r
<1>4. Steady(r, SendControl(r))
  BY <1>3, SendSteady DEF Steady
<1> QED
  BY <1>1, <1>2, <1>3, <1>4 DEF Steady

(* neither a timeout nor a NACK,                                           *)
LEMMA RepairSteady ==
  ASSUME NEW t, "recovery" \in DOMAIN t, NEW q, NEW c, NEW mayRts
  PROVE  Steady(t, Timeout(t, q, mayRts, c)) /\ Steady(t, Nack(t, q, c))
<1>1. ASSUME NEW x, "recovery" \in DOMAIN x PROVE Steady(x, QueueForRtx(x, {q}, c))
  <2> DEFINE A == {q}
             y == [x EXCEPT !.rtx = x.rtx \cup A]
  <2>1. QueueForRtx(x, A, c) = SendIfPermitted(y, c)
    BY Zenon DEF QueueForRtx
  <2> HIDE DEF A
  <2>2. Steady(x, y)
    BY <1>1 DEF Steady
  <2> HIDE DEF y
  <2> QED
    BY <2>1, <2>2, PortSteady DEF A, Steady
<1>2. ASSUME NEW x, "recovery" \in DOMAIN x
      PROVE  /\ Steady(x, Erase(x, {q})) /\ Steady(x, Discharge(x, {q}))
             /\ Steady(x, RecalculateRTO(x)) /\ Steady(x, Rearm(x, {q}))
  BY <1>2, RecordsSteady
<1>3. Steady(t, Timeout(t, q, mayRts, c))
  <2> DEFINE u == Discharge(RecalculateRTO(Erase(t, {q})), {q})
             v == QueueForRtx(u, {q}, c)
  <2>1. Steady(t, u)
    BY <1>2 DEF Steady
  <2>2. \/ Timeout(t, q, mayRts, c) = v
        \/ Timeout(t, q, mayRts, c) = Rts(v)
        \/ Timeout(t, q, mayRts, c) = [v EXCEPT !.queued = v.queued + 1]
        \/ Timeout(t, q, mayRts, c) = StartSending(RtxPacket(v))
    BY DEF Timeout
  <2> HIDE DEF u
  <2>3. Steady(u, v)
    BY <1>1, <2>1 DEF Steady
  <2> HIDE DEF v
  <2>4. Steady(v, Rts(v)) /\ Steady(v, [v EXCEPT !.queued = v.queued + 1])
    BY <2>3, RtsSteady DEF Steady
  <2>5. Steady(v, RtxPacket(v))
    BY <2>3, SendSteady DEF Steady
  <2> DEFINE w == RtxPacket(v)
  <2> HIDE DEF w
  <2>6. Steady(w, StartSending(w))
    BY <2>5, SendSteady DEF w, Steady
  <2> QED
    BY <2>1, <2>2, <2>3, <2>4, <2>5, <2>6 DEF w, Steady
<1>4. Steady(t, Nack(t, q, c))
  <2> DEFINE e == Erase(t, {q})
             u == Discharge(e, {q})
             v == QueueForRtx(u, {q}, c)
             w == Rearm(v, {q})
  <2>1. Nack(t, q, c) \in {t, SendIfPermitted(w, c)}
    BY DEF Nack
  <2>2. Steady(t, e) /\ Steady(e, u)
    BY <1>2 DEF Steady
  <2> HIDE DEF e, u
  <2>3. Steady(u, v)
    BY <1>1, <2>2 DEF Steady
  <2> HIDE DEF v
  <2>4. Steady(v, w)
    BY <1>2, <2>3 DEF Steady
  <2> HIDE DEF w
  <2>5. Steady(w, SendIfPermitted(w, c))
    BY <2>4, PortSteady DEF Steady
  <2> QED
    BY <2>1, <2>2, <2>3, <2>4, <2>5 DEF Steady
<1> QED
  BY <1>3, <1>4

(* and an ACK only where _enable_fast_loss_recovery is set.                *)
LEMMA AckSteady ==
  ASSUME ~FastRecovery, NEW t, NEW a, NEW c, Books(t, {}), Report(a)
  PROVE  Steady(t, Ack(t, a, c))
<1> DEFINE u == Account(t, a)
<1>1. Steady(t, u)
  <2>1. u \in Sender /\ t \in Sender
    BY AccountBooks DEF Carries, Books
  <2> HIDE DEF u
  <2>2. u.recovery = t.recovery
    BY <2>1, AccountMode DEF u, SameMode
  <2> QED
    BY <2>1, <2>2 DEF Steady, Sender
<1>2. Ack(t, a, c) \in {[u EXCEPT !.done = TRUE], SendIfPermitted(u, c)}
  BY DEF Ack
<1> HIDE DEF u
<1>3. Steady(u, [u EXCEPT !.done = TRUE]) /\ Steady(u, SendIfPermitted(u, c))
  BY <1>1, PortSteady DEF Steady
<1> QED
  BY <1>1, <1>2, <1>3 DEF Steady

(* Without it, no flow is ever in loss recovery.                           *)
LEMMA RecoveryNever ==
  ASSUME ~FastRecovery
  PROVE  Spec => []~s.recovery
<1>1. Init => ~s.recovery
  BY DEF Init, FreshSender
<1>2. FlowInv /\ ~s.recovery /\ [Next]_vars => (~s.recovery)'
  <2> SUFFICES ASSUME FlowInv, ~s.recovery, [Next]_vars PROVE ~s'.recovery
    OBVIOUS
  <2>1. s \in Sender /\ "recovery" \in DOMAIN s
    BY DEF FlowInv, Books, Sender
  <2>2. ASSUME NEW T, Becomes(T), \A t \in T : Steady(s, t) PROVE ~s'.recovery
    BY <2>2 DEF Becomes, Steady
  <2>3. CASE Start
    <3> DEFINE T == {StartFlow(s, c) : c \in EventChoices}
    <3>1. (\A t \in T : Steady(s, t)) /\ Becomes(T)
      BY <2>1, <2>3, PortSteady DEF Start
    <3> HIDE DEF T
    <3> QED
      BY <2>2, <3>1
  <2>4. CASE NicDone
    <3> DEFINE T == {PortFree(s, control, c) : control \in BOOLEAN, c \in EventChoices}
    <3>1. (\A t \in T : Steady(s, t)) /\ Becomes(T)
      BY <2>1, <2>4, PortSteady DEF NicDone
    <3> HIDE DEF T
    <3> QED
      BY <2>2, <3>1
  <2>5. CASE NicOther
    BY <2>1, <2>5 DEF NicOther, Becomes
  <2>6. CASE Expire
    <3> DEFINE R == {r \in BOOLEAN : s.rts = {} => r}
               T == {Timeout(s, Oldest(s), mayRts /\ Cardinality(s.rts) < MaxRts, c) :
                       mayRts \in R, c \in EventChoices}
    <3>1. \A ok, c : Steady(s, Timeout(s, Oldest(s), ok, c))
      BY <2>1, RepairSteady
    <3>2. \A t \in T : Steady(s, t)
      BY <3>1
    <3>3. Becomes(T)
      BY <2>6 DEF Expire
    <3> HIDE DEF T
    <3> QED
      BY <2>2, <3>2, <3>3
  <2>7. ASSUME NEW a \in acks, ReceiveAck(a) PROVE ~s'.recovery
    <3> DEFINE T == {Ack(s, a, c) : c \in EventChoices}
    <3>1. Report(a)
      BY <2>7 DEF ReceiveAck, FlowInv, Messages, Acks, Report
    <3>2. (\A t \in T : Steady(s, t)) /\ Becomes(T)
      BY <2>7, <3>1, AckSteady DEF ReceiveAck, FlowInv
    <3> HIDE DEF T
    <3> QED
      BY <2>2, <3>2
  <2>8. ASSUME NEW a \in acks, ReceiveNack(a) PROVE ~s'.recovery
    <3> DEFINE T == {Nack(s, a.seq, c) : c \in EventChoices}
    <3>1. (\A t \in T : Steady(s, t)) /\ Becomes(T)
      BY <2>1, <2>8, RepairSteady DEF ReceiveNack
    <3> HIDE DEF T
    <3> QED
      BY <2>2, <3>1
  <2>9. CASE ToSink \/ Network \/ UNCHANGED vars
    BY <2>9 DEF ToSink, ReceiveData, ReceiveRts, ReceiveTrimmed, Network, Drop, Trim,
                DropAck, vars
  <2> QED
    BY <2>3, <2>4, <2>5, <2>6, <2>7, <2>8, <2>9 DEF Next, ToSrc
<1> QED
  BY <1>1, <1>2, FlowInvariant, PTL DEF Spec

(* Without fast loss recovery a flow that is not finished has something    *)
(* ahead that will make it go on, as long as its source is in the port's   *)
(* queue whenever it takes itself to be.                                   *)
THEOREM NeverStuckHolds ==
  ASSUME ~FastRecovery
  PROVE  Spec => [](BlockedMeansQueued => NeverStuck)
<1>1. FlowInv /\ TransferInv /\ StuckHasCause /\ ~s.recovery
        => (BlockedMeansQueued => NeverStuck)
  BY DEF TransferInv, Ready, PortOK, StuckHasCause, BlockedMeansQueued, NeverStuck
<1> QED
  BY <1>1, StuckHasCauseHolds, RecoveryNever, TransferInvariant, PTL

=============================================================================
