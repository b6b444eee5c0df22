---------------------------- MODULE UecFlowProofs ----------------------------
(***************************************************************************)
(* Theorems about UecFlow, for every size of flow, window, packet and      *)
(* SACK bitmap and every number of losses.                                 *)
(***************************************************************************)
EXTENDS UecFlow, UecSenderProofs

(* The inductive invariant: the sender's books are in order between two    *)
(* events, and everything that travels has its type.                       *)
FlowInv ==
  /\ Books(s, {}) /\ s.out = {}
  /\ k \in Sink
  /\ Messages
  /\ losses \in 0 .. MaxLoss
  /\ early \in 0 .. MaxEarly

-----------------------------------------------------------------------------
(* The sink.                                                               *)

Replies(r) == r.sink \in Sink /\ \A a \in r.replies : a \in IF a.kind = "nack" THEN Nacks ELSE Acks

(* An ACK has its type.                                                    *)
LEMMA SackType ==
  ASSUME NEW x \in Sink, NEW ref
  PROVE  Sack(x, ref) \in Acks
<1>1. x.expected \in Nat /\ x.recvd \in Nat /\ x.got \in SUBSET Seqs
  BY DEF Sink
<1>2. Cardinality(x.got) \in Nat
  BY <1>1, SeqsFinite
<1> QED
  BY <1>1, <1>2 DEF Sack, Acks

(* Some number above the expected one has not arrived, and everything      *)
(* before it has: no more than the out of order count arrived.             *)
LEMMA NextMissing ==
  ASSUME NEW x \in Sink
  PROVE  \E e \in x.expected + 1 .. x.expected + 1 + Cardinality(x.got) :
           e \notin x.got /\ (x.expected + 1 .. e - 1) \subseteq x.got
<1> DEFINE m == x.expected + 1
           n == Cardinality(x.got)
           I == m .. m + n
           J == I \ x.got
<1>1. IsFiniteSet(x.got) /\ n \in Nat /\ m \in Nat
  BY SeqsFinite DEF Sink
<1>2. Cardinality(I) = n + 1
  BY <1>1, FS_Interval
<1>3. J # {}
  <2> SUFFICES ASSUME I \subseteq x.got PROVE FALSE
    OBVIOUS
  <2>1. Cardinality(I) <= n
    BY <1>1, FS_Subset
  <2> QED
    BY <1>1, <1>2, <2>1
<1>4. J \in SUBSET Nat
  BY <1>1
<1>5. Min(J) \in J /\ \A y \in J : Min(J) <= y
  BY <1>3, <1>4, MinIn
<1>6. PICK e \in I : e \notin x.got /\ \A y \in I \ x.got : e <= y
  BY <1>5
<1>7. (m .. e - 1) \subseteq x.got
  BY <1>1, <1>6
<1> QED
  BY <1>6, <1>7

(* The expected number moves past what arrived.                            *)
LEMMA AdvanceType ==
  ASSUME NEW x \in Sink, NEW q \in Seqs
  PROVE  Advance(x, q) \in Sink
<1>1. x.expected \in Nat /\ x.got \in SUBSET Seqs /\ x.got \cup {q} \in SUBSET Seqs
  BY DEF Sink
<1>2. CASE q # x.expected
  <2> DEFINE g == x.got \cup {q}
  <2>1. Advance(x, q) = [x EXCEPT !.got = g]
    BY <1>2, Zenon DEF Advance
  <2> HIDE DEF g
  <2>2. g \in SUBSET Seqs
    BY <1>1 DEF g
  <2> QED
    BY <2>1, <2>2 DEF Sink
<1>3. CASE q = x.expected
  <2> DEFINE m == x.expected + 1
             n == Cardinality(x.got)
             I == m .. m + n
             Good(e) == e \notin x.got /\ (m .. e - 1) \subseteq x.got
  <2>1. m \in Nat /\ n \in Nat
    BY <1>1, SeqsFinite
  <2>2. \E e \in I : Good(e)
    BY NextMissing
  <2> DEFINE e == CHOOSE e \in I : Good(e)
             g == {p \in x.got : p > e}
  <2>3. e \in Nat
    BY <2>1, <2>2
  <2>4. Advance(x, q) = [x EXCEPT !.expected = e, !.got = g]
    BY <1>3, Zenon DEF Advance
  <2>5. g \in SUBSET Seqs
    BY <1>1
  <2> HIDE DEF e, g
  <2> QED
    BY <2>3, <2>4, <2>5 DEF Sink
<1> QED
  BY <1>2, <1>3

(* A handler's result, put together.                                       *)
LEMMA ReplyTypes ==
  ASSUME NEW x \in Sink, NEW A \in SUBSET (Acks \cup Nacks)
  PROVE  Replies(Result(x, A))
BY DEF Replies, Result, Acks, Nacks

(* A duplicate is answered by an ACK.                                      *)
LEMMA DuplicateType ==
  ASSUME NEW x \in Sink, NEW q, NEW ref
  PROVE  Replies(Duplicate(x, q, ref))
<1>1. [x EXCEPT !.accepted = 0] \in Sink
  BY DEF Sink
<1>2. {Sack(x, ref)} \in SUBSET (Acks \cup Nacks)
  BY SackType
<1> QED
  BY <1>1, <1>2, ReplyTypes DEF Duplicate

(* processData() leaves a sink and sends ACKs.                             *)
LEMMA ProcessDataType ==
  ASSUME NEW x \in Sink, NEW pkt \in Packet, NEW size \in Nat, NEW ecn \in BOOLEAN
  PROVE  Replies(ProcessData(x, pkt, size, ecn))
<1> DEFINE q  == pkt.seq
           ac == x.accepted + size
           rv == x.recvd + size
           pl == x.payload \/ size > Hdr
           ar == x.ackRequest \/ pkt.ar
           y  == [x EXCEPT !.accepted = ac, !.recvd = rv, !.payload = pl, !.ackRequest = ar]
           heard == Advance(y, q)
           drained == q = x.expected /\ heard.got = {} /\ heard.ackRequest
           after == IF drained THEN [heard EXCEPT !.ackRequest = FALSE] ELSE heard
           ref   == IF ecn \/ pkt.ar THEN q ELSE SackBase(after, q)
           d     == Duplicate(x, q, IF ecn THEN q ELSE SackBase(x, q))
<1>1. q \in Seqs /\ ac \in Nat /\ rv \in Nat /\ pl \in BOOLEAN /\ ar \in BOOLEAN
  BY DEF Packet, Sink
<1>2. \/ ProcessData(x, pkt, size, ecn) = d
      \/ ProcessData(x, pkt, size, ecn)
           = Result([after EXCEPT !.accepted = 0], {Sack(after, ref)})
      \/ ProcessData(x, pkt, size, ecn) = Result(after, {})
  BY Zenon DEF ProcessData
<1> HIDE DEF q, ac, rv, pl, ar
<1>3. y \in Sink
  BY <1>1 DEF Sink
<1> HIDE DEF y
<1>4. heard \in Sink
  BY <1>1, <1>3, AdvanceType
<1> HIDE DEF heard
<1>5. after \in Sink
  BY <1>4 DEF Sink
<1> HIDE DEF after, ref
<1>6. [after EXCEPT !.accepted = 0] \in Sink
  BY <1>5 DEF Sink
<1>7. {Sack(after, ref)} \in SUBSET (Acks \cup Nacks) /\ {} \in SUBSET (Acks \cup Nacks)
  BY <1>5, SackType
<1>8. Replies(d)
  BY DuplicateType
<1> QED
  BY <1>2, <1>5, <1>6, <1>7, <1>8, ReplyTypes

(* processRts() leaves a sink and sends ACKs.                              *)
LEMMA ProcessRtsType ==
  ASSUME NEW x \in Sink, NEW pkt \in Packet
  PROVE  Replies(ProcessRts(x, pkt))
<1> DEFINE q     == pkt.seq
           heard == Advance(x, q)
           after == IF q = x.expected /\ heard.got = {}
                    THEN [heard EXCEPT !.ackRequest = FALSE] ELSE heard
           d     == Duplicate(x, q, SackBase(x, q))
<1>1. heard \in Sink
  BY AdvanceType DEF Packet
<1>2. \/ ProcessRts(x, pkt) = d
      \/ ProcessRts(x, pkt) = Result(after, {Sack(after, q)})
  BY Zenon DEF ProcessRts
<1> HIDE DEF heard
<1>3. after \in Sink
  BY <1>1 DEF Sink
<1> HIDE DEF after
<1>4. {Sack(after, q)} \in SUBSET (Acks \cup Nacks)
  BY <1>3, SackType
<1>5. Replies(d)
  BY DuplicateType
<1> QED
  BY <1>2, <1>3, <1>4, <1>5, ReplyTypes

(* processTrimmed() leaves a sink and sends an ACK or a NACK.              *)
LEMMA ProcessTrimmedType ==
  ASSUME NEW x \in Sink, NEW q \in Seqs
  PROVE  Replies(ProcessTrimmed(x, [seq |-> q]))
<1>1. {Sack(x, SackBase(x, q))} \in SUBSET (Acks \cup Nacks)
  BY SackType
<1>2. {[kind |-> "nack", seq |-> q]} \in SUBSET (Acks \cup Nacks)
  BY DEF Nacks
<1> QED
  BY <1>1, <1>2, ReplyTypes DEF ProcessTrimmed

-----------------------------------------------------------------------------
(* The invariant.                                                          *)

(* Bags of packets stay bags of packets.                                   *)
LEMMA BagTypes ==
  ASSUME NEW B, NEW C, BagToSet(B) \subseteq Packet, BagToSet(C) \subseteq Packet,
         B \in [BagToSet(B) -> Nat \ {0}], C \in [BagToSet(C) -> Nat \ {0}]
  PROVE  /\ B (+) C \in [BagToSet(B (+) C) -> Nat \ {0}] /\ BagToSet(B (+) C) \subseteq Packet
         /\ B (-) C \in [BagToSet(B (-) C) -> Nat \ {0}] /\ BagToSet(B (-) C) \subseteq Packet
<1>1. B (+) C \in [BagToSet(B (+) C) -> Nat \ {0}] /\ BagToSet(B (+) C) \subseteq Packet
  BY DEF (+), BagToSet
<1>2. B (-) C \in [BagToSet(B (-) C) -> Nat \ {0}] /\ BagToSet(B (-) C) \subseteq Packet
  BY DEF (-), BagToSet
<1> QED
  BY <1>1, <1>2

(* A set of packets is a bag of packets.                                   *)
LEMMA SetBagType ==
  ASSUME NEW A \in SUBSET Packet
  PROVE  SetToBag(A) \in [BagToSet(SetToBag(A)) -> Nat \ {0}] /\ BagToSet(SetToBag(A)) \subseteq Packet
BY DEF SetToBag, BagToSet

(* The invariant holds at first.                                           *)
LEMMA InitInv == Init => FlowInv
<1> SUFFICES ASSUME Init PROVE FlowInv
  OBVIOUS
<1>1. s = FreshSender
  BY DEF Init
<1>2. /\ s.tx = {} /\ s.rtx = {} /\ s.rts = {} /\ s.tag = [q \in Seqs |-> "none"]
      /\ s.before = {} /\ s.timer = NoTimer /\ s.inFlight = 0 /\ s.safe = 0
      /\ s.random = 0 /\ s.backlog = 0 /\ s.next = 0 /\ s.started = FALSE /\ s.out = {}
  BY <1>1 DEF FreshSender
<1>3. s \in Sender
  <2>1. "none" \in Tags /\ 0 \in 0 .. Pkts
    BY SenderAssumption DEF Tags
  <2> QED
    BY <1>1, <2>1 DEF FreshSender, Sender
<1>4. Books(s, {})
  <2>1. Cardinality({}) = 0 /\ MaxRts \in Nat
    BY FS_EmptySet, SenderAssumption
  <2>2. Numbered(s)
    BY <1>2, <2>1 DEF Numbered
  <2>3. Filed(s) /\ Timed(s, {})
    BY <1>2 DEF Filed, Timed, Oldest
  <2>4. Exact(s)
    <3>1. Tagged(s, s.tx, "safe") = {} /\ Tagged(s, s.tx, "random") = {}
      BY <1>2 DEF Tagged
    <3>2. Bytes(s, {}) = 0
      <4>1. {} \ s.rts = {} /\ {} \cap s.rts = {}
        OBVIOUS
      <4> QED
        BY <2>1, <4>1, SenderAssumption DEF Bytes
    <3> QED
      BY <1>2, <3>1, <3>2 DEF Exact, Charged
  <2>5. Balanced(s)
    BY <1>2 DEF Balanced
  <2> QED
    BY <1>3, <2>2, <2>3, <2>4, <2>5 DEF Books
<1>5. k \in Sink
  BY DEF Init, FreshSink, Sink
<1>6. Messages
  BY DEF Init, Messages, EmptyBag, SetToBag, BagToSet
<1> QED
  BY <1>2, <1>4, <1>5, <1>6, FlowAssumption DEF FlowInv, Init

(* What the sender's events leave: good books, and packets on the wire.    *)
LEMMA BecomesInv ==
  ASSUME FlowInv, NEW T, Becomes(T), \A t \in T : Books(t, {})
  PROVE  /\ Books(s', {}) /\ s'.out = {}
         /\ wire' \in [BagToSet(wire') -> Nat \ {0}] /\ BagToSet(wire') \subseteq Packet
<1>1. PICK t \in T : s' = [t EXCEPT !.out = {}] /\ wire' = wire (+) SetToBag(t.out)
  BY DEF Becomes
<1>2. Books(t, {}) /\ t \in Sender
  BY <1>1 DEF Books
<1>3. Books(s', {})
  BY <1>1, <1>2, PortBooks DEF Carries
<1>4. s'.out = {}
  BY <1>1, <1>2 DEF Sender
<1>5. t.out \in SUBSET Packet
  BY <1>2 DEF Sender
<1>6. wire \in [BagToSet(wire) -> Nat \ {0}] /\ BagToSet(wire) \subseteq Packet
  BY DEF FlowInv, Messages
<1> QED
  BY <1>1, <1>3, <1>4, <1>5, <1>6, SetBagType, BagTypes

(* A packet leaves the wire.                                               *)
LEMMA TakeFromWire ==
  ASSUME FlowInv, NEW p \in BagToSet(wire)
  PROVE  /\ p \in Packet
         /\ wire (-) SetToBag({p}) \in [BagToSet(wire (-) SetToBag({p})) -> Nat \ {0}]
         /\ BagToSet(wire (-) SetToBag({p})) \subseteq Packet
<1>1. wire \in [BagToSet(wire) -> Nat \ {0}] /\ BagToSet(wire) \subseteq Packet
  BY DEF FlowInv, Messages
<1>2. {p} \in SUBSET Packet
  BY <1>1
<1> QED
  BY <1>1, <1>2, SetBagType, BagTypes

(* Every event keeps the invariant.                                        *)
LEMMA NextInv == FlowInv /\ [Next]_vars => FlowInv'
<1> SUFFICES ASSUME FlowInv, [Next]_vars PROVE FlowInv'
  OBVIOUS
<1> USE DEF FlowInv
<1>1. CASE UNCHANGED vars
  BY <1>1 DEF vars, Messages, BagToSet
<1>2. CASE Start
  <2>1. \A c \in EventChoices : Books(StartFlow(s, c), {})
    BY <1>2, StartFlowBooks DEF Start
  <2>2. \A t \in {StartFlow(s, c) : c \in EventChoices} : Books(t, {})
    BY <2>1
  <2>3. Becomes({StartFlow(s, c) : c \in EventChoices})
    BY <1>2 DEF Start
  <2> QED
    BY <1>2, <2>2, <2>3, BecomesInv DEF Start, Messages
<1>3. CASE NicDone
  <2> DEFINE T == {PortFree(s, control, c) : control \in BOOLEAN, c \in EventChoices}
  <2>1. \A t \in T : Books(t, {})
    BY PortFreeBooks
  <2>2. Becomes(T)
    BY <1>3 DEF NicDone
  <2> HIDE DEF T
  <2> QED
    BY <1>3, <2>1, <2>2, BecomesInv DEF NicDone, Messages
<1>4. CASE NicOther
  <2> DEFINE T == {[s EXCEPT !.busy = TRUE]}
  <2>1. \A t \in T : Books(t, {})
    BY PortBooks DEF Carries
  <2>2. Becomes(T)
    BY <1>4 DEF NicOther
  <2> HIDE DEF T
  <2> QED
    BY <1>4, <2>1, <2>2, BecomesInv DEF NicOther, Messages
<1>5. CASE Expire
  <2> DEFINE R == {r \in BOOLEAN : s.rts = {} => r}
             T == {Timeout(s, Oldest(s), mayRts /\ Cardinality(s.rts) < MaxRts, c) :
                     mayRts \in R, c \in EventChoices}
  <2>1. Oldest(s) \in s.tx
    <3>1. s.tx # {}
      BY <1>5 DEF Expire, Books, Timed, Oldest
    <3> QED
      BY <3>1, OldestIn DEF Books
  <2>2. \A t \in T : Books(t, {})
    <3> TAKE t \in T
    <3>1. PICK mayRts \in R, c \in EventChoices :
            t = Timeout(s, Oldest(s), mayRts /\ Cardinality(s.rts) < MaxRts, c)
      OBVIOUS
    <3> DEFINE ok == mayRts /\ Cardinality(s.rts) < MaxRts
    <3>2. ok => Cardinality(s.rts) < MaxRts
      OBVIOUS
    <3> HIDE DEF ok
    <3>3. Books(Timeout(s, Oldest(s), ok, c), {})
      BY <2>1, <3>2, TimeoutBooks
    <3> QED
      BY <3>1, <3>3 DEF ok
  <2>3. Becomes(T)
    BY <1>5 DEF Expire
  <2>4. early' \in 0 .. MaxEarly
    <3>1. early \in 0 .. MaxEarly /\ MaxEarly \in Nat
      BY FlowAssumption
    <3>2. early' = early \/ (early < MaxEarly /\ early' = early + 1)
      BY <1>5 DEF Expire
    <3> QED
      BY <3>1, <3>2
  <2> HIDE DEF T
  <2> QED
    BY <1>5, <2>2, <2>3, <2>4, BecomesInv DEF Expire, Messages
<1>6. ASSUME NEW a \in acks, ReceiveAck(a) PROVE FlowInv'
  <2> DEFINE T == {Ack(s, a, c) : c \in EventChoices}
  <2>1. Report(a)
    BY <1>6 DEF ReceiveAck, Messages, Acks, Report
  <2>2. \A t \in T : Books(t, {})
    BY <2>1, AckBooks
  <2>3. Becomes(T)
    BY <1>6 DEF ReceiveAck
  <2> HIDE DEF T
  <2>4. \A b \in acks' : b \in IF b.kind = "nack" THEN Nacks ELSE Acks
    BY <1>6 DEF ReceiveAck, Messages
  <2> QED
    BY <1>6, <2>2, <2>3, <2>4, BecomesInv DEF ReceiveAck, Messages
<1>7. ASSUME NEW a \in acks, ReceiveNack(a) PROVE FlowInv'
  <2> DEFINE T == {Nack(s, a.seq, c) : c \in EventChoices}
  <2>1. \A t \in T : Books(t, {})
    BY NackBooks
  <2>2. Becomes(T)
    BY <1>7 DEF ReceiveNack
  <2> HIDE DEF T
  <2>3. \A b \in acks' : b \in IF b.kind = "nack" THEN Nacks ELSE Acks
    BY <1>7 DEF ReceiveNack, Messages
  <2> QED
    BY <1>7, <2>1, <2>2, <2>3, BecomesInv DEF ReceiveNack, Messages
<1>8. ASSUME NEW r, Replies(r), Arrives(r)
      PROVE  k' \in Sink /\ \A a \in acks' : a \in IF a.kind = "nack" THEN Nacks ELSE Acks
  BY <1>8 DEF Arrives, Replies, Messages
<1>9. ASSUME NEW p \in BagToSet(wire), ReceiveData(p) PROVE FlowInv'
  <2>1. Size(s, p.seq) \in Nat
    BY SenderAssumption DEF Size
  <2>2. PICK ecn \in BOOLEAN : Arrives(ProcessData(k, p, Size(s, p.seq), ecn))
    BY <1>9 DEF ReceiveData
  <2>3. Replies(ProcessData(k, p, Size(s, p.seq), ecn))
    BY <2>1, TakeFromWire, ProcessDataType
  <2>4. k' \in Sink /\ \A a \in acks' : a \in IF a.kind = "nack" THEN Nacks ELSE Acks
    BY <1>8, <2>2, <2>3
  <2> QED
    BY <1>9, <2>4, TakeFromWire DEF ReceiveData, Messages
<1>10. ASSUME NEW p \in BagToSet(wire), ReceiveRts(p) PROVE FlowInv'
  <2>1. Replies(ProcessRts(k, p)) /\ Arrives(ProcessRts(k, p))
    BY <1>10, TakeFromWire, ProcessRtsType DEF ReceiveRts
  <2>2. k' \in Sink /\ \A a \in acks' : a \in IF a.kind = "nack" THEN Nacks ELSE Acks
    BY <1>8, <2>1
  <2> QED
    BY <1>10, <2>2, TakeFromWire DEF ReceiveRts, Messages
<1>11. ASSUME NEW q \in trimmed, ReceiveTrimmed(q) PROVE FlowInv'
  <2>1. q \in Seqs
    BY DEF Messages
  <2>2. Replies(ProcessTrimmed(k, [seq |-> q])) /\ Arrives(ProcessTrimmed(k, [seq |-> q]))
    BY <1>11, <2>1, ProcessTrimmedType DEF ReceiveTrimmed
  <2>3. k' \in Sink /\ \A a \in acks' : a \in IF a.kind = "nack" THEN Nacks ELSE Acks
    BY <1>8, <2>2
  <2> QED
    BY <1>11, <2>3 DEF ReceiveTrimmed, Messages
<1>12. ASSUME Lossy PROVE losses' \in 0 .. MaxLoss
  <2>1. losses \in 0 .. MaxLoss /\ MaxLoss \in Nat
    BY FlowAssumption
  <2> QED
    BY <1>12, <2>1 DEF Lossy
<1>13. ASSUME NEW p \in BagToSet(wire), Drop(p) PROVE FlowInv'
  BY <1>12, <1>13, TakeFromWire DEF Drop, Messages
<1>14. ASSUME NEW p \in BagToSet(wire), Trim(p) PROVE FlowInv'
  <2>1. p.seq \in Seqs
    BY TakeFromWire DEF Packet
  <2> QED
    BY <1>12, <1>14, <2>1, TakeFromWire DEF Trim, Messages
<1>15. ASSUME NEW a \in acks, DropAck(a) PROVE FlowInv'
  BY <1>12, <1>15 DEF DropAck, Messages
<1> QED
  BY <1>1, <1>2, <1>3, <1>4, <1>5, <1>6, <1>7, <1>9, <1>10, <1>11, <1>13, <1>14, <1>15
     DEF Next, ToSink, ToSrc, Network

(* The sender's books are in order in every reachable state.               *)
THEOREM FlowInvariant == Spec => []FlowInv
<1>1. Init => FlowInv
  BY InitInv
<1>2. FlowInv /\ [Next]_vars => FlowInv'
  BY NextInv
<1> QED
  BY <1>1, <1>2, PTL DEF Spec

(* Every variable, packet and message keeps its type.                      *)
THEOREM TypeCorrect == Spec => []TypeOK
<1>1. FlowInv => TypeOK
  BY DEF FlowInv, TypeOK, Books
<1> QED
  BY <1>1, FlowInvariant, PTL

(* A sequence number is outstanding, waits for retransmission, or neither:  *)
(* _tx_bitmap and _rtx_queue never share one, and _send_times orders        *)
(* exactly the outstanding ones.                                            *)
THEOREM OneHomeHolds == Spec => []OneHome
<1>1. FlowInv => OneHome
  <2> SUFFICES ASSUME FlowInv PROVE OneHome
    OBVIOUS
  <2>1. Filed(s) /\ Numbered(s)
    BY DEF FlowInv, Books
  <2>2. s.tx \cap s.rtx = {} /\ s.before \subseteq s.tx \X s.tx
    BY <2>1 DEF Filed
  <2>3. s.tx \cup s.rtx \subseteq Sent
    BY <2>1 DEF Numbered, Sent
  <2>4. ASSUME NEW p \in s.tx, NEW q \in s.tx, p # q
        PROVE  <<p, q>> \in s.before <=> <<q, p>> \notin s.before
    BY <2>1, <2>4 DEF Filed
  <2> QED
    BY <2>2, <2>3, <2>4 DEF OneHome
<1> QED
  BY <1>1, FlowInvariant, PTL

(* The timer is armed for the packet sent first, whenever one is            *)
(* outstanding: recalculateRTO() runs on every path that erases its record. *)
THEOREM TimerHolds == Spec => []TimerCoversOldest
<1>1. FlowInv => TimerCoversOldest
  BY DEF FlowInv, Books, Timed, TimerCoversOldest
<1> QED
  BY <1>1, FlowInvariant, PTL

(* Each window of a dual-window flow counts the bytes of the outstanding    *)
(* packets that were charged to it.                                         *)
THEOREM WindowsExactHolds == Spec => []WindowsExact
<1>1. FlowInv => WindowsExact
  BY DEF FlowInv, Books, Exact, Charged, WindowsExact
<1> QED
  BY <1>1, FlowInvariant, PTL

(* assertDualWindowInvariant() never fails, unless the flow is an elephant  *)
(* whose path nextEntropy_ecmp() chooses.                                   *)
THEOREM DualWindowHolds ==
  ASSUME ~Elephant
  PROVE  Spec => []DualWindowInvariant
<1>1. FlowInv => DualWindowInvariant
  BY DEF FlowInv, Books, Balanced, DualWindowInvariant
<1> QED
  BY <1>1, FlowInvariant, PTL
=============================================================================
