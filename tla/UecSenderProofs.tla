--------------------------- MODULE UecSenderProofs ---------------------------
(***************************************************************************)
(* Proofs about UecSender, for every flow size, window and packet size:    *)
(* each operator keeps the sender's books in order.                        *)
(*                                                                         *)
(* Books(t, S) is the invariant of the sender while the timer may still    *)
(* point at a record of S that was erased: the code recomputes the timer   *)
(* last, after sends that run inside ACK, NACK and timeout.  Between two   *)
(* events S is empty.                                                      *)
(***************************************************************************)
EXTENDS UecSender, FiniteSetTheorems, WellFoundedInduction, TLAPS

(* Sequence numbers are used in order: a packet of the flow or an RTS each. *)
Numbered(t) ==
  /\ t.next + t.backlog = (IF t.started THEN Pkts ELSE 0) + Cardinality(t.rts)
  /\ t.backlog <= (IF t.started THEN Pkts ELSE 0)
  /\ Cardinality(t.rts) <= MaxRts
  /\ t.rts \cup t.tx \cup t.rtx \subseteq 0 .. t.next - 1

(* A packet has one home, and send times order the records of _tx_bitmap.   *)
Filed(t) ==
  /\ t.tx \cap t.rtx = {}
  /\ t.before \subseteq t.tx \X t.tx
  /\ \A p \in t.tx : <<p, p>> \notin t.before
  /\ \A p, q \in t.tx : p # q => <<p, q>> \in t.before \/ <<q, p>> \in t.before
  /\ \A p, q, r \in t.tx :
       <<p, q>> \in t.before /\ <<q, r>> \in t.before => <<p, r>> \in t.before

Timed(t, S) == t.timer \in S \/ t.timer = Oldest(t)

Charged(t, w) == Bytes(t, Tagged(t, t.tx, w))

(* Each window counts its outstanding packets; together they count all.     *)
Exact(t) == t.safe = Charged(t, "safe") /\ t.random = Charged(t, "random")

Balanced(t) == Dual /\ ~Elephant => t.inFlight = t.safe + t.random

Books(t, S) ==
  t \in Sender /\ Numbered(t) /\ Filed(t) /\ Timed(t, S) /\ Exact(t) /\ Balanced(t)

-----------------------------------------------------------------------------
(* Least and greatest elements; bytes of disjoint sets add up.             *)

(* A non-empty set of naturals has a least element, which Min returns.     *)
LEMMA MinIn ==
  ASSUME NEW S \in SUBSET Nat, S # {}
  PROVE  Min(S) \in S /\ \A y \in S : Min(S) <= y
<1>1. PICK x \in S : \A y \in S : <<y, x>> \notin OpToRel(<, Nat)
  BY NatLessThanWellFounded, WFMin
<1>2. \A y \in S : x <= y
  <2> SUFFICES ASSUME NEW y \in S, y < x PROVE FALSE
    OBVIOUS
  <2>1. <<y, x>> \in Nat \X Nat
    OBVIOUS
  <2>2. <<y, x>> \in {ss \in Nat \X Nat : ss[1] < ss[2]}
    BY <2>1
  <2> QED
    BY <1>1, <2>2 DEF OpToRel
<1> QED
  BY <1>2 DEF Min

(* A non-empty bounded set of naturals has a greatest element.             *)
LEMMA MaxIn ==
  ASSUME NEW S \in SUBSET Nat, S # {}, NEW n \in Nat, \A y \in S : y <= n
  PROVE  Max(S) \in S /\ \A y \in S : Max(S) >= y
<1> DEFINE U == {m \in Nat : \A y \in S : y <= m}
<1>1. U \in SUBSET Nat /\ U # {}
  OBVIOUS
<1>2. PICK u \in U : \A m \in U : u <= m
  BY <1>1, MinIn
<1>3. u \in S
  <2> SUFFICES ASSUME u \notin S PROVE FALSE
    OBVIOUS
  <2>1. \A y \in S : y < u
    OBVIOUS
  <2>2. PICK z \in S : z \in Nat /\ z < u
    BY <2>1
  <2>4. u - 1 \in Nat
    BY <2>2
  <2>3. \A y \in S : y <= u - 1
    BY <2>1
  <2> QED
    BY <1>2, <2>3, <2>4
<1> QED
  BY <1>2, <1>3 DEF Max

(* Sets of sequence numbers are finite.                                    *)
LEMMA SeqsFinite ==
  ASSUME NEW S \in SUBSET Seqs
  PROVE  IsFiniteSet(S) /\ Cardinality(S) \in Nat
<1>1. IsFiniteSet(Seqs)
  BY FS_Interval, SenderAssumption DEF Seqs
<1> QED
  BY <1>1, FS_Subset, FS_CardinalityType

(* Bytes are counted in naturals.                                          *)
LEMMA BytesType ==
  ASSUME NEW t \in Sender, NEW S \in SUBSET Seqs
  PROVE  Bytes(t, S) \in Nat
<1>1. S \ t.rts \in SUBSET Seqs /\ S \cap t.rts \in SUBSET Seqs
  OBVIOUS
<1>2. Cardinality(S \ t.rts) \in Nat /\ Cardinality(S \cap t.rts) \in Nat
  BY <1>1, SeqsFinite
<1> QED
  BY <1>2, SenderAssumption DEF Bytes

(* Bytes of disjoint sets of packets add up.                               *)
LEMMA BytesUnion ==
  ASSUME NEW t \in Sender, NEW S \in SUBSET Seqs, NEW T \in SUBSET Seqs,
         S \cap T = {}
  PROVE  Bytes(t, S \cup T) = Bytes(t, S) + Bytes(t, T)
<1>1. \A A, B \in SUBSET Seqs :
        A \cap B = {} => Cardinality(A \cup B) = Cardinality(A) + Cardinality(B)
  <2> TAKE A, B \in SUBSET Seqs
  <2> HAVE A \cap B = {}
  <2>1. Cardinality(A \cap B) = 0
    BY FS_EmptySet
  <2>2. /\ IsFiniteSet(A) /\ Cardinality(A) \in Nat
        /\ IsFiniteSet(B) /\ Cardinality(B) \in Nat
    BY SeqsFinite
  <2>3. Cardinality(A \cup B) = Cardinality(A) + Cardinality(B) - Cardinality(A \cap B)
    BY <2>2, FS_Union
  <2> QED
    BY <2>1, <2>2, <2>3
<1>2. Cardinality((S \cup T) \ t.rts) = Cardinality(S \ t.rts) + Cardinality(T \ t.rts)
  <2>1. (S \cup T) \ t.rts = (S \ t.rts) \cup (T \ t.rts)
    OBVIOUS
  <2> QED
    BY <1>1, <2>1
<1>3. Cardinality((S \cup T) \cap t.rts)
        = Cardinality(S \cap t.rts) + Cardinality(T \cap t.rts)
  <2>1. (S \cup T) \cap t.rts = (S \cap t.rts) \cup (T \cap t.rts)
    OBVIOUS
  <2> QED
    BY <1>1, <2>1
<1>4. /\ Cardinality(S \ t.rts) \in Nat /\ Cardinality(T \ t.rts) \in Nat
      /\ Cardinality(S \cap t.rts) \in Nat /\ Cardinality(T \cap t.rts) \in Nat
  BY SeqsFinite
<1> QED
  BY <1>2, <1>3, <1>4, SenderAssumption DEF Bytes

(* Bytes of what is left when a part goes.                                 *)
LEMMA BytesMinus ==
  ASSUME NEW t \in Sender, NEW S \in SUBSET Seqs, NEW T \in SUBSET S
  PROVE  Bytes(t, S \ T) = Bytes(t, S) - Bytes(t, T)
<1>1. S = (S \ T) \cup T /\ (S \ T) \cap T = {}
  OBVIOUS
<1>2. Bytes(t, S) = Bytes(t, S \ T) + Bytes(t, T)
  BY <1>1, BytesUnion
<1> QED
  BY <1>2, BytesType

(* The bytes of one packet.                                                *)
LEMMA BytesOne ==
  ASSUME NEW t \in Sender, NEW q \in Seqs
  PROVE  Bytes(t, {q}) = Size(t, q) /\ Bytes(t, {}) = 0
<1>1. Cardinality({}) = 0 /\ Cardinality({q}) = 1
  BY FS_EmptySet, FS_Singleton
<1>2. /\ Mtu * 0 + Hdr * 0 = 0
      /\ Mtu * 0 + Hdr * 1 = Hdr
      /\ Mtu * 1 + Hdr * 0 = Mtu
  BY SenderAssumption
<1>3. Bytes(t, {}) = 0
  <2>1. {} \ t.rts = {} /\ {} \cap t.rts = {}
    OBVIOUS
  <2> QED
    BY <1>1, <1>2, <2>1 DEF Bytes
<1>4. CASE q \in t.rts
  <2>1. {q} \ t.rts = {} /\ {q} \cap t.rts = {q}
    BY <1>4
  <2>2. Bytes(t, {q}) = Hdr
    BY <1>1, <1>2, <2>1 DEF Bytes
  <2> QED
    BY <1>3, <1>4, <2>2 DEF Size
<1>5. CASE q \notin t.rts
  <2>1. {q} \ t.rts = {q} /\ {q} \cap t.rts = {}
    BY <1>5
  <2>2. Bytes(t, {q}) = Mtu
    BY <1>1, <1>2, <2>1 DEF Bytes
  <2> QED
    BY <1>3, <1>5, <2>2 DEF Size
<1> QED
  BY <1>4, <1>5
-----------------------------------------------------------------------------
(* The oldest record, and what adding a record or erasing some does.       *)

(* Send times have a unique first record, which Oldest returns.            *)
LEMMA OldestIn ==
  ASSUME NEW t \in Sender, Filed(t), t.tx # {}
  PROVE  /\ Oldest(t) \in t.tx
         /\ \A p \in t.tx : <<p, Oldest(t)>> \notin t.before
         /\ \A q \in t.tx : (\A p \in t.tx : <<p, q>> \notin t.before) => q = Oldest(t)
<1> DEFINE Older(q) == {p \in t.tx : <<p, q>> \in t.before}
<1> DEFINE R == {Cardinality(Older(q)) : q \in t.tx}
<1>1. \A q : Older(q) \in SUBSET Seqs
  BY DEF Sender
<1>2. R \in SUBSET Nat /\ R # {}
  BY <1>1, SeqsFinite
<1>3. PICK m \in t.tx : \A q \in t.tx : Cardinality(Older(m)) <= Cardinality(Older(q))
  <2>1. Min(R) \in R /\ \A y \in R : Min(R) <= y
    BY <1>2, MinIn
  <2> QED
    BY <2>1
<1>4. \A p \in t.tx : <<p, m>> \notin t.before
  <2> SUFFICES ASSUME NEW p \in t.tx, <<p, m>> \in t.before PROVE FALSE
    OBVIOUS
  <2>1. Older(p) \in SUBSET Older(m) /\ p \in Older(m) /\ p \notin Older(p)
    BY DEF Filed
  <2>2. IsFiniteSet(Older(m)) /\ Cardinality(Older(m)) \in Nat /\ Cardinality(Older(p)) \in Nat
    BY <1>1, SeqsFinite
  <2>3. Cardinality(Older(p)) <= Cardinality(Older(m)) /\ Cardinality(Older(p)) # Cardinality(Older(m))
    BY <2>1, <2>2, FS_Subset
  <2>4. Cardinality(Older(m)) <= Cardinality(Older(p))
    BY <1>3
  <2> QED
    BY <2>2, <2>3, <2>4
<1>5. Oldest(t) \in t.tx /\ \A p \in t.tx : <<p, Oldest(t)>> \notin t.before
  BY <1>4 DEF Oldest
<1> QED
  BY <1>5 DEF Filed

SameBooks(t, u) ==
  /\ u.tx = t.tx /\ u.rtx = t.rtx /\ u.rts = t.rts /\ u.tag = t.tag
  /\ u.before = t.before /\ u.timer = t.timer
  /\ u.inFlight = t.inFlight /\ u.safe = t.safe /\ u.random = t.random
  /\ u.backlog = t.backlog /\ u.next = t.next /\ u.started = t.started

(* Only the fields of SameBooks matter to the books.                       *)
LEMMA FrameBooks ==
  ASSUME NEW t, NEW u \in Sender, NEW S, SameBooks(t, u), Books(t, S)
  PROVE  Books(u, S)
<1>1. Numbered(u)
  BY DEF Books, Numbered, SameBooks
<1>2. Filed(u)
  BY DEF Books, Filed, SameBooks
<1>3. Timed(u, S)
  BY DEF Books, Timed, Oldest, SameBooks
<1>4. Exact(u)
  BY DEF Books, Exact, Charged, Bytes, Tagged, SameBooks
<1>5. Balanced(u)
  BY DEF Books, Balanced, SameBooks
<1> QED
  BY <1>1, <1>2, <1>3, <1>4, <1>5 DEF Books

(* What AddRecord changes, field by field.                                 *)
Recorded(t, r, q, w) ==
  /\ r \in Sender
  /\ r.tx = t.tx \cup {q} /\ r.before = t.before \cup (t.tx \X {q})
  /\ r.tag = [t.tag EXCEPT ![q] = w]
  /\ r.timer = IF t.timer = NoTimer THEN q ELSE t.timer
  /\ r.safe = IF w = "safe" THEN t.safe + Size(t, q) ELSE t.safe
  /\ r.random = IF w = "random" THEN t.random + Size(t, q) ELSE t.random
  /\ r.rtx = t.rtx /\ r.rts = t.rts /\ r.inFlight = t.inFlight
  /\ r.backlog = t.backlog /\ r.next = t.next /\ r.started = t.started
  /\ r.busy = t.busy /\ r.queued = t.queued /\ r.ctrl = t.ctrl
  /\ r.recovery = t.recovery /\ r.blocked = t.blocked

(* What sending a packet records.                                          *)
LEMMA AddRecordFields ==
  ASSUME NEW t \in Sender, NEW q \in Seqs, NEW w \in Tags
  PROVE  Recorded(t, AddRecord(t, q, w), q, w)
<1> DEFINE r == AddRecord(t, q, w)
<1>1. Size(t, q) \in Nat
  BY SenderAssumption DEF Size
<1>2. [t.tag EXCEPT ![q] = w] \in [Seqs -> Tags]
  BY DEF Sender
<1>3. t.tx \cup {q} \in SUBSET Seqs /\ t.before \cup (t.tx \X {q}) \in SUBSET (Seqs \X Seqs)
  BY DEF Sender
<1>4. r = [t EXCEPT !.tx     = t.tx \cup {q},
                    !.before = t.before \cup (t.tx \X {q}),
                    !.tag    = [t.tag EXCEPT ![q] = w],
                    !.safe   = IF w = "safe" THEN t.safe + Size(t, q) ELSE t.safe,
                    !.random = IF w = "random" THEN t.random + Size(t, q) ELSE t.random,
                    !.timer  = IF t.timer = NoTimer THEN q ELSE t.timer]
  BY Zenon DEF AddRecord, Sender
<1> DEFINE g  == [t.tag EXCEPT ![q] = w]
           sz == Size(t, q)
           b  == t.before \cup (t.tx \X {q})
           sf == IF w = "safe" THEN t.safe + sz ELSE t.safe
           rd == IF w = "random" THEN t.random + sz ELSE t.random
           tm == IF t.timer = NoTimer THEN q ELSE t.timer
<1>5. /\ g \in [Seqs -> Tags] /\ b \in SUBSET (Seqs \X Seqs)
      /\ sf \in Int /\ rd \in Int /\ tm \in Seqs \cup {NoTimer}
  BY <1>1, <1>2, <1>3 DEF Sender
<1>6. r = [t EXCEPT !.tx = t.tx \cup {q}, !.before = b, !.tag = g,
                    !.safe = sf, !.random = rd, !.timer = tm]
  BY <1>4
<1> HIDE DEF g, sz, r, b, sf, rd, tm
<1>7. r \in Sender
  BY <1>3, <1>5, <1>6 DEF Sender
<1>8. /\ r.tx = t.tx \cup {q} /\ r.before = b /\ r.tag = g
      /\ r.timer = tm /\ r.safe = sf /\ r.random = rd
      /\ r.rtx = t.rtx /\ r.rts = t.rts /\ r.inFlight = t.inFlight
      /\ r.backlog = t.backlog /\ r.next = t.next /\ r.started = t.started
      /\ r.busy = t.busy /\ r.queued = t.queued /\ r.ctrl = t.ctrl
      /\ r.recovery = t.recovery /\ r.blocked = t.blocked
  BY <1>6 DEF Sender
<1> QED
  BY <1>7, <1>8 DEF Recorded, g, sz, r, b, sf, rd, tm

(* A packet that is neither outstanding nor queued can be recorded.        *)
LEMMA AddRecordBooks ==
  ASSUME NEW t \in Sender, NEW S \in SUBSET Seqs, NEW q \in Seqs, NEW w \in Tags,
         Filed(t), Timed(t, S), Exact(t), q \notin t.tx \cup t.rtx
  PROVE  LET r == AddRecord(t, q, w) IN Filed(r) /\ Timed(r, S) /\ Exact(r)
<1> DEFINE r == AddRecord(t, q, w)
<1>1. /\ r \in Sender
      /\ r.tx = t.tx \cup {q} /\ r.before = t.before \cup (t.tx \X {q})
      /\ r.tag = [t.tag EXCEPT ![q] = w]
      /\ r.timer = IF t.timer = NoTimer THEN q ELSE t.timer
      /\ r.safe = IF w = "safe" THEN t.safe + Size(t, q) ELSE t.safe
      /\ r.random = IF w = "random" THEN t.random + Size(t, q) ELSE t.random
      /\ r.rtx = t.rtx /\ r.rts = t.rts
  BY AddRecordFields DEF Recorded
<1> HIDE DEF r
<1>2. Filed(r)
  <2>1. r.tx \cap r.rtx = {} /\ r.before \subseteq r.tx \X r.tx
    BY <1>1 DEF Filed
  <2>2. \A p \in r.tx : <<p, p>> \notin r.before
    BY <1>1 DEF Filed
  <2>3. \A p, p2 \in r.tx : p # p2 => <<p, p2>> \in r.before \/ <<p2, p>> \in r.before
    BY <1>1 DEF Filed
  <2>4. \A p, p2, p3 \in r.tx :
          <<p, p2>> \in r.before /\ <<p2, p3>> \in r.before => <<p, p3>> \in r.before
    BY <1>1 DEF Filed
  <2> QED
    BY <2>1, <2>2, <2>3, <2>4 DEF Filed
<1>3. Timed(r, S)
  <2>1. \A p \in Seqs : p # NoTimer
    BY DEF Seqs, NoTimer
  <2>2. CASE t.timer \in S
    BY <1>1, <2>1, <2>2 DEF Timed
  <2>3. CASE t.timer = Oldest(t) /\ t.tx = {}
    <3>1. r.timer = q /\ r.tx = {q}
      BY <1>1, <2>3 DEF Oldest
    <3>2. Oldest(r) = q
      BY <1>1, <1>2, <3>1, OldestIn
    <3> QED
      BY <3>1, <3>2 DEF Timed
  <2>4. CASE t.timer = Oldest(t) /\ t.tx # {}
    <3>1. /\ t.timer \in t.tx
          /\ \A p \in t.tx : <<p, t.timer>> \notin t.before
      BY <2>4, OldestIn
    <3>2. r.timer = t.timer /\ t.timer \in r.tx
      BY <1>1, <2>1, <3>1 DEF Sender
    <3>3. \A p \in r.tx : <<p, t.timer>> \notin r.before
      BY <1>1, <3>1 DEF Filed
    <3>4. t.timer = Oldest(r)
      BY <1>1, <1>2, <3>2, <3>3, OldestIn
    <3> QED
      BY <3>2, <3>4 DEF Timed
  <2> QED
    BY <2>2, <2>3, <2>4 DEF Timed
<1>4. ASSUME NEW v \in {"safe", "random"}
      PROVE  Charged(r, v) = IF v = w THEN Charged(t, v) + Size(t, q) ELSE Charged(t, v)
  <2>1. t.tx \subseteq Seqs /\ t.tag \in [Seqs -> Tags]
    BY DEF Sender
  <2>2. \A A : Bytes(r, A) = Bytes(t, A)
    BY <1>1 DEF Bytes
  <2>3. CASE v = w
    <3>1. Tagged(r, r.tx, v) = Tagged(t, t.tx, v) \cup {q}
      BY <1>1, <2>1, <2>3 DEF Tagged
    <3>2. Tagged(t, t.tx, v) \cap {q} = {} /\ Tagged(t, t.tx, v) \in SUBSET Seqs
      BY <2>1 DEF Tagged
    <3>3. Bytes(t, Tagged(t, t.tx, v) \cup {q}) = Bytes(t, Tagged(t, t.tx, v)) + Bytes(t, {q})
      BY <3>2, BytesUnion
    <3> QED
      BY <2>2, <2>3, <3>1, <3>3, BytesOne DEF Charged
  <2>4. CASE v # w
    <3>1. Tagged(r, r.tx, v) = Tagged(t, t.tx, v)
      BY <1>1, <2>1, <2>4 DEF Tagged
    <3> QED
      BY <2>2, <2>4, <3>1 DEF Charged
  <2> QED
    BY <2>3, <2>4
<1>5. Exact(r)
  BY <1>1, <1>4 DEF Exact
<1> QED
  BY <1>2, <1>3, <1>5 DEF r

(* The window tag that a choice of an event names.                         *)
GoodTag(w) == w \in Tags /\ (Dual => w \in {"safe", "random"})

(* The choices an event makes have their types.                            *)
LEMMA ChoiceTypes ==
  ASSUME NEW c \in EventChoices
  PROVE  /\ c.safe \in Nat /\ c.random \in Nat
         /\ GoodTag(c.pred) /\ GoodTag(c.next)
<1>1. CASE Dual
  BY <1>1, SenderAssumption DEF EventChoices, GoodTag, Tags
<1>2. CASE ~Dual
  <2>1. c \in [safe : Cwnds, random : {0}, pred : {"none"}, next : {"none"}]
    BY <1>2 DEF EventChoices
  <2>2. c.safe \in Cwnds /\ c.random = 0 /\ c.pred = "none" /\ c.next = "none"
    BY <2>1
  <2>3. c.safe \in Nat
    BY <2>2, SenderAssumption
  <2>4. GoodTag("none")
    BY <1>2 DEF GoodTag, Tags
  <2> QED
    BY <2>2, <2>3, <2>4
<1> QED
  BY <1>1, <1>2

(* While data is left, its next sequence number is within bounds.          *)
LEMMA NextInSeqs ==
  ASSUME NEW t \in Sender, Numbered(t), t.backlog > 0 \/ Cardinality(t.rts) < MaxRts
  PROVE  t.next \in Seqs
<1>1. t.rts \in SUBSET Seqs /\ t.next \in Nat /\ t.backlog \in 0 .. Pkts
  BY DEF Sender
<1>2. Cardinality(t.rts) \in Nat
  BY <1>1, SeqsFinite
<1>3. CASE t.started
  BY <1>1, <1>2, <1>3, SenderAssumption DEF Numbered, Seqs
<1>4. CASE ~t.started
  BY <1>1, <1>2, <1>4, SenderAssumption DEF Numbered, Seqs
<1> QED
  BY <1>3, <1>4

(* Sending new data keeps the books, and starts no transmission by itself. *)
LEMMA NewPacketBooks ==
  ASSUME NEW t, NEW S \in SUBSET Seqs, NEW w, NEW c \in EventChoices,
         Books(t, S), t.backlog > 0, GoodTag(w)
  PROVE  /\ Books(NewPacket(t, w, c), S)
         /\ NewPacket(t, w, c).queued = t.queued
         /\ NewPacket(t, w, c).rts = t.rts
         /\ NewPacket(t, w, c).ctrl = t.ctrl
<1> DEFINE v == DrawnTag(w)
           p == [seq |-> t.next, kind |-> "data", ar |-> WantsAck(t, v, c)]
           b == [t EXCEPT !.backlog = t.backlog - 1, !.inFlight = t.inFlight + Mtu,
                          !.next = t.next + 1, !.out = t.out \cup {p}]
           r == AddRecord(b, t.next, v)
<1>1. t \in Sender /\ Numbered(t) /\ Filed(t) /\ Timed(t, S) /\ Exact(t) /\ Balanced(t)
  BY DEF Books
<1>2. t.next \in Seqs /\ t.next \in Nat /\ t.backlog - 1 \in 0 .. Pkts
      /\ t.inFlight + Mtu \in Int /\ v \in Tags
  BY <1>1, NextInSeqs, SenderAssumption DEF Sender, DrawnTag, GoodTag, Tags
<1>3. p \in Packet
  BY <1>2, SenderAssumption DEF Packet, WantsAck, Full
<1>4. t.out \cup {p} \in SUBSET Packet
  BY <1>1, <1>3 DEF Sender
<1>5. NewPacket(t, w, c) = r
  BY Zenon DEF NewPacket
<1> DEFINE o  == t.out \cup {p}
           bl == t.backlog - 1
           fl == t.inFlight + Mtu
           nx == t.next + 1
<1>6. b = [t EXCEPT !.backlog = bl, !.inFlight = fl, !.next = nx, !.out = o]
  OBVIOUS
<1>7. o \in SUBSET Packet /\ bl \in 0 .. Pkts /\ fl \in Int /\ nx \in Nat
  BY <1>2, <1>4
<1> HIDE DEF p, o, bl, fl, nx, v, b
<1>8. b \in Sender
  BY <1>1, <1>2, <1>6, <1>7 DEF Sender
<1>9. /\ b.tx = t.tx /\ b.rtx = t.rtx /\ b.rts = t.rts /\ b.tag = t.tag
      /\ b.before = t.before /\ b.timer = t.timer
      /\ b.inFlight = t.inFlight + Mtu /\ b.safe = t.safe /\ b.random = t.random
      /\ b.backlog = t.backlog - 1 /\ b.next = t.next + 1 /\ b.started = t.started
      /\ b.queued = t.queued /\ b.ctrl = t.ctrl
  BY <1>1, <1>6 DEF Sender, bl, fl, nx
<1>10. Filed(b) /\ Timed(b, S) /\ Exact(b) /\ t.next \notin b.tx \cup b.rtx \cup b.rts
  <2>1. Filed(b)
    BY <1>1, <1>9 DEF Filed
  <2>2. Timed(b, S)
    BY <1>1, <1>9 DEF Timed, Oldest
  <2>3. Exact(b)
    BY <1>1, <1>9 DEF Exact, Charged, Bytes, Tagged
  <2>4. t.next \notin 0 .. t.next - 1
    BY <1>2
  <2>5. t.next \notin b.tx \cup b.rtx \cup b.rts
    BY <1>1, <1>9, <2>4 DEF Numbered
  <2> QED
    BY <2>1, <2>2, <2>3, <2>5
<1>11. Filed(r) /\ Timed(r, S) /\ Exact(r)
  BY <1>2, <1>8, <1>10, AddRecordBooks
<1>12. /\ r \in Sender
       /\ r.tx = b.tx \cup {t.next}
       /\ r.safe = IF v = "safe" THEN b.safe + Mtu ELSE b.safe
       /\ r.random = IF v = "random" THEN b.random + Mtu ELSE b.random
       /\ r.rtx = b.rtx /\ r.rts = b.rts /\ r.inFlight = b.inFlight
       /\ r.backlog = b.backlog /\ r.next = b.next /\ r.started = b.started
       /\ r.queued = b.queued /\ r.ctrl = b.ctrl
  <2>1. Size(b, t.next) = Mtu
    BY <1>10 DEF Size
  <2>0. Recorded(b, r, t.next, v)
    BY <1>2, <1>8, AddRecordFields
  <2>2. /\ r \in Sender
        /\ r.tx = b.tx \cup {t.next}
        /\ r.safe = IF v = "safe" THEN b.safe + Size(b, t.next) ELSE b.safe
        /\ r.random = IF v = "random" THEN b.random + Size(b, t.next) ELSE b.random
        /\ r.rtx = b.rtx /\ r.rts = b.rts /\ r.inFlight = b.inFlight
        /\ r.backlog = b.backlog /\ r.next = b.next /\ r.started = b.started
        /\ r.queued = b.queued /\ r.ctrl = b.ctrl
    BY <2>0 DEF Recorded
  <2> QED
    BY <2>1, <2>2
<1> HIDE DEF r
<1>13. Numbered(r)
  <2>1. r.rts \cup r.tx \cup r.rtx \subseteq 0 .. r.next - 1
    BY <1>1, <1>2, <1>9, <1>12 DEF Numbered
  <2>2. t.next \in Nat /\ t.backlog \in 0 .. Pkts /\ Cardinality(t.rts) \in Nat
    BY <1>1, SeqsFinite DEF Sender
  <2>3. CASE t.started
    BY <1>1, <1>9, <1>12, <2>1, <2>2, <2>3, SenderAssumption DEF Numbered
  <2>4. CASE ~t.started
    BY <1>1, <1>9, <1>12, <2>1, <2>2, <2>4 DEF Numbered
  <2> QED
    BY <2>3, <2>4
<1>14. Balanced(r)
  <2> SUFFICES ASSUME Dual, ~Elephant PROVE r.inFlight = r.safe + r.random
    BY DEF Balanced
  <2>1. v = "safe" \/ v = "random"
    BY DEF v, DrawnTag, GoodTag
  <2>2. t.safe \in Int /\ t.random \in Int /\ t.inFlight = t.safe + t.random /\ Mtu \in Int
    BY <1>1, SenderAssumption DEF Balanced, Sender
  <2> QED
    BY <1>9, <1>12, <2>1, <2>2
<1> QED
  BY <1>5, <1>9, <1>11, <1>12, <1>13, <1>14 DEF Books

(* A flow's window tags of one record: none is charged, or exactly one.    *)
LEMMA CountedBytes ==
  ASSUME NEW t \in Sender, NEW A \in SUBSET Seqs
  PROVE  /\ Counted(t, A) \in SUBSET Seqs /\ Bytes(t, Counted(t, A)) \in Nat
         /\ \A w : Tagged(t, A, w) \in SUBSET Seqs /\ Bytes(t, Tagged(t, A, w)) \in Nat
         /\ Dual => Bytes(t, Counted(t, A))
                      = Bytes(t, Tagged(t, A, "safe")) + Bytes(t, Tagged(t, A, "random"))
<1>1. /\ Counted(t, A) \in SUBSET Seqs
      /\ \A w : Tagged(t, A, w) \in SUBSET Seqs
  BY DEF Counted, Tagged
<1>2. /\ Bytes(t, Counted(t, A)) \in Nat
      /\ \A w : Bytes(t, Tagged(t, A, w)) \in Nat
  BY <1>1, BytesType
<1>3. ASSUME Dual
      PROVE  Bytes(t, Counted(t, A))
               = Bytes(t, Tagged(t, A, "safe")) + Bytes(t, Tagged(t, A, "random"))
  <2>1. t.tag \in [Seqs -> Tags]
    BY DEF Sender
  <2>2. \A q \in A : t.tag[q] = "none" \/ t.tag[q] = "safe" \/ t.tag[q] = "random"
    BY <2>1 DEF Tags
  <2>3. Counted(t, A) = Tagged(t, A, "safe") \cup Tagged(t, A, "random")
    BY <1>3, <2>2 DEF Counted, Tagged
  <2>4. Tagged(t, A, "safe") \cap Tagged(t, A, "random") = {}
    BY DEF Tagged
  <2> QED
    BY <1>1, <2>3, <2>4, BytesUnion
<1> QED
  BY <1>1, <1>2, <1>3

(* Sending the first packet of the rtx queue keeps the books.              *)
LEMMA RtxPacketBooks ==
  ASSUME NEW t, NEW S \in SUBSET Seqs, Books(t, S), t.rtx # {}
  PROVE  /\ Books(RtxPacket(t), S)
         /\ RtxPacket(t).queued = t.queued
         /\ RtxPacket(t).rts = t.rts
         /\ RtxPacket(t).ctrl = t.ctrl
<1> DEFINE q  == Min(t.rtx)
           v  == t.tag[q]
           p  == [seq |-> q, kind |-> "data", ar |-> TRUE]
           rx == t.rtx \ {q}
           fl == t.inFlight + Bytes(t, Counted(t, {q}))
           o  == t.out \cup {p}
           b  == [t EXCEPT !.rtx = rx, !.inFlight = fl, !.out = o]
           r  == AddRecord(b, q, v)
<1>1. t \in Sender /\ Numbered(t) /\ Filed(t) /\ Timed(t, S) /\ Exact(t) /\ Balanced(t)
  BY DEF Books
<1>2. q \in t.rtx /\ q \in Seqs /\ q \notin t.tx
  <2>1. t.rtx \in SUBSET Seqs /\ Seqs \subseteq Nat
    BY <1>1 DEF Sender, Seqs
  <2>2. q \in t.rtx
    BY <2>1, MinIn
  <2> QED
    BY <1>1, <2>1, <2>2 DEF Filed
<1>3. v \in Tags /\ p \in Packet
  BY <1>1, <1>2 DEF Sender, Packet
<1>4. RtxPacket(t) = r
  BY Zenon DEF RtxPacket
<1> DEFINE d == Bytes(t, Counted(t, {q}))
<1>5. d \in Nat /\ (Dual => d = IF v = "none" THEN 0 ELSE Size(t, q))
  <2>1. d \in Nat
    BY <1>1, <1>2, CountedBytes
  <2>2. ASSUME Dual PROVE d = IF v = "none" THEN 0 ELSE Size(t, q)
    <3>1. CASE v = "none"
      <4>1. Counted(t, {q}) = {}
        BY <2>2, <3>1 DEF Counted, Tagged
      <4> QED
        BY <1>1, <1>2, <3>1, <4>1, BytesOne
    <3>2. CASE v # "none"
      <4>1. Counted(t, {q}) = {q}
        BY <2>2, <3>2 DEF Counted, Tagged
      <4> QED
        BY <1>1, <1>2, <3>2, <4>1, BytesOne
    <3> QED
      BY <3>1, <3>2
  <2> QED
    BY <2>1, <2>2
<1>6. rx \in SUBSET Seqs /\ fl \in Int /\ o \in SUBSET Packet
  <2>1. rx \in SUBSET Seqs /\ o \in SUBSET Packet /\ t.inFlight \in Int
    BY <1>1, <1>3 DEF Sender
  <2> HIDE DEF d
  <2>2. t.inFlight + d \in Int
    BY <1>5, <2>1
  <2> QED
    BY <2>1, <2>2 DEF d
<1> HIDE DEF q, v, p, rx, fl, o, b
<1>7. b \in Sender
  BY <1>1, <1>6 DEF Sender, b
<1>8. /\ b.tx = t.tx /\ b.rtx = rx /\ b.rts = t.rts /\ b.tag = t.tag
      /\ b.before = t.before /\ b.timer = t.timer
      /\ b.inFlight = fl /\ b.safe = t.safe /\ b.random = t.random
      /\ b.backlog = t.backlog /\ b.next = t.next /\ b.started = t.started
      /\ b.queued = t.queued /\ b.ctrl = t.ctrl
  BY <1>1 DEF Sender, b
<1>9. Filed(b) /\ Timed(b, S) /\ Exact(b) /\ q \notin b.tx \cup b.rtx
  <2>1. Filed(b)
    BY <1>1, <1>8 DEF Filed, rx
  <2>2. Timed(b, S)
    BY <1>1, <1>8 DEF Timed, Oldest
  <2>3. Exact(b)
    BY <1>1, <1>8 DEF Exact, Charged, Bytes, Tagged
  <2> QED
    BY <1>2, <1>8, <2>1, <2>2, <2>3 DEF rx
<1>10. Filed(r) /\ Timed(r, S) /\ Exact(r)
  BY <1>2, <1>3, <1>7, <1>9, AddRecordBooks
<1>11. Recorded(b, r, q, v)
  BY <1>2, <1>3, <1>7, AddRecordFields
<1>12. Size(b, q) = Size(t, q)
  BY <1>8 DEF Size
<1> HIDE DEF r
<1>13. /\ r \in Sender
       /\ r.tx = t.tx \cup {q} /\ r.rtx = rx /\ r.rts = t.rts
       /\ r.inFlight = fl
       /\ r.safe = IF v = "safe" THEN t.safe + Size(t, q) ELSE t.safe
       /\ r.random = IF v = "random" THEN t.random + Size(t, q) ELSE t.random
       /\ r.backlog = t.backlog /\ r.next = t.next /\ r.started = t.started
       /\ r.queued = t.queued /\ r.ctrl = t.ctrl
  BY <1>8, <1>11, <1>12 DEF Recorded
<1>14. Numbered(r)
  BY <1>1, <1>2, <1>13 DEF Numbered, rx
<1>15. Balanced(r)
  <2> SUFFICES ASSUME Dual, ~Elephant PROVE r.inFlight = r.safe + r.random
    BY DEF Balanced
  <2>1. v = "none" \/ v = "safe" \/ v = "random"
    BY <1>3 DEF Tags
  <2>2. t.safe \in Int /\ t.random \in Int /\ t.inFlight = t.safe + t.random
        /\ Size(t, q) \in Nat
    BY <1>1, SenderAssumption DEF Balanced, Sender, Size
  <2>3. fl = t.inFlight + (IF v = "none" THEN 0 ELSE Size(t, q))
    BY <1>5 DEF fl
  <2> QED
    BY <1>13, <2>1, <2>2, <2>3
<1> QED
  BY <1>4, <1>10, <1>13, <1>14, <1>15 DEF Books

-----------------------------------------------------------------------------
(* The NIC's answers and the sends inside other events.                    *)

(* The books of t hold in u too, and u has sent no RTS since t.            *)
Carries(t, u, S) == Books(u, S) /\ u.rts = t.rts

(* Sending a new data packet keeps the books.                              *)
LEMMA SendPacketBooks ==
  ASSUME NEW t, NEW S \in SUBSET Seqs, NEW w, NEW c \in EventChoices,
         Books(t, S), HasWork(t), GoodTag(w)
  PROVE  Carries(t, SendPacket(t, w, c), S)
<1>1. CASE t.rtx = {}
  BY <1>1, NewPacketBooks DEF Carries, SendPacket, HasWork
<1>2. CASE t.rtx # {}
  BY <1>2, RtxPacketBooks DEF Carries, SendPacket
<1> QED
  BY <1>1, <1>2

(* Queueing with the NIC, taking its port and giving it up move no packet. *)
LEMMA PortBooks ==
  ASSUME NEW t, NEW S, Books(t, S)
  PROVE  /\ Carries(t, Enqueue(t), S) /\ Enqueue(t).busy = t.busy
         /\ Carries(t, StartSending(t), S) /\ StartSending(t).busy
         /\ Carries(t, [t EXCEPT !.queued = t.queued + 1], S)
         /\ Carries(t, [t EXCEPT !.queued = 0], S)
         /\ Carries(t, [t EXCEPT !.blocked = FALSE], S)
         /\ \A x \in BOOLEAN : Carries(t, [t EXCEPT !.busy = x], S)
         /\ Carries(t, [t EXCEPT !.out = {}], S)
<1>1. t \in Sender /\ t.queued \in Nat
  BY DEF Books, Sender
<1>2. Carries(t, Enqueue(t), S) /\ Enqueue(t).busy = t.busy
  <2> DEFINE n == t.queued + 1
             u == [t EXCEPT !.queued = n, !.blocked = TRUE]
  <2>1. Enqueue(t) = u /\ n \in Nat
    BY <1>1 DEF Enqueue
  <2> HIDE DEF n
  <2>2. u \in Sender /\ SameBooks(t, u) /\ u.busy = t.busy
    BY <1>1, <2>1 DEF Sender, SameBooks
  <2> HIDE DEF u
  <2> QED
    BY <2>1, <2>2, FrameBooks DEF Carries, SameBooks
<1>3. Carries(t, StartSending(t), S) /\ StartSending(t).busy
  <2> DEFINE n == IF t.queued > 0 THEN t.queued - 1 ELSE t.queued
             u == [t EXCEPT !.busy = TRUE, !.queued = n]
  <2>1. StartSending(t) = u
    BY Zenon DEF StartSending
  <2>2. n \in Nat
    BY <1>1
  <2> HIDE DEF n
  <2>3. u \in Sender /\ SameBooks(t, u) /\ u.busy = TRUE
    BY <1>1, <2>2 DEF Sender, SameBooks
  <2> HIDE DEF u
  <2> QED
    BY <2>1, <2>3, FrameBooks DEF Carries, SameBooks
<1>4. ASSUME NEW n \in Nat PROVE Carries(t, [t EXCEPT !.queued = n], S)
  <2> DEFINE u == [t EXCEPT !.queued = n]
  <2>1. u \in Sender /\ SameBooks(t, u)
    BY <1>1 DEF Sender, SameBooks
  <2> HIDE DEF u
  <2>2. Carries(t, u, S)
    BY <2>1, FrameBooks DEF Carries, SameBooks
  <2> QED
    BY <2>2 DEF u
<1>5. t.queued + 1 \in Nat
  BY <1>1
<1>6. ASSUME NEW x \in BOOLEAN
      PROVE  Carries(t, [t EXCEPT !.busy = x], S) /\ Carries(t, [t EXCEPT !.blocked = x], S)
  <2> DEFINE u == [t EXCEPT !.busy = x]
             v == [t EXCEPT !.blocked = x]
  <2>1. u \in Sender /\ SameBooks(t, u)
    BY <1>1 DEF Sender, SameBooks
  <2>2. v \in Sender /\ SameBooks(t, v)
    BY <1>1 DEF Sender, SameBooks
  <2> HIDE DEF u, v
  <2>3. Carries(t, u, S) /\ Carries(t, v, S)
    BY <2>1, <2>2, FrameBooks DEF Carries, SameBooks
  <2> QED
    BY <2>3 DEF u, v
<1>7. Carries(t, [t EXCEPT !.out = {}], S)
  <2> DEFINE u == [t EXCEPT !.out = {}]
  <2>1. u \in Sender /\ SameBooks(t, u)
    BY <1>1 DEF Sender, SameBooks
  <2> HIDE DEF u
  <2>2. Carries(t, u, S)
    BY <2>1, FrameBooks DEF Carries, SameBooks
  <2> QED
    BY <2>2 DEF u
<1>8. Carries(t, [t EXCEPT !.blocked = FALSE], S)
  BY <1>6
<1>9. Carries(t, [t EXCEPT !.queued = t.queued + 1], S) /\ Carries(t, [t EXCEPT !.queued = 0], S)
  BY <1>4, <1>5
<1> QED
  BY <1>2, <1>3, <1>6, <1>7, <1>8, <1>9

(* An RTS that leaves the port keeps the books.                            *)
LEMMA SendControlBooks ==
  ASSUME NEW t, NEW S, Books(t, S), t.ctrl # {}
  PROVE  Carries(t, SendControl(t), S)
<1> DEFINE q == Min(t.ctrl)
           p == [seq |-> q, kind |-> "rts", ar |-> TRUE]
           k == t.ctrl \ {q}
           o == t.out \cup {p}
           u == [t EXCEPT !.busy = TRUE, !.ctrl = k, !.out = o]
<1>1. t \in Sender
  BY DEF Books
<1>2. q \in Seqs
  <2>1. t.ctrl \in SUBSET Seqs /\ Seqs \subseteq Nat
    BY <1>1 DEF Sender, Seqs
  <2> QED
    BY <2>1, MinIn
<1>3. p \in Packet
  BY <1>2 DEF Packet
<1>4. k \in SUBSET Seqs /\ o \in SUBSET Packet
  BY <1>1, <1>3 DEF Sender
<1>5. SendControl(t) = u
  BY Zenon DEF SendControl
<1> HIDE DEF q, p, k, o
<1>6. u \in Sender /\ SameBooks(t, u)
  BY <1>1, <1>4 DEF Sender, SameBooks
<1> HIDE DEF u
<1> QED
  BY <1>5, <1>6, FrameBooks DEF Carries, SameBooks

(* A send of new data or of a retransmission, or the queue, or nothing.    *)
LEMMA SendIfPermittedBooks ==
  ASSUME NEW t, NEW S \in SUBSET Seqs, NEW c \in EventChoices, Books(t, S)
  PROVE  /\ Carries(t, SendIfPermitted(t, c), S)
         /\ SendIfPermitted(t, c).busy \/ SendIfPermitted(t, c).rtx = t.rtx
<1> DEFINE u    == SendIfPermitted(t, c)
           x    == SendPacket(t, c.pred, c)
           sent == StartSending(x)
<1>1. GoodTag(c.pred)
  BY ChoiceTypes
<1>2. CASE ~Permitted(t, c.pred, c) \/ ~HasWork(t) \/ t.blocked
  <2>1. u = t
    BY <1>2 DEF SendIfPermitted
  <2> QED
    BY <2>1 DEF Carries
<1>3. CASE HasWork(t) /\ t.busy /\ u = Enqueue(t)
  BY <1>3, PortBooks
<1>4. CASE HasWork(t) /\ (u = sent \/ u = Enqueue(sent))
  <2>1. Carries(t, x, S)
    BY <1>1, <1>4, SendPacketBooks
  <2> HIDE DEF x
  <2>2. Carries(x, sent, S) /\ sent.busy
    BY <2>1, PortBooks DEF Carries
  <2> HIDE DEF sent
  <2>3. Carries(sent, Enqueue(sent), S) /\ Enqueue(sent).busy = sent.busy
    BY <2>2, PortBooks DEF Carries
  <2>4. Carries(t, u, S) /\ u.busy
    BY <1>4, <2>1, <2>2, <2>3 DEF Carries
  <2> QED
    BY <2>4
<1>5. \/ ~Permitted(t, c.pred, c) \/ ~HasWork(t) \/ t.blocked
      \/ HasWork(t) /\ t.busy /\ u = Enqueue(t)
      \/ HasWork(t) /\ (u = sent \/ u = Enqueue(sent))
  BY DEF SendIfPermitted
<1> QED
  BY <1>2, <1>3, <1>4, <1>5

-----------------------------------------------------------------------------
(* Records are erased: acknowledged, lost or timed out.                    *)

(* u is t without the records of A and without their bytes; the packets of *)
(* A may have joined the rtx queue, and packets may have left it.          *)
Lifted(t, u, A) ==
  /\ u \in Sender
  /\ u.tx = t.tx \ A
  /\ u.before = {p \in t.before : p[1] \notin A /\ p[2] \notin A}
  /\ \A q \in u.tx : u.tag[q] = t.tag[q]
  /\ u.timer = t.timer \/ u.timer = Oldest(u)
  /\ u.safe = t.safe - Bytes(t, Tagged(t, A, "safe"))
  /\ u.random = t.random - Bytes(t, Tagged(t, A, "random"))
  /\ Dual => u.inFlight = t.inFlight - (Bytes(t, Tagged(t, A, "safe"))
                                        + Bytes(t, Tagged(t, A, "random")))
  /\ u.rtx \subseteq t.rtx \cup A
  /\ u.rts = t.rts /\ u.backlog = t.backlog /\ u.next = t.next /\ u.started = t.started

(* Books kept while the timer may point at a record that went.             *)
LEMMA LiftedBooks ==
  ASSUME NEW t, NEW A \in SUBSET t.tx, NEW u, Books(t, {}), Lifted(t, u, A)
  PROVE  Carries(t, u, A)
<1>1. /\ t \in Sender /\ Numbered(t) /\ Filed(t) /\ t.timer = Oldest(t)
      /\ Exact(t) /\ Balanced(t)
  BY DEF Books, Timed
<1>2. u \in Sender /\ A \in SUBSET Seqs /\ t.tx \in SUBSET Seqs /\ t.tag \in [Seqs -> Tags]
  BY <1>1 DEF Lifted, Sender
<1>3. Numbered(u)
  BY <1>1, <1>2 DEF Numbered, Lifted
<1>4. Filed(u)
  <2>1. u.tx \cap u.rtx = {} /\ u.before \subseteq u.tx \X u.tx
    BY <1>1 DEF Filed, Lifted
  <2>2. \A p \in u.tx : <<p, p>> \notin u.before
    BY <1>1 DEF Filed, Lifted
  <2>3. \A p, q \in u.tx : <<p, q>> \in u.before <=> <<p, q>> \in t.before
    BY DEF Lifted
  <2>4. u.tx \subseteq t.tx
    BY DEF Lifted
  <2> QED
    BY <1>1, <2>1, <2>2, <2>3, <2>4 DEF Filed
<1>5. Timed(u, A)
  <2>1. CASE u.timer = Oldest(u)
    BY <2>1 DEF Timed
  <2>2. CASE t.tx = {}
    BY <1>1, <2>2 DEF Lifted, Oldest, Timed
  <2>3. CASE t.tx # {} /\ u.timer = t.timer /\ t.timer \notin A
    <3>1. t.timer \in t.tx /\ \A p \in t.tx : <<p, t.timer>> \notin t.before
      BY <1>1, <2>3, OldestIn
    <3>2. u.timer \in u.tx /\ \A p \in u.tx : <<p, u.timer>> \notin u.before
      BY <2>3, <3>1 DEF Lifted
    <3>3. u.timer = Oldest(u)
      BY <1>2, <1>4, <3>2, OldestIn
    <3> QED
      BY <3>3 DEF Timed
  <2> QED
    BY <2>1, <2>2, <2>3 DEF Lifted, Timed
<1>6. ASSUME NEW v \in {"safe", "random"}
      PROVE  Charged(u, v) = Charged(t, v) - Bytes(t, Tagged(t, A, v))
  <2>1. Tagged(u, u.tx, v) = Tagged(t, t.tx, v) \ Tagged(t, A, v)
    BY <1>2 DEF Tagged, Lifted
  <2>2. Tagged(t, A, v) \in SUBSET Tagged(t, t.tx, v) /\ Tagged(t, t.tx, v) \in SUBSET Seqs
    BY <1>2 DEF Tagged
  <2>3. \A B : Bytes(u, B) = Bytes(t, B)
    BY DEF Bytes, Lifted
  <2> QED
    BY <1>1, <2>1, <2>2, <2>3, BytesMinus DEF Charged
<1>7. Exact(u)
  BY <1>1, <1>6 DEF Exact, Lifted
<1>8. Balanced(u)
  <2> SUFFICES ASSUME Dual, ~Elephant PROVE u.inFlight = u.safe + u.random
    BY DEF Balanced
  <2>1. /\ Bytes(t, Tagged(t, A, "safe")) \in Nat
        /\ Bytes(t, Tagged(t, A, "random")) \in Nat
    BY <1>1, <1>2, CountedBytes
  <2>2. t.safe \in Int /\ t.random \in Int /\ t.inFlight = t.safe + t.random
    BY <1>1 DEF Sender, Balanced
  <2> QED
    BY <2>1, <2>2 DEF Lifted
<1> QED
  BY <1>2, <1>3, <1>4, <1>5, <1>7, <1>8 DEF Carries, Books, Lifted

(* The records of A are gone from t; their bytes are not yet.              *)
Erased(t, e, A) ==
  /\ e \in Sender
  /\ e.tx = t.tx \ A
  /\ e.before = {p \in t.before : p[1] \notin A /\ p[2] \notin A}
  /\ e.timer = t.timer \/ e.timer = Oldest(e)
  /\ e.rtx = t.rtx /\ e.rts = t.rts /\ e.tag = t.tag /\ e.inFlight = t.inFlight
  /\ e.safe = t.safe /\ e.random = t.random
  /\ e.backlog = t.backlog /\ e.next = t.next /\ e.started = t.started
  /\ e.recovery = t.recovery /\ e.lossCount = t.lossCount
  /\ e.recvd = t.recvd /\ e.highRecv = t.highRecv

(* What erasing records changes.                                           *)
LEMMA EraseFields ==
  ASSUME NEW t \in Sender, NEW A \in SUBSET Seqs
  PROVE  Erased(t, Erase(t, A), A)
<1> DEFINE e  == Erase(t, A)
           bf == {p \in t.before : p[1] \notin A /\ p[2] \notin A}
           tx == t.tx \ A
<1>1. e = [t EXCEPT !.tx = tx, !.before = bf]
  BY Zenon DEF Erase
<1>2. tx \in SUBSET Seqs /\ bf \in SUBSET (Seqs \X Seqs)
  BY DEF Sender
<1> HIDE DEF e, bf, tx
<1>3. e \in Sender
  BY <1>1, <1>2 DEF Sender
<1>4. /\ e.tx = tx /\ e.before = bf /\ e.rtx = t.rtx /\ e.rts = t.rts /\ e.tag = t.tag
      /\ e.timer = t.timer /\ e.inFlight = t.inFlight /\ e.safe = t.safe
      /\ e.random = t.random /\ e.backlog = t.backlog /\ e.next = t.next
      /\ e.started = t.started /\ e.recovery = t.recovery
      /\ e.lossCount = t.lossCount /\ e.recvd = t.recvd /\ e.highRecv = t.highRecv
  BY <1>1 DEF Sender
<1> QED
  BY <1>3, <1>4 DEF Erased, e, bf, tx

(* Discharge completes what Erase began.                                   *)
LEMMA DischargeErased ==
  ASSUME NEW t \in Sender, NEW A \in SUBSET Seqs, NEW e, Erased(t, e, A)
  PROVE  /\ Lifted(t, Discharge(e, A), A)
         /\ Discharge(e, A).rtx = t.rtx
         /\ Discharge(e, A).timer = e.timer
         /\ Oldest(Discharge(e, A)) = Oldest(e)
<1> DEFINE u  == Discharge(e, A)
<1>1. e \in Sender
  BY DEF Erased
<1>2. /\ Bytes(e, Counted(e, A)) = Bytes(t, Counted(t, A))
      /\ \A w : Bytes(e, Tagged(e, A, w)) = Bytes(t, Tagged(t, A, w))
  BY DEF Bytes, Counted, Tagged, Erased
<1> DEFINE fl == e.inFlight - Bytes(e, Counted(e, A))
           sf == e.safe - Bytes(e, Tagged(e, A, "safe"))
           rd == e.random - Bytes(e, Tagged(e, A, "random"))
<1>3. u = [e EXCEPT !.inFlight = fl, !.safe = sf, !.random = rd]
  BY Zenon DEF Discharge
<1>4. fl \in Int /\ sf \in Int /\ rd \in Int
  <2>1. /\ Bytes(e, Counted(e, A)) \in Nat
        /\ Bytes(e, Tagged(e, A, "safe")) \in Nat
        /\ Bytes(e, Tagged(e, A, "random")) \in Nat
    BY <1>1, CountedBytes
  <2>2. e.inFlight \in Int /\ e.safe \in Int /\ e.random \in Int
    BY <1>1 DEF Sender
  <2> QED
    BY <2>1, <2>2
<1> HIDE DEF fl, sf, rd, u
<1>5. u \in Sender
  BY <1>1, <1>3, <1>4 DEF Sender
<1>6. /\ u.tx = e.tx /\ u.before = e.before /\ u.rtx = e.rtx /\ u.rts = e.rts
      /\ u.tag = e.tag /\ u.timer = e.timer /\ u.inFlight = fl /\ u.safe = sf
      /\ u.random = rd /\ u.backlog = e.backlog /\ u.next = e.next
      /\ u.started = e.started
  BY <1>1, <1>3 DEF Sender
<1>7. Dual => fl = t.inFlight - (Bytes(t, Tagged(t, A, "safe"))
                                 + Bytes(t, Tagged(t, A, "random")))
  BY <1>2, CountedBytes DEF fl, Erased
<1>8. sf = t.safe - Bytes(t, Tagged(t, A, "safe"))
      /\ rd = t.random - Bytes(t, Tagged(t, A, "random"))
  BY <1>2 DEF sf, rd, Erased
<1>9. Oldest(u) = Oldest(e)
  BY <1>6 DEF Oldest
<1>10. Lifted(t, u, A)
  BY <1>5, <1>6, <1>7, <1>8, <1>9 DEF Lifted, Erased
<1> QED
  BY <1>6, <1>9, <1>10 DEF u, Erased

(* recalculateRTO() puts the timer on the oldest record.                   *)
LEMMA RecalculateBooks ==
  ASSUME NEW t, NEW S \in SUBSET Seqs, Books(t, S)
  PROVE  /\ Carries(t, RecalculateRTO(t), {})
         /\ Carries(t, Rearm(t, S), {})
<1>1. t \in Sender /\ Filed(t)
  BY DEF Books
<1> DEFINE o == Oldest(t)
           u == [t EXCEPT !.timer = o]
<1>2. o \in Seqs \cup {NoTimer}
  <2>1. CASE t.tx = {}
    BY <2>1 DEF Oldest
  <2>2. CASE t.tx # {}
    BY <1>1, <2>2, OldestIn DEF Sender
  <2> QED
    BY <2>1, <2>2
<1>3. RecalculateRTO(t) = u
  BY Zenon DEF RecalculateRTO
<1> HIDE DEF o
<1>4. u \in Sender
  BY <1>1, <1>2 DEF Sender
<1>5. /\ u.tx = t.tx /\ u.rtx = t.rtx /\ u.rts = t.rts /\ u.tag = t.tag
      /\ u.before = t.before /\ u.timer = o
      /\ u.inFlight = t.inFlight /\ u.safe = t.safe /\ u.random = t.random
      /\ u.backlog = t.backlog /\ u.next = t.next /\ u.started = t.started
  BY <1>1 DEF Sender
<1> HIDE DEF u
<1>6. Numbered(u)
  BY <1>5 DEF Books, Numbered
<1>7. Filed(u)
  BY <1>5 DEF Books, Filed
<1>8. Timed(u, {})
  BY <1>5 DEF Timed, Oldest, o
<1>9. Exact(u)
  BY <1>5 DEF Books, Exact, Charged, Bytes, Tagged
<1>10. Balanced(u)
  BY <1>5 DEF Books, Balanced
<1>11. Carries(t, u, {})
  BY <1>4, <1>5, <1>6, <1>7, <1>8, <1>9, <1>10 DEF Carries, Books
<1>12. CASE t.timer \in S
  BY <1>3, <1>11, <1>12 DEF Rearm
<1>13. CASE t.timer \notin S
  <2>1. Books(t, {})
    BY <1>13 DEF Books, Timed
  <2> QED
    BY <1>3, <1>11, <1>13, <2>1 DEF Rearm, Carries
<1> QED
  BY <1>3, <1>11, <1>12, <1>13

(* Packets that are no longer outstanding may join the rtx queue.          *)
LEMMA ToQueueBooks ==
  ASSUME NEW t, NEW S \in SUBSET Seqs, NEW A \in SUBSET Seqs,
         Books(t, S), A \cap t.tx = {}, A \subseteq 0 .. t.next - 1
  PROVE  /\ Carries(t, [t EXCEPT !.rtx = t.rtx \cup A], S)
         /\ [t EXCEPT !.rtx = t.rtx \cup A].rtx = t.rtx \cup A
<1> DEFINE x == t.rtx \cup A
           u == [t EXCEPT !.rtx = x]
<1>1. t \in Sender
  BY DEF Books
<1>3. x \in SUBSET Seqs
  BY <1>1 DEF Sender
<1> HIDE DEF x
<1>4. u \in Sender
  BY <1>1, <1>3 DEF Sender
<1>5. /\ u.tx = t.tx /\ u.rtx = x /\ u.rts = t.rts /\ u.tag = t.tag
      /\ u.before = t.before /\ u.timer = t.timer
      /\ u.inFlight = t.inFlight /\ u.safe = t.safe /\ u.random = t.random
      /\ u.backlog = t.backlog /\ u.next = t.next /\ u.started = t.started
  BY <1>1 DEF Sender
<1> HIDE DEF u
<1>6. Numbered(u)
  BY <1>5 DEF Books, Numbered, x
<1>7. Filed(u)
  BY <1>5 DEF Books, Filed, x
<1>8. Timed(u, S)
  BY <1>5 DEF Books, Timed, Oldest
<1>9. Exact(u)
  BY <1>5 DEF Books, Exact, Charged, Bytes, Tagged
<1>10. Balanced(u)
  BY <1>5 DEF Books, Balanced
<1>11. Carries(t, u, S)
  BY <1>4, <1>5, <1>6, <1>7, <1>8, <1>9, <1>10 DEF Carries, Books
<1> QED
  BY <1>5, <1>11 DEF u, x

(* queueForRtx() takes packets that are no longer outstanding.             *)
LEMMA QueueForRtxBooks ==
  ASSUME NEW t, NEW S \in SUBSET Seqs, NEW A \in SUBSET Seqs, NEW c \in EventChoices,
         Books(t, S), A \cap t.tx = {}, A \subseteq 0 .. t.next - 1
  PROVE  /\ Carries(t, QueueForRtx(t, A, c), S)
         /\ QueueForRtx(t, A, c).busy \/ QueueForRtx(t, A, c).rtx = t.rtx \cup A
<1> DEFINE u == [t EXCEPT !.rtx = t.rtx \cup A]
<1>1. QueueForRtx(t, A, c) = SendIfPermitted(u, c)
  BY Zenon DEF QueueForRtx
<1>2. Carries(t, u, S) /\ u.rtx = t.rtx \cup A
  BY ToQueueBooks
<1> HIDE DEF u
<1>3. /\ Carries(u, SendIfPermitted(u, c), S)
      /\ SendIfPermitted(u, c).busy \/ SendIfPermitted(u, c).rtx = u.rtx
  BY <1>2, SendIfPermittedBooks DEF Carries
<1> QED
  BY <1>1, <1>2, <1>3 DEF Carries

-----------------------------------------------------------------------------
(* The events.                                                             *)

(* sendRTS(): the RTS takes the next sequence number and no window.        *)
LEMMA RtsBooks ==
  ASSUME NEW t, Books(t, {}), Cardinality(t.rts) < MaxRts
  PROVE  Books(Rts(t), {})
<1> DEFINE q  == t.next
           ra == t.rts \cup {q}
           nx == t.next + 1
           k  == t.ctrl \cup {q}
           b  == [t EXCEPT !.rts = ra, !.next = nx, !.ctrl = k]
           r  == AddRecord(b, q, "none")
<1>1. t \in Sender /\ Numbered(t) /\ Filed(t) /\ Timed(t, {}) /\ Exact(t) /\ Balanced(t)
  BY DEF Books
<1>2. q \in Seqs /\ q \in Nat
  BY <1>1, NextInSeqs DEF Seqs
<1>3. ra \in SUBSET Seqs /\ nx \in Nat /\ k \in SUBSET Seqs
  BY <1>1, <1>2 DEF Sender
<1>4. Rts(t) = IF t.busy THEN r ELSE SendControl(r)
  BY Zenon DEF Rts
<1>5. q \notin t.tx \cup t.rtx \cup t.rts
  <2>1. q \notin 0 .. t.next - 1
    BY <1>2
  <2> QED
    BY <1>1, <2>1 DEF Numbered
<1> HIDE DEF q, ra, nx, k, b
<1>6. b \in Sender
  BY <1>1, <1>3 DEF Sender, b
<1>7. /\ b.tx = t.tx /\ b.rtx = t.rtx /\ b.rts = ra /\ b.tag = t.tag
      /\ b.before = t.before /\ b.timer = t.timer
      /\ b.inFlight = t.inFlight /\ b.safe = t.safe /\ b.random = t.random
      /\ b.backlog = t.backlog /\ b.next = nx /\ b.started = t.started /\ b.ctrl = k
  BY <1>1 DEF Sender, b
<1>8. Exact(b)
  <2>1. \A v : Tagged(b, b.tx, v) = Tagged(t, t.tx, v)
    BY <1>7 DEF Tagged
  <2>2. \A v : Tagged(t, t.tx, v) \ ra = Tagged(t, t.tx, v) \ t.rts
               /\ Tagged(t, t.tx, v) \cap ra = Tagged(t, t.tx, v) \cap t.rts
    BY <1>5 DEF Tagged, ra
  <2>3. \A v : Charged(b, v) = Charged(t, v)
    BY <1>7, <2>1, <2>2 DEF Charged, Bytes
  <2> QED
    BY <1>1, <1>7, <2>3 DEF Exact
<1>9. Filed(b) /\ Timed(b, {})
  BY <1>1, <1>7 DEF Filed, Timed, Oldest
<1>10. "none" \in Tags /\ {} \in SUBSET Seqs
  BY DEF Tags
<1>11. q \notin b.tx \cup b.rtx
  BY <1>5, <1>7
<1>12. Filed(r) /\ Timed(r, {}) /\ Exact(r)
  BY <1>2, <1>6, <1>8, <1>9, <1>10, <1>11, AddRecordBooks
<1>13. Recorded(b, r, q, "none")
  BY <1>2, <1>6, <1>10, AddRecordFields
<1> HIDE DEF r
<1>14. /\ r \in Sender /\ r.tx = t.tx \cup {q} /\ r.rtx = t.rtx /\ r.rts = ra
       /\ r.inFlight = t.inFlight /\ r.safe = t.safe /\ r.random = t.random
       /\ r.backlog = t.backlog /\ r.next = nx /\ r.started = t.started /\ r.ctrl = k
  BY <1>7, <1>13 DEF Recorded
<1>15. Numbered(r)
  <2>1. IsFiniteSet(t.rts) /\ Cardinality(t.rts) \in Nat /\ t.backlog \in 0 .. Pkts
    BY <1>1, SeqsFinite DEF Sender
  <2>2. Cardinality(ra) = Cardinality(t.rts) + 1
    BY <1>5, <2>1, FS_AddElement DEF ra
  <2>3. r.rts \cup r.tx \cup r.rtx \subseteq 0 .. r.next - 1
    BY <1>1, <1>2, <1>14 DEF Numbered, ra, q, nx
  <2>4. r.next = t.next + 1 /\ Cardinality(r.rts) <= MaxRts
        /\ r.backlog <= (IF r.started THEN Pkts ELSE 0)
    BY <1>1, <1>14, <2>1, <2>2, SenderAssumption DEF Numbered, nx
  <2>5. r.next + r.backlog = (IF r.started THEN Pkts ELSE 0) + Cardinality(r.rts)
    <3>1. t.next \in Nat /\ Pkts \in Nat
      BY <1>1, SenderAssumption DEF Sender
    <3>2. t.next + t.backlog = (IF t.started THEN Pkts ELSE 0) + Cardinality(t.rts)
      BY <1>1 DEF Numbered
    <3> QED
      BY <1>14, <2>1, <2>2, <2>4, <3>1, <3>2
  <2> QED
    BY <2>3, <2>4, <2>5 DEF Numbered
<1>16. Balanced(r)
  BY <1>1, <1>14 DEF Balanced
<1>17. Books(r, {})
  BY <1>12, <1>14, <1>15, <1>16 DEF Books
<1>18. r.ctrl # {}
  BY <1>14 DEF k
<1>19. Books(SendControl(r), {})
  BY <1>17, <1>18, SendControlBooks DEF Carries
<1> QED
  BY <1>4, <1>17, <1>19

(* cantSend() at most sends a control packet.                              *)
LEMMA CantSendBooks ==
  ASSUME NEW t, Books(t, {})
  PROVE  Books(CantSend(t), {})
<1> DEFINE r == [t EXCEPT !.queued = 0]
<1>1. CantSend(t) = IF r.ctrl # {} THEN SendControl(r) ELSE r
  BY Zenon DEF CantSend
<1>2. Books(r, {})
  BY PortBooks DEF Carries
<1> HIDE DEF r
<1> QED
  BY <1>1, <1>2, SendControlBooks DEF Carries

(* timeToSend(): the turn is declined, or one packet goes out.             *)
LEMMA TimeToSendBooks ==
  ASSUME NEW t, NEW c \in EventChoices, Books(t, {})
  PROVE  Books(TimeToSend(t, c), {})
<1> DEFINE u    == [t EXCEPT !.blocked = FALSE]
           x    == SendPacket(u, c.pred, c)
           sent == StartSending(x)
<1>1. Books(u, {})
  BY PortBooks DEF Carries
<1>2. HasWork(u) = HasWork(t)
  BY DEF HasWork, Books, Sender
<1> HIDE DEF u
<1>3. Books(CantSend(t), {}) /\ Books(CantSend(u), {})
  BY <1>1, CantSendBooks
<1>4. HasWork(u) => Books(sent, {}) /\ Books(Enqueue(sent), {})
  <2> SUFFICES ASSUME HasWork(u) PROVE Books(sent, {}) /\ Books(Enqueue(sent), {})
    OBVIOUS
  <2>1. {} \in SUBSET Seqs /\ GoodTag(c.pred)
    BY ChoiceTypes
  <2>2. Books(x, {})
    BY <1>1, <2>1, SendPacketBooks DEF Carries
  <2> HIDE DEF x
  <2>3. Books(sent, {})
    BY <2>2, PortBooks DEF Carries
  <2> HIDE DEF sent
  <2> QED
    BY <2>3, PortBooks DEF Carries
<1>5. \/ TimeToSend(t, c) = CantSend(t)
      \/ TimeToSend(t, c) = CantSend(u)
      \/ HasWork(t) /\ TimeToSend(t, c) \in {sent, Enqueue(sent)}
  BY DEF TimeToSend, u
<1> QED
  BY <1>2, <1>3, <1>4, <1>5

(* The port falls free.                                                    *)
LEMMA PortFreeBooks ==
  ASSUME NEW t, NEW control, NEW c \in EventChoices, Books(t, {})
  PROVE  Books(PortFree(t, control, c), {})
<1> DEFINE u == [t EXCEPT !.busy = FALSE]
<1>1. Books(u, {})
  BY PortBooks DEF Carries
<1>2. \/ PortFree(t, control, c) = TimeToSend(u, c)
      \/ PortFree(t, control, c) = SendControl(u) /\ u.ctrl # {}
      \/ PortFree(t, control, c) = u
  BY DEF PortFree
<1> HIDE DEF u
<1> QED
  BY <1>1, <1>2, TimeToSendBooks, SendControlBooks DEF Carries

(* startFlow() fills the backlog and sends the first packet.               *)
LEMMA StartFlowBooks ==
  ASSUME NEW t, NEW c \in EventChoices, Books(t, {}), ~t.started
  PROVE  Books(StartFlow(t, c), {})
<1> DEFINE b    == [t EXCEPT !.started = TRUE, !.backlog = Pkts]
           x    == NewPacket(b, c.pred, c)
           sent == StartSending(x)
<1>1. t \in Sender /\ Pkts \in Nat /\ Pkts > 0 /\ {} \in SUBSET Seqs /\ GoodTag(c.pred)
  BY SenderAssumption, ChoiceTypes DEF Books
<1>2. b \in Sender
  <2>1. Pkts \in 0 .. Pkts
    BY <1>1
  <2> QED
    BY <1>1, <2>1 DEF Sender
<1>3. /\ b.tx = t.tx /\ b.rtx = t.rtx /\ b.rts = t.rts /\ b.tag = t.tag
      /\ b.before = t.before /\ b.timer = t.timer
      /\ b.inFlight = t.inFlight /\ b.safe = t.safe /\ b.random = t.random
      /\ b.backlog = Pkts /\ b.next = t.next /\ b.started
  BY <1>1 DEF Sender
<1> HIDE DEF b
<1>4. Books(b, {})
  <2>1. Numbered(b)
    <3>1. t.backlog \in 0 .. Pkts /\ t.next \in Nat /\ Cardinality(t.rts) \in Nat
      BY <1>1, SeqsFinite DEF Sender
    <3> QED
      BY <1>1, <1>3, <3>1 DEF Books, Numbered
  <2>2. Filed(b)
    BY <1>3 DEF Books, Filed
  <2>3. Timed(b, {})
    BY <1>3 DEF Books, Timed, Oldest
  <2>4. Exact(b)
    BY <1>3 DEF Books, Exact, Charged, Bytes, Tagged
  <2>5. Balanced(b)
    BY <1>3 DEF Books, Balanced
  <2> QED
    BY <1>2, <2>1, <2>2, <2>3, <2>4, <2>5 DEF Books
<1>5. Books(x, {})
  BY <1>1, <1>3, <1>4, NewPacketBooks
<1>6. \/ StartFlow(t, c) = Enqueue(b)
      \/ StartFlow(t, c) = Enqueue(sent)
      \/ StartFlow(t, c) = sent
  BY DEF StartFlow, b
<1> HIDE DEF x
<1>7. Books(sent, {}) /\ Books(Enqueue(b), {})
  BY <1>4, <1>5, PortBooks DEF Carries
<1> HIDE DEF sent
<1>8. Books(Enqueue(sent), {})
  BY <1>7, PortBooks DEF Carries
<1> QED
  BY <1>6, <1>7, <1>8

(* rtxTimerExpired(), to the point where the packet is queued again.       *)
LEMMA TimedOutBooks ==
  ASSUME NEW t, NEW q \in t.tx, Books(t, {})
  PROVE  LET u == Discharge(RecalculateRTO(Erase(t, {q})), {q})
         IN Carries(t, u, {}) /\ {q} \cap u.tx = {} /\ {q} \subseteq 0 .. u.next - 1
<1> DEFINE e == Erase(t, {q})
           x == RecalculateRTO(e)
           u == Discharge(x, {q})
<1>1. t \in Sender /\ {q} \in SUBSET Seqs /\ {q} \in SUBSET t.tx /\ Numbered(t) /\ Filed(t)
  BY DEF Books, Sender
<1>2. Erased(t, e, {q})
  BY <1>1, EraseFields
<1> HIDE DEF e
<1>3. Erased(t, x, {q}) /\ x.timer = Oldest(x)
  <2> DEFINE o == Oldest(e)
  <2>1. e \in Sender /\ e.tx \in SUBSET Seqs
    BY <1>2 DEF Erased, Sender
  <2>2. o \in Seqs \cup {NoTimer}
    <3>1. CASE e.tx = {}
      BY <3>1 DEF Oldest
    <3>2. CASE e.tx # {}
      <4>1. Filed(e)
        BY <1>1, <1>2 DEF Filed, Erased
      <4> QED
        BY <2>1, <3>2, <4>1, OldestIn
    <3> QED
      BY <3>1, <3>2
  <2>3. x = [e EXCEPT !.timer = o]
    BY Zenon DEF RecalculateRTO
  <2> HIDE DEF o, x
  <2>4. x \in Sender
    BY <2>1, <2>2, <2>3 DEF Sender
  <2>5. /\ x.tx = e.tx /\ x.before = e.before /\ x.timer = o
        /\ x.rtx = e.rtx /\ x.rts = e.rts /\ x.tag = e.tag /\ x.inFlight = e.inFlight
        /\ x.safe = e.safe /\ x.random = e.random
        /\ x.backlog = e.backlog /\ x.next = e.next /\ x.started = e.started
        /\ x.recovery = e.recovery /\ x.lossCount = e.lossCount
        /\ x.recvd = e.recvd /\ x.highRecv = e.highRecv
    BY <2>1, <2>3 DEF Sender
  <2>6. x.timer = Oldest(x)
    BY <2>5 DEF Oldest, o
  <2> QED
    BY <1>2, <2>4, <2>5, <2>6 DEF Erased
<1> HIDE DEF x
<1>4. /\ Lifted(t, u, {q}) /\ u.rtx = t.rtx /\ u.timer = Oldest(u)
  BY <1>1, <1>3, DischargeErased
<1> HIDE DEF u
<1>5. Books(u, {}) /\ u.rts = t.rts
  <2>1. Carries(t, u, {q})
    BY <1>1, <1>4, LiftedBooks
  <2> QED
    BY <1>4, <2>1 DEF Carries, Books, Timed
<1>6. {q} \cap u.tx = {} /\ {q} \subseteq 0 .. u.next - 1
  BY <1>1, <1>4 DEF Lifted, Numbered
<1> QED
  BY <1>5, <1>6 DEF Carries, u, x, e

(* rtxTimerExpired(): the packet goes back to the queue, then out again if  *)
(* it may; a full window sends an RTS in its place.                        *)
LEMMA TimeoutBooks ==
  ASSUME NEW t, NEW q \in t.tx, NEW mayRts, NEW c \in EventChoices,
         Books(t, {}), mayRts => Cardinality(t.rts) < MaxRts
  PROVE  Books(Timeout(t, q, mayRts, c), {})
<1> DEFINE u == Discharge(RecalculateRTO(Erase(t, {q})), {q})
           v == QueueForRtx(u, {q}, c)
<1>1. {q} \in SUBSET Seqs
  BY DEF Books, Sender
<1>5. Books(u, {}) /\ u.rts = t.rts
  BY TimedOutBooks DEF Carries
<1>6. {q} \cap u.tx = {} /\ {q} \subseteq 0 .. u.next - 1
  BY TimedOutBooks
<1> HIDE DEF u
<1>7. Carries(u, v, {}) /\ (v.busy \/ v.rtx = u.rtx \cup {q})
  <2> DEFINE A == {q}
             E == {}
  <2>1. E \in SUBSET Seqs /\ A \in SUBSET Seqs /\ A \cap u.tx = {}
        /\ A \subseteq 0 .. u.next - 1 /\ Books(u, E)
    BY <1>1, <1>5, <1>6
  <2> HIDE DEF A, E
  <2>2. Carries(u, QueueForRtx(u, A, c), E)
        /\ (QueueForRtx(u, A, c).busy \/ QueueForRtx(u, A, c).rtx = u.rtx \cup A)
    BY <2>1, QueueForRtxBooks
  <2> QED
    BY <2>2 DEF A, E
<1>8. \/ Timeout(t, q, mayRts, c) = v
      \/ mayRts /\ Timeout(t, q, mayRts, c) = Rts(v)
      \/ Timeout(t, q, mayRts, c) = [v EXCEPT !.queued = v.queued + 1]
      \/ ~v.busy /\ Timeout(t, q, mayRts, c) = StartSending(RtxPacket(v))
  BY DEF Timeout, v, u
<1> HIDE DEF v
<1>9. Books(v, {}) /\ v.rts = t.rts
  BY <1>5, <1>7 DEF Carries
<1>10. mayRts => Books(Rts(v), {})
  BY <1>9, RtsBooks
<1>11. Books([v EXCEPT !.queued = v.queued + 1], {})
  BY <1>9, PortBooks DEF Carries
<1>12. ~v.busy => Books(StartSending(RtxPacket(v)), {})
  <2> SUFFICES ASSUME ~v.busy PROVE Books(StartSending(RtxPacket(v)), {})
    OBVIOUS
  <2>1. v.rtx # {}
    BY <1>7
  <2>2. Books(RtxPacket(v), {})
    BY <1>9, <2>1, RtxPacketBooks
  <2> QED
    BY <2>2, PortBooks DEF Carries
<1> QED
  BY <1>8, <1>9, <1>10, <1>11, <1>12

(* processNack(): the record is recomputed after the sends.                *)
LEMMA NackBooks ==
  ASSUME NEW t, NEW q, NEW c \in EventChoices, Books(t, {})
  PROVE  Books(Nack(t, q, c), {})
<1>1. CASE q \notin t.tx
  BY <1>1 DEF Nack
<1>2. CASE q \in t.tx
  <2> DEFINE u == Discharge(Erase(t, {q}), {q})
             v == QueueForRtx(u, {q}, c)
             w == Rearm(v, {q})
  <2>1. t \in Sender /\ {q} \in SUBSET Seqs /\ {q} \in SUBSET t.tx /\ Numbered(t)
    BY <1>2 DEF Books, Sender
  <2>2. Lifted(t, u, {q})
    BY <2>1, EraseFields, DischargeErased
  <2>3. Nack(t, q, c) = SendIfPermitted(w, c)
    BY <1>2 DEF Nack
  <2> HIDE DEF u
  <2>4. Books(u, {q})
    BY <2>1, <2>2, LiftedBooks DEF Carries
  <2>5. {q} \cap u.tx = {} /\ {q} \subseteq 0 .. u.next - 1
    BY <2>1, <2>2 DEF Lifted, Numbered
  <2>6. Books(v, {q})
    BY <2>1, <2>4, <2>5, QueueForRtxBooks DEF Carries
  <2> HIDE DEF v
  <2>7. Books(w, {})
    BY <2>1, <2>6, RecalculateBooks DEF Carries
  <2> HIDE DEF w
  <2>8. {} \in SUBSET Seqs
    OBVIOUS
  <2> QED
    BY <2>3, <2>7, <2>8, SendIfPermittedBooks DEF Carries
<1> QED
  BY <1>1, <1>2

-----------------------------------------------------------------------------
(* Acknowledgements.                                                       *)

(* What a receiver reports.                                                *)
Report(a) == a.cum \in Nat /\ a.sack \in SUBSET Seqs /\ a.recvd \in Nat /\ a.ooo \in Nat

(* The packets an ACK covers lose their records and their charges.         *)
LEMMA AccountBooks ==
  ASSUME NEW t, NEW a, Books(t, {}), Report(a)
  PROVE  Carries(t, Account(t, a), {})
<1> DEFINE A  == t.tx \cap Covered(a)
           R  == t.rtx \cap Covered(a)
           sa == Bytes(t, Tagged(t, A, "safe"))
           ra == Bytes(t, Tagged(t, A, "random"))
           e  == Erase(t, A)
           rx == e.rtx \ R
           tg == [q \in Seqs |-> IF q \in A \cup R THEN "none" ELSE e.tag[q]]
           fl == IF Dual THEN e.inFlight - (sa + ra)
                         ELSE e.inFlight - Newly(t, a) + GiveBack(t, R)
           sf == e.safe - sa
           rd == e.random - ra
           rv == e.recvd + Newly(t, a)
           hr == Max({e.highRecv} \cup a.sack)
           lc == IF t.recovery THEN (e.lossCount - 1) % LossWrap ELSE e.lossCount
           u  == [e EXCEPT !.rtx = rx, !.tag = tg, !.inFlight = fl, !.safe = sf,
                           !.random = rd, !.recvd = rv, !.highRecv = hr, !.lossCount = lc]
<1>1. t \in Sender /\ A \in SUBSET t.tx /\ A \in SUBSET Seqs /\ R \in SUBSET Seqs
  BY DEF Books, Sender
<1>2. Account(t, a) = Rearm(u, A)
  BY Zenon DEF Account
<1>3. Erased(t, e, A)
  BY <1>1, EraseFields
<1> HIDE DEF e
<1>4. e \in Sender /\ e.rtx = t.rtx /\ e.tag = t.tag /\ e.highRecv \in Nat
      /\ e.lossCount \in Nat /\ e.recvd \in Nat
  BY <1>3 DEF Erased, Sender
<1>5. sa \in Nat /\ ra \in Nat
  BY <1>1, CountedBytes
<1>6. Newly(t, a) \in Nat /\ GiveBack(t, R) \in Nat
  <2>1. t.recvd \in Nat /\ a.recvd \in Nat
    BY <1>1 DEF Sender, Report
  <2>2. Newly(t, a) \in Nat
    BY <2>1 DEF Newly
  <2> QED
    BY <1>1, <2>2, BytesType DEF GiveBack
<1>7. hr \in Nat
  <2> DEFINE M == {e.highRecv} \cup a.sack
             n == e.highRecv + Pkts + MaxRts
  <2>1. a.sack \subseteq 0 .. Pkts + MaxRts - 1 /\ Pkts \in Nat /\ MaxRts \in Nat
    BY SenderAssumption DEF Report, Seqs
  <2>2. M \in SUBSET Nat /\ M # {} /\ n \in Nat /\ \A y \in M : y <= n
    BY <1>4, <2>1
  <2> HIDE DEF M, n
  <2>3. Max(M) \in M
    BY <2>2, MaxIn
  <2> QED
    BY <2>2, <2>3 DEF M
<1>8. lc \in Nat
  <2>1. e.lossCount - 1 \in Int /\ LossWrap \in Nat \ {0}
    BY <1>4, SenderAssumption
  <2>2. (e.lossCount - 1) % LossWrap \in Nat
    BY <2>1
  <2> QED
    BY <1>4, <2>2
<1>9. rx \in SUBSET Seqs /\ tg \in [Seqs -> Tags]
  <2>1. e.tag \in [Seqs -> Tags] /\ "none" \in Tags /\ e.rtx \in SUBSET Seqs
    BY <1>4 DEF Sender, Tags
  <2> QED
    BY <2>1
<1>10. fl \in Int /\ sf \in Int /\ rd \in Int /\ rv \in Nat
  <2>1. e.inFlight \in Int /\ e.safe \in Int /\ e.random \in Int
    BY <1>4 DEF Sender
  <2> HIDE DEF sa, ra
  <2>2. e.inFlight - (sa + ra) \in Int
        /\ e.inFlight - Newly(t, a) + GiveBack(t, R) \in Int
        /\ e.safe - sa \in Int /\ e.random - ra \in Int /\ e.recvd + Newly(t, a) \in Nat
    BY <1>4, <1>5, <1>6, <2>1
  <2> QED
    BY <2>2
<1>11. Dual => fl = t.inFlight - (sa + ra)
  BY <1>3 DEF Erased
<1>12. sf = t.safe - sa /\ rd = t.random - ra
  BY <1>3 DEF Erased
<1>13. \A q \in t.tx \ A : tg[q] = t.tag[q]
  <2>1. t.tx \cap t.rtx = {} /\ t.tx \in SUBSET Seqs
    BY <1>1 DEF Books, Filed, Sender
  <2> QED
    BY <1>4, <2>1
<1>14. rx \subseteq t.rtx \cup A
  BY <1>4
<1> HIDE DEF rx, tg, fl, sf, rd, rv, hr, lc
<1>15. u \in Sender
  BY <1>4, <1>7, <1>8, <1>9, <1>10 DEF Sender
<1>16. /\ u.tx = e.tx /\ u.before = e.before /\ u.rtx = rx /\ u.rts = e.rts
       /\ u.tag = tg /\ u.timer = e.timer /\ u.inFlight = fl /\ u.safe = sf
       /\ u.random = rd /\ u.backlog = e.backlog /\ u.next = e.next
       /\ u.started = e.started
  BY <1>4 DEF Sender
<1> HIDE DEF u
<1>17. Lifted(t, u, A)
  <2>1. Oldest(u) = Oldest(e)
    BY <1>16 DEF Oldest
  <2> QED
    BY <1>3, <1>11, <1>12, <1>13, <1>14, <1>15, <1>16, <2>1 DEF Lifted, Erased
<1>18. Carries(t, u, A)
  BY <1>1, <1>17, LiftedBooks
<1>19. Carries(u, Rearm(u, A), {})
  BY <1>1, <1>18, RecalculateBooks DEF Carries
<1> QED
  BY <1>2, <1>18, <1>19 DEF Carries

(* Packets taken for lost move from _tx_bitmap to the rtx queue.           *)
LEMMA MoveToRtxBooks ==
  ASSUME NEW t, NEW A \in SUBSET t.tx, A # {}, Books(t, {})
  PROVE  Carries(t, MoveToRtx(t, A), {})
<1> DEFINE d  == Discharge(Erase(t, A), A)
           rx == d.rtx \cup A
           mk == Max(A) + 1
           lc == d.lossCount + Cardinality(A)
           u  == [d EXCEPT !.rtx = rx, !.rtxMark = mk, !.lossCount = lc]
<1>1. t \in Sender /\ A \in SUBSET Seqs
  BY DEF Books, Sender
<1>2. MoveToRtx(t, A) = Rearm(u, A)
  BY Zenon DEF MoveToRtx
<1>3. Lifted(t, d, A) /\ d.rtx = t.rtx
  BY <1>1, EraseFields, DischargeErased
<1> HIDE DEF d
<1>4. d \in Sender
  BY <1>3 DEF Lifted
<1>5. rx \in SUBSET Seqs /\ rx = t.rtx \cup A
  BY <1>1, <1>3 DEF Sender
<1>6. mk \in Nat
  <2>1. A \in SUBSET Nat /\ Pkts + MaxRts \in Nat /\ \A y \in A : y <= Pkts + MaxRts
    BY <1>1, SenderAssumption DEF Seqs
  <2>2. Max(A) \in A
    BY <2>1, MaxIn
  <2>3. Max(A) \in Nat
    BY <2>1, <2>2
  <2> QED
    BY <2>3
<1>7. lc \in Nat
  BY <1>1, <1>4, SeqsFinite DEF Sender
<1> HIDE DEF rx, mk, lc
<1>8. u \in Sender
  BY <1>4, <1>5, <1>6, <1>7 DEF Sender
<1>9. /\ u.tx = d.tx /\ u.before = d.before /\ u.rtx = rx /\ u.rts = d.rts
      /\ u.tag = d.tag /\ u.timer = d.timer /\ u.inFlight = d.inFlight
      /\ u.safe = d.safe /\ u.random = d.random
      /\ u.backlog = d.backlog /\ u.next = d.next /\ u.started = d.started
  BY <1>4 DEF Sender
<1> HIDE DEF u
<1>10. Lifted(t, u, A)
  <2>1. Oldest(u) = Oldest(d)
    BY <1>9 DEF Oldest
  <2> QED
    BY <1>3, <1>5, <1>8, <1>9, <2>1 DEF Lifted
<1>11. Carries(t, u, A)
  BY <1>10, LiftedBooks
<1>12. Carries(u, Rearm(u, A), {})
  BY <1>1, <1>11, RecalculateBooks DEF Carries
<1> QED
  BY <1>2, <1>11, <1>12 DEF Carries

(* fastLossRecovery() enters or leaves its mode and moves what is lost.    *)
LEMMA FastLossBooks ==
  ASSUME NEW t, NEW a, NEW c, Books(t, {})
  PROVE  Carries(t, FastLoss(t, a, c), {})
<1> DEFINE u == IF a.cum >= t.recoverTo THEN [t EXCEPT !.recovery = FALSE] ELSE t
           hr == t.highRecv
           v == IF u.recovery THEN u
                ELSE [u EXCEPT !.recovery = TRUE, !.lossCount = 0, !.recoverTo = hr]
<1>1. t \in Sender /\ hr \in Nat
  BY DEF Books, Sender
<1>2. Carries(t, u, {})
  <2> DEFINE x == [t EXCEPT !.recovery = FALSE]
  <2>1. x \in Sender /\ SameBooks(t, x)
    BY <1>1 DEF Sender, SameBooks
  <2> HIDE DEF x
  <2>2. Carries(t, x, {}) /\ Carries(t, t, {})
    BY <2>1, FrameBooks DEF Carries, SameBooks
  <2> QED
    BY <2>2 DEF x
<1>3. \E lost \in SUBSET v.tx :
        \/ FastLoss(t, a, c) \in {u, v}
        \/ lost # {} /\ FastLoss(t, a, c) = MoveToRtx(v, lost)
  <2> DEFINE w == Cwnd(c) \div Mtu
             holes == {q \in v.tx : a.cum <= q /\ q < v.recoverTo /\ q >= v.rtxMark}
             lost  == {q \in holes : v.lossCount + Cardinality({p \in holes : p < q}) < w}
  <2>1. lost \in SUBSET v.tx
    OBVIOUS
  <2>2. FastLoss(t, a, c) = IF a.ooo < Max({w, Reorder}) /\ ~u.recovery THEN u
                            ELSE IF lost = {} THEN v ELSE MoveToRtx(v, lost)
    BY Zenon DEF FastLoss
  <2> HIDE DEF u, v, w, holes, lost
  <2> QED
    BY <2>1, <2>2
<1> HIDE DEF u, hr
<1>4. Carries(u, v, {})
  <2> DEFINE x == [u EXCEPT !.recovery = TRUE, !.lossCount = 0, !.recoverTo = hr]
  <2>1. u \in Sender
    BY <1>2 DEF Carries, Books
  <2>2. x \in Sender /\ SameBooks(u, x)
    BY <1>1, <2>1 DEF Sender, SameBooks
  <2> HIDE DEF x
  <2>3. Carries(u, x, {}) /\ Carries(u, u, {})
    BY <1>2, <2>2, FrameBooks DEF Carries, SameBooks
  <2> QED
    BY <2>3 DEF x
<1> HIDE DEF v
<1>5. Carries(t, v, {})
  BY <1>2, <1>4 DEF Carries
<1> QED
  BY <1>2, <1>3, <1>5, MoveToRtxBooks DEF Carries

(* processAck().                                                           *)
LEMMA AckBooks ==
  ASSUME NEW t, NEW a, NEW c \in EventChoices, Books(t, {}), Report(a)
  PROVE  Books(Ack(t, a, c), {})
<1> DEFINE x == Account(t, a)
           u == IF FastRecovery THEN FastLoss(x, a, c) ELSE x
<1>1. Books(x, {})
  BY AccountBooks DEF Carries
<1> HIDE DEF x
<1>2. Books(u, {})
  BY <1>1, FastLossBooks DEF Carries
<1>3. Ack(t, a, c) = IF Finished(u, a) THEN [u EXCEPT !.done = TRUE]
                     ELSE SendIfPermitted(u, c)
  BY Zenon DEF Ack, x
<1> HIDE DEF u
<1>4. Books([u EXCEPT !.done = TRUE], {})
  <2> DEFINE v == [u EXCEPT !.done = TRUE]
  <2>1. v \in Sender /\ SameBooks(u, v)
    BY <1>2 DEF Books, Sender, SameBooks
  <2> HIDE DEF v
  <2>2. Books(v, {})
    BY <1>2, <2>1, FrameBooks
  <2> QED
    BY <2>2 DEF v
<1>5. {} \in SUBSET Seqs
  OBVIOUS
<1> QED
  BY <1>2, <1>3, <1>4, <1>5, SendIfPermittedBooks DEF Carries
=============================================================================
