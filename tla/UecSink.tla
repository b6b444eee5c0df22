------------------------------- MODULE UecSink -------------------------------
(***************************************************************************)
(* The receiver of one flow (UecSink): what it holds, and the ACK or NACK  *)
(* each arriving packet makes it send.                                     *)
(*                                                                         *)
(* The bitmap _epsn_rx_bitmap is the set got of sequence numbers received  *)
(* above the expected one; _out_of_order_count is its size.                *)
(***************************************************************************)
EXTENDS UecSender

CONSTANTS
  SackWidth,  \* entries of the SACK bitmap (64 in the code)
  AckBytes    \* _bytes_unacked_threshold

ASSUME SinkAssumption == SackWidth \in Nat \ {0} /\ AckBytes \in Nat

Sink ==
  [expected : Nat,        \* _expected_epsn
   got : SUBSET Seqs,     \* _epsn_rx_bitmap
   recvd : Nat,           \* _recvd_bytes
   payload : BOOLEAN,     \* _received_bytes > 0
   accepted : Nat,        \* _accepted_bytes
   ackRequest : BOOLEAN]  \* _ack_request

FreshSink == [expected |-> 0, got |-> {}, recvd |-> 0, payload |-> FALSE,
              accepted |-> 0, ackRequest |-> FALSE]

Nacks == [kind : {"nack"}, seq : Seqs]
Acks  == [kind : {"ack"}, cum : Nat, sack : SUBSET Seqs, recvd : Nat, ooo : Nat]

Has(k, q) == q < k.expected \/ q \in k.got

SackBase(k, q) == Max({q - (SackWidth - 1), k.expected + 1})

(* sack(): the ACK whose bitmap starts at ref.                             *)
Sack(k, ref) ==
  [kind |-> "ack", cum |-> k.expected, recvd |-> k.recvd, ooo |-> Cardinality(k.got),
   sack |-> {q \in k.got : ref <= q /\ q < ref + SackWidth}]

(* Mutant: what was received out of order is lost when the hole fills.     *)
AdvanceByOne(k, q) ==
  IF q # k.expected THEN [k EXCEPT !.got = @ \cup {q}]
  ELSE [k EXCEPT !.expected = @ + 1, !.got = {}]

(* A new packet enters the bitmap; the expected one moves past what it     *)
(* completes.                                                              *)
Advance(k, q) ==
  IF q # k.expected THEN [k EXCEPT !.got = @ \cup {q}]
  ELSE LET e == CHOOSE e \in k.expected + 1 .. k.expected + 1 + Cardinality(k.got) :
                  e \notin k.got /\ (k.expected + 1 .. e - 1) \subseteq k.got
       IN [k EXCEPT !.expected = e, !.got = {p \in @ : p > e}]

(* A handler's result: the sink, and the packets it sends back.            *)
Result(k, replies) == [sink |-> k, replies |-> replies]

(* A packet the sink already has is acknowledged straight away.            *)
Duplicate(k, q, ref) == Result([k EXCEPT !.accepted = 0], {Sack(k, ref)})

(* processData().                                                          *)
ProcessData(k, pkt, size, ecn) ==
  LET q     == pkt.seq
      heard == Advance([k EXCEPT !.accepted = @ + size,
                                 !.recvd    = @ + size,
                                 !.payload  = @ \/ size > Hdr,
                                 !.ackRequest = @ \/ pkt.ar], q)
      drained == q = k.expected /\ heard.got = {} /\ heard.ackRequest
      after == IF drained THEN [heard EXCEPT !.ackRequest = FALSE] ELSE heard
      ref   == IF ecn \/ pkt.ar THEN q ELSE SackBase(after, q)
  IN IF Has(k, q) THEN Duplicate(k, q, IF ecn THEN q ELSE SackBase(k, q))
     ELSE IF ecn \/ ~k.payload \/ pkt.ar \/ drained \/ after.accepted >= AckBytes
          THEN Result([after EXCEPT !.accepted = 0], {Sack(after, ref)})
     ELSE Result(after, {})

(* processTrimmed().                                                       *)
ProcessTrimmed(k, pkt) ==
  IF Has(k, pkt.seq) THEN Result(k, {Sack(k, SackBase(k, pkt.seq))})
  ELSE Result(k, {[kind |-> "nack", seq |-> pkt.seq]})

(* processRts(): an RTS takes a sequence number but no bytes.              *)
ProcessRts(k, pkt) ==
  LET q     == pkt.seq
      heard == Advance(k, q)
      after == IF q = k.expected /\ heard.got = {}
               THEN [heard EXCEPT !.ackRequest = FALSE] ELSE heard
  IN IF Has(k, q) THEN Duplicate(k, q, SackBase(k, q))
     ELSE Result(after, {Sack(after, q)})
=============================================================================
