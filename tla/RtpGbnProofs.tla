---------------------------- MODULE RtpGbnProofs ----------------------------
(***************************************************************************)
(* GbnInv is an invariant of Rtp in Go-Back-N mode, for every window,      *)
(* every number of retries, every initial number and every file of fewer   *)
(* than SEQNUM_MAX blocks; what follows from it.                           *)
(***************************************************************************)
EXTENDS RtpGbn, RtpProofs, FiniteSetTheorems

(* What the theorems below assume of the constants.                        *)
GoBackN == Mode = 0 /\ FileLen < SEQNUM_MAX

-----------------------------------------------------------------------------
LEMMA GbnTypes ==
    ASSUME TypeOK, GbnInv, GoBackN
    PROVE  /\ pos \in 0 .. FileLen /\ FileLen \in Nat /\ FileLen < SEQNUM_MAX
           /\ Len(file) \in 0 .. pos
           /\ Flight \in 0 .. W /\ BaseBlock \in 1 .. pos + 1
           /\ base_seq \in SeqNums /\ FirstSeq \in SeqNums
           /\ head \in Slots
<1>1. /\ pos \in 0 .. FileLen /\ FileLen \in Nat /\ FileLen < SEQNUM_MAX
      /\ base_seq \in SeqNums /\ FirstSeq \in SeqNums
      /\ head \in Slots
  BY NumForm, WireAssumption DEF TypeOK, SenderTypeOK, GoBackN, Blocks
<1>2. Len(file) \in 0 .. pos
  BY <1>1 DEF TypeOK, ReceiverTypeOK, GbnInv, ReceiverState
<1>3. Flight \in 0 .. W /\ FirstSeq =< base_seq
  BY DEF GbnInv, SenderWindow
<1>4. BaseBlock \in 1 .. pos + 1
  BY <1>1, <1>3, WType, SeqNumAssumption DEF SeqNums, BaseBlock, Flight
<1> QED BY <1>1, <1>2, <1>3, <1>4

(* How the base, the first number and the blocks relate, as integers.      *)
LEMMA GbnInts ==
    ASSUME TypeOK, GbnInv, GoBackN
    PROVE  /\ base_seq \in Int /\ FirstSeq \in Int /\ pos \in Int
           /\ Flight \in Int /\ BaseBlock \in Int
           /\ 0 =< FirstSeq /\ FirstSeq =< base_seq /\ base_seq < SEQNUM_MAX
           /\ base_seq = FirstSeq + BaseBlock - 1
           /\ Flight = pos + 1 - BaseBlock
<1>1. /\ base_seq \in Int /\ FirstSeq \in Int /\ pos \in Int
      /\ 0 =< FirstSeq /\ base_seq < SEQNUM_MAX
  BY GbnTypes, SeqNumAssumption DEF SeqNums
<1>2. FirstSeq =< base_seq
  BY DEF GbnInv, SenderWindow
<1>3. BaseBlock \in Int /\ base_seq = FirstSeq + BaseBlock - 1
  BY <1>1 DEF BaseBlock
<1>4. Flight \in Int /\ Flight = pos + 1 - BaseBlock
  BY <1>1, <1>3 DEF Flight
<1> QED BY <1>1, <1>2, <1>3, <1>4

(* The numbers of the window as the program computes them.                 *)
LEMMA GbnInFlight ==
    ASSUME TypeOK, GbnInv, GoBackN
    PROVE  /\ InFlight = Flight
           /\ base_seq = Num(BaseBlock)
           /\ ~WindowFull => Flight < W
<1>1. pos + 1 \in 1 .. SEQNUM_MAX /\ BaseBlock \in 1 .. SEQNUM_MAX
  BY GbnTypes, SeqNumAssumption
<1>2. base_seq = Num(BaseBlock)
  <2>1. base_seq = FirstSeq + BaseBlock - 1 /\ base_seq < SEQNUM_MAX
    BY GbnInts
  <2> QED BY <1>1, <2>1, NumForm
<1>3. /\ nextseqnum = Num(pos + 1)
      /\ Num(pos + 1) = IF FirstSeq + pos < SEQNUM_MAX
                        THEN FirstSeq + pos ELSE FirstSeq + pos - SEQNUM_MAX
  <2> DEFINE next == pos + 1
  <2>1. next \in 1 .. SEQNUM_MAX /\ FirstSeq + next - 1 = FirstSeq + pos
    BY <1>1, GbnInts
  <2>2. nextseqnum = Num(next)
    BY DEF GbnInv, SenderWindow
  <2> HIDE DEF next
  <2>3. Num(next) = IF FirstSeq + pos < SEQNUM_MAX
                    THEN FirstSeq + pos ELSE FirstSeq + pos - SEQNUM_MAX
    <3>1. FirstSeq \in Int /\ pos \in Int /\ next \in Int
      BY <2>1, GbnInts, SeqNumAssumption
    <3>2. Num(next) = IF FirstSeq + next - 1 < SEQNUM_MAX
                      THEN FirstSeq + next - 1 ELSE FirstSeq + next - 1 - SEQNUM_MAX
      BY <2>1, NumForm
    <3> QED BY <2>1, <3>1, <3>2
  <2> QED BY <2>2, <2>3 DEF next
<1>4. InFlight = Flight
  <2>0. /\ Flight = FirstSeq + pos - base_seq /\ Flight \in Nat
        /\ base_seq \in 0 .. SEQNUM_MAX - 1
        /\ FirstSeq \in 0 .. base_seq /\ pos \in 0 .. SEQNUM_MAX - 1
    <3>1. Flight = FirstSeq + pos - base_seq
      BY GbnInts
    <3>2. Flight \in Nat /\ pos \in 0 .. SEQNUM_MAX - 1
      BY GbnTypes, WType, SeqNumAssumption
    <3> QED BY <3>1, <3>2, GbnInts, SeqNumAssumption
  <2>1. CASE FirstSeq + pos < SEQNUM_MAX
    <3>1. nextseqnum - base_seq = Flight /\ Flight \in SeqNums
      BY <1>3, <2>0, <2>1, SeqNumAssumption DEF SeqNums
    <3> QED BY <3>1, MaskCases DEF InFlight
  <2>2. CASE FirstSeq + pos >= SEQNUM_MAX
    <3>1. nextseqnum - base_seq = Flight - SEQNUM_MAX
      BY <1>3, <2>0, <2>2, SeqNumAssumption
    <3>2. Flight - SEQNUM_MAX \in -SEQNUM_MAX .. -1
      BY <2>0, <2>2, SeqNumAssumption
    <3>3. Mask(Flight - SEQNUM_MAX) = Flight
      BY <3>2, <2>0, MaskCases, SeqNumAssumption
    <3> QED BY <3>1, <3>3 DEF InFlight
  <2> QED BY <2>0, <2>1, <2>2, SeqNumAssumption
<1>5. ~WindowFull => Flight < W
  <2> SUFFICES ASSUME Flight = W PROVE WindowFull
    BY GbnTypes, WType
  <2>1. base_seq + W = FirstSeq + (pos + 1) - 1
    BY GbnInts
  <2> QED BY <1>3, <2>1 DEF WindowFull, Num
<1> QED BY <1>2, <1>4, <1>5
-----------------------------------------------------------------------------
LEMMA GbnInit ==
    ASSUME Init, GoBackN
    PROVE  GbnInv
<1>1. TypeOK
  BY TypeInit DEF TypeInv
<1> USE DEF Init, SenderInit, SenderAt, ReceiverInit, ReceiverAt
<1>2. /\ base_seq = FirstSeq /\ FirstSeq \in SeqNums /\ BaseBlock = 1 /\ Flight = 0
      /\ Len(file) = 0
  BY <1>1, NumForm, SeqNumAssumption DEF FirstSeq, BaseBlock, Flight, SeqNums
<1>3. SenderWindow
  BY <1>1, <1>2, NumNext, WType, SeqNumAssumption DEF SenderWindow, SeqNums
<1>4. SenderRing
  <2>1. \A i \in Slots : ~(Dist(head, i) < 0)
    BY <1>1, DistType, WType DEF TypeOK, SenderTypeOK, Slots
  <2> QED BY <1>2, <2>1 DEF SenderRing
<1>5. SentPackets /\ SentAcks
  BY DEF SentPackets, SentAcks
<1>6. ReceiverState
  BY WireAssumption DEF ReceiverState, PrefixDelivered
<1> QED BY <1>3, <1>4, <1>5, <1>6 DEF GbnInv

(* A step of the sender that leaves the ring alone: it takes packets from  *)
(* the path and sends none that is wrong, and does not go back on closing. *)
LEMMA GbnSenderQuiet ==
    ASSUME GbnInv,
           UNCHANGED <<syn_seq, ring, receiverVars>>,
           isReadOver' => pos = FileLen,
           Closed => Closed',
           s_pc' \in {"fin", "done"} => Closed',
           toSender' \subseteq toSender,
           \A m \in toReceiver' : \/ m \in toReceiver
                                  \/ /\ m.flags = {} => /\ m.block \in 1 .. pos
                                                        /\ m.seq = Num(m.block)
                                     /\ m.flags = {"SYN"} => m.seq = syn_seq
                                     /\ "FIN" \in m.flags => Closed'
    PROVE  GbnInv'
<1> USE DEF ring, receiverVars
<1>1. /\ FirstSeq' = FirstSeq /\ \A c : Num(c)' = Num(c)
      /\ BaseBlock' = BaseBlock /\ Flight' = Flight
      /\ \A i : Dist(head, i)' = Dist(head, i)
  BY NumKept DEF BaseBlock, Flight, Dist
<1>2. SenderWindow'
  BY <1>1 DEF GbnInv, SenderWindow
<1>3. SenderRing'
  BY <1>1 DEF GbnInv, SenderRing
<1>4. SentPackets'
  BY <1>1 DEF GbnInv, SentPackets
<1>5. SentAcks'
  BY <1>1 DEF GbnInv, SentAcks
<1>6. ReceiverState'
  BY <1>1 DEF GbnInv, ReceiverState, PrefixDelivered
<1> QED BY <1>2, <1>3, <1>4, <1>5, <1>6 DEF GbnInv

(* The packets of the window are packets the receiver may act on.          *)
LEMMA GbnWindowPackets ==
    ASSUME TypeOK, GbnInv, GoBackN, NEW i \in Slots, Dist(head, i) < Flight
    PROVE  /\ packets[i].flags = {} /\ packets[i].block \in 1 .. pos
           /\ packets[i].seq = Num(packets[i].block)
<1>1. packets[i] = DataPkt(Num(BaseBlock + Dist(head, i)), BaseBlock + Dist(head, i))
  BY DEF GbnInv, SenderRing
<1>2. BaseBlock + Dist(head, i) \in 1 .. pos
  <2>1. Dist(head, i) \in Nat
    <3>1. Dist(head, i) \in Slots
      BY GbnTypes, DistType
    <3> QED BY <3>1, WType DEF Slots
  <2>2. BaseBlock \in Nat /\ pos \in Nat /\ BaseBlock >= 1 /\ Flight = pos + 1 - BaseBlock
    BY GbnTypes DEF Flight
  <2> QED BY <2>1, <2>2
<1> QED BY <1>1, <1>2 DEF DataPkt

LEMMA GbnFillSend ==
    ASSUME TypeOK, GbnInv, GoBackN, FillSend, UNCHANGED receiverVars
    PROVE  GbnInv'
<1> USE DEF receiverVars, loop
<1>1. /\ Flight \in 0 .. W - 1 /\ Flight \in Slots
      /\ NextSlot = Slot(head, Flight) /\ NextSlot \in Slots
      /\ Dist(head, NextSlot) = Flight
      /\ BaseBlock + Flight = pos + 1
  <2>1. Flight \in 0 .. W - 1
    BY GbnTypes, GbnInFlight, WType DEF FillSend
  <2>2. Flight \in Slots
    BY <2>1 DEF Slots
  <2>3. NextSlot = Slot(head, Flight)
    BY GbnInFlight DEF NextSlot
  <2>4. BaseBlock + Flight = pos + 1
    BY GbnTypes DEF Flight
  <2>5. Flight \in Int
    BY <2>1, WType
  <2>6. Slot(head, Flight) \in Slots /\ Dist(head, Slot(head, Flight)) = Flight
    BY <2>2, <2>5, GbnTypes, SlotType, DistOfSlot
  <2> QED BY <2>1, <2>2, <2>3, <2>4, <2>6
<1>2. ~used[NextSlot]
  BY <1>1 DEF GbnInv, SenderRing
<1>3. /\ pos < FileLen /\ pos' = pos + 1
      /\ packets' = [packets EXCEPT ![NextSlot] = DataPkt(nextseqnum, pos + 1)]
      /\ used' = [used EXCEPT ![NextSlot] = TRUE]
      /\ unackedCnt' = uint8(unackedCnt + 1)
      /\ toReceiver' = toReceiver \union {packets'[NextSlot]}
      /\ toSender' = toSender
      /\ nextseqnum' = seqnum_next(nextseqnum)
      /\ UNCHANGED <<s_pc, syn_seq, base_seq, head, acked, isReadOver>>
      /\ s_pc = "fill"
  BY <1>2 DEF FillSend, SenderSends
<1>4. packets'[NextSlot] = DataPkt(Num(pos + 1), pos + 1)
  BY <1>1, <1>3 DEF TypeOK, SenderTypeOK, GbnInv, SenderWindow
<1>5. /\ FirstSeq' = FirstSeq /\ \A c : Num(c)' = Num(c)
      /\ BaseBlock' = BaseBlock /\ Flight' = Flight + 1
      /\ \A i : Dist(head, i)' = Dist(head, i)
      /\ ~Closed
  BY <1>1, <1>3, NumKept, GbnTypes DEF BaseBlock, Flight, Dist, Closed
<1>6. SenderWindow'
  <2>1. nextseqnum' = Num(pos' + 1)
    <3>1. pos + 1 \in 1 .. SEQNUM_MAX - 1
      BY <1>3, GbnTypes, SeqNumAssumption
    <3>2. seqnum_next(Num(pos + 1)) = Num((pos + 1) + 1)
      BY <3>1, NumNext
    <3> QED BY <1>3, <3>2 DEF GbnInv, SenderWindow
  <2> QED BY <1>1, <1>3, <1>5, <2>1, WType DEF GbnInv, SenderWindow
<1>7. SenderRing'
  <2>1. ASSUME NEW i \in Slots
        PROVE  /\ ~acked'[i] /\ (used'[i] <=> Dist(head, i) < Flight + 1)
               /\ Dist(head, i) < Flight + 1 =>
                    packets'[i] = DataPkt(Num(BaseBlock + Dist(head, i)),
                                          BaseBlock + Dist(head, i))
    <3>0. Dist(head, i) \in Nat /\ Flight \in Nat
      <4>1. Dist(head, i) \in Slots
        BY GbnTypes, DistType
      <4> QED BY <1>1, <4>1, WType DEF Slots
    <3>1. CASE i = NextSlot
      BY <1>1, <1>3, <1>4, <3>0, <3>1 DEF TypeOK, SenderTypeOK, GbnInv, SenderRing
    <3>2. CASE i # NextSlot
      <4>1. Dist(head, i) # Flight
        <5>1. Slot(head, Dist(head, i)) = i
          BY GbnTypes, DistOfSlot
        <5> QED BY <1>1, <3>2, <5>1
      <4>2. used'[i] = used[i] /\ packets'[i] = packets[i] /\ acked'[i] = acked[i]
        BY <1>3, <3>2 DEF TypeOK, SenderTypeOK
      <4> QED BY <3>0, <4>1, <4>2 DEF GbnInv, SenderRing
    <3> QED BY <3>1, <3>2
  <2>2. unackedCnt' = Flight + 1
    BY <1>1, <1>3, WType DEF GbnInv, SenderRing, uint8, W
  <2>3. isReadOver' => pos' = FileLen
    BY <1>3, GbnTypes DEF GbnInv, SenderRing
  <2> QED BY <1>3, <1>5, <2>1, <2>2, <2>3 DEF SenderRing
<1>8. SentPackets'
  <2>1. pos + 1 \in 1 .. pos'
    BY <1>3, GbnTypes
  <2>2. \A c \in 1 .. pos : c \in 1 .. pos'
    BY <1>3, GbnTypes
  <2> QED BY <1>3, <1>4, <1>5, <2>1, <2>2 DEF GbnInv, SentPackets, DataPkt
<1>9. SentAcks'
  BY <1>3, <1>5 DEF GbnInv, SentAcks
<1>10. ReceiverState'
  BY <1>3, <1>5, GbnTypes DEF GbnInv, ReceiverState, PrefixDelivered
<1> QED BY <1>6, <1>7, <1>8, <1>9, <1>10 DEF GbnInv

(* An acknowledgement that is not too old names a block of the window or   *)
(* the first one after it.                                                 *)
LEMMA GbnAckInWindow ==
    ASSUME TypeOK, GbnInv, GoBackN, NEW m \in toSender,
           "FIN" \notin m.flags, ~StaleAck(m.seq)
    PROVE  \E j \in BaseBlock .. Len(file) + 1 :
              /\ m.seq = base_seq + (j - BaseBlock)
              /\ Mask(m.seq - base_seq) = j - BaseBlock
<1>1. PICK j \in 1 .. Len(file) + 1 : m.seq = Num(j)
  BY DEF GbnInv, SentAcks
<1>2. j \in 1 .. SEQNUM_MAX
  BY GbnTypes, SeqNumAssumption
<1>3. m.seq \in SeqNums /\ ~(m.seq < base_seq)
  BY <1>1, <1>2, NumType, GbnTypes, BeforeIsLess DEF StaleAck, GoBackN
<1>4. /\ base_seq \in 0 .. SEQNUM_MAX - 1 /\ FirstSeq \in 0 .. base_seq
      /\ base_seq = FirstSeq + BaseBlock - 1 /\ BaseBlock \in Int
      /\ m.seq \in 0 .. SEQNUM_MAX - 1
  BY <1>3, GbnInts, SeqNumAssumption DEF SeqNums
<1>5. m.seq = FirstSeq + j - 1
  BY <1>1, <1>2, <1>3, <1>4, NumForm, SeqNumAssumption
<1>6. /\ m.seq = base_seq + (j - BaseBlock) /\ j \in BaseBlock .. Len(file) + 1
      /\ m.seq - base_seq \in 0 .. SEQNUM_MAX - 1
  BY <1>1, <1>3, <1>4, <1>5, GbnTypes, SeqNumAssumption
<1>7. Mask(m.seq - base_seq) = m.seq - base_seq
  BY <1>6, MaskCases DEF SeqNums
<1>8. m.seq - base_seq = j - BaseBlock
  BY <1>4, <1>6
<1> QED BY <1>6, <1>7, <1>8

LEMMA GbnCumulative ==
    ASSUME TypeOK, GbnInv, GoBackN, NEW m \in toSender, NEW intact,
           RecvCumulative(m, intact), UNCHANGED receiverVars
    PROVE  GbnInv'
<1> USE DEF receiverVars
<1>1. ~Closed /\ "FIN" \notin m.flags /\ ~StaleAck(m.seq)
  BY DEF RecvCumulative, RecvAck, Closed, GbnInv, SentAcks
<1>2. PICK j \in BaseBlock .. Len(file) + 1 :
          /\ m.seq = base_seq + (j - BaseBlock)
          /\ Mask(m.seq - base_seq) = j - BaseBlock
  BY <1>1, GbnAckInWindow
<1> DEFINE n == j - BaseBlock
<1>3. /\ n \in 0 .. Flight /\ n \in 0 .. W /\ Flight \in 0 .. W /\ Flight \in Int
      /\ n + BaseBlock = j /\ j \in 1 .. pos + 1 /\ j =< Len(file) + 1
  BY <1>2, GbnTypes, WType DEF Flight
<1>4. /\ used' = [i \in Slots |-> used[i] /\ i \notin Leading(head, n)]
      /\ unackedCnt' = uint8(unackedCnt - n)
      /\ head' = Slot(head, n)
      /\ base_seq' = m.seq
      /\ toReceiver' = toReceiver /\ toSender' \subseteq toSender
      /\ UNCHANGED <<syn_seq, packets, nextseqnum, pos, isReadOver, acked>>
      /\ s_pc = "recv"
  <2>1. toReceiver' = toReceiver /\ toSender' \subseteq toSender
    BY DEF RecvCumulative, RecvAck, SenderExchange, Taken
  <2> QED BY <1>2, <2>1 DEF RecvCumulative, RecvAck
<1>5. s_pc' \in {"main", "recv"}
  BY <1>4 DEF RecvCumulative, TimerCheck, TimerExpires
<1> HIDE DEF n
<1>6. /\ FirstSeq' = FirstSeq /\ \A c : Num(c)' = Num(c)
      /\ BaseBlock' = BaseBlock + n /\ Flight' = Flight - n /\ base_seq' = base_seq + n
      /\ ~Closed /\ ~Closed'
  <2>1. base_seq' = base_seq + n
    BY <1>2, <1>4 DEF n
  <2>2. FirstSeq' = FirstSeq /\ \A c : Num(c)' = Num(c)
    BY <1>4, NumKept
  <2>3. base_seq \in Int /\ FirstSeq \in Int /\ n \in Int /\ pos \in Int
    BY <1>3, GbnTypes, SeqNumAssumption DEF SeqNums
  <2>4. BaseBlock' = BaseBlock + n
    BY <2>1, <2>2, <2>3 DEF BaseBlock
  <2>5. Flight' = Flight - n
    <3>1. Flight = pos + 1 - BaseBlock /\ Flight' = pos + 1 - BaseBlock'
      BY <1>4 DEF Flight
    <3>2. BaseBlock \in Int
      BY GbnTypes
    <3> QED BY <2>3, <2>4, <3>1, <3>2
  <2> QED BY <1>1, <1>5, <2>1, <2>2, <2>4, <2>5 DEF Closed
<1>7. SenderWindow'
  <2>1. FirstSeq' =< base_seq'
    <3>1. n \in Int /\ 0 =< n
      BY <1>3
    <3>2. FirstSeq' = FirstSeq /\ base_seq' = base_seq + n
      BY <1>6
    <3>3. FirstSeq \in Int /\ base_seq \in Int /\ FirstSeq =< base_seq
      BY GbnInts
    <3> QED BY <3>1, <3>2, <3>3
  <2>2. Flight - n \in 0 .. W /\ BaseBlock + n =< Len(file) + 1
    BY <1>3, GbnTypes, WType
  <2> QED BY <1>4, <1>6, <2>1, <2>2 DEF GbnInv, SenderWindow
<1>8. SenderRing'
  <2>1. ASSUME NEW i \in Slots
        PROVE  /\ ~acked'[i] /\ (used'[i] <=> Dist(head', i) < Flight - n)
               /\ Dist(head', i) < Flight - n =>
                    packets'[i] = DataPkt(Num(BaseBlock + n + Dist(head', i)),
                                          BaseBlock + n + Dist(head', i))
    <3> DEFINE d == Dist(head, i)
               e == Dist(head', i)
    <3>1. d \in 0 .. W - 1
      <4>1. d \in Slots
        BY GbnTypes, DistType
      <4> QED BY <4>1 DEF Slots
    <3>2. e = IF d >= n THEN d - n ELSE d - n + W
      BY <1>3, <1>4, GbnTypes, DistOfMoved
    <3>3. used'[i] <=> used[i] /\ ~(d < n)
      BY <1>3, <1>4, GbnTypes, LeadingByDist
    <3>4. ~acked[i] /\ (used[i] <=> d < Flight)
      BY DEF GbnInv, SenderRing
    <3>5. d < Flight => packets[i] = DataPkt(Num(BaseBlock + d), BaseBlock + d)
      BY DEF GbnInv, SenderRing
    <3>6. BaseBlock \in Int
      BY GbnTypes
    <3> HIDE DEF d, e
    <3>7. used'[i] <=> e < Flight - n
      BY <1>3, <3>1, <3>2, <3>3, <3>4, WType
    <3>8. e < Flight - n => d < Flight /\ BaseBlock + n + e = BaseBlock + d
      BY <1>3, <3>1, <3>2, <3>6, WType
    <3> QED BY <1>4, <3>4, <3>5, <3>7, <3>8 DEF e
  <2>2. unackedCnt' = Flight - n
    BY <1>3, <1>4, WType DEF GbnInv, SenderRing, uint8, W
  <2> QED BY <1>4, <1>5, <1>6, <2>1, <2>2 DEF GbnInv, SenderRing, Dist
<1>9. SentPackets'
  BY <1>4, <1>6 DEF GbnInv, SentPackets
<1>10. SentAcks'
  BY <1>4, <1>6 DEF GbnInv, SentAcks
<1>11. ReceiverState'
  BY <1>4, <1>6 DEF GbnInv, ReceiverState, PrefixDelivered
<1> QED BY <1>7, <1>8, <1>9, <1>10, <1>11 DEF GbnInv

LEMMA GbnSenderStep ==
    ASSUME TypeInv, GbnInv, GoBackN, SenderStep
    PROVE  GbnInv'
<1> USE DEF ring, loop
<1>0. /\ TypeOK /\ UNCHANGED receiverVars
      /\ isReadOver => pos = FileLen
      /\ s_pc \in {"fin", "done"} => Closed
  BY DEF TypeInv, SenderStep, GbnInv, SenderRing
<1>1. \A q : /\ SynPkt(q).flags = {"SYN"} /\ SynPkt(q).seq = q
             /\ AckPkt(q).flags = {"ACK"} /\ FinPkt(q).flags = {"FIN"}
  BY DEF SynPkt, AckPkt, FinPkt, Header
<1>2. CASE SenderStart
  BY <1>0, <1>1, <1>2, GbnSenderQuiet DEF SenderStart, SenderSends, Closed
<1>3. CASE SynTimeout
  BY <1>0, <1>1, <1>3, GbnSenderQuiet
  DEF SynTimeout, AttemptFailed, Resent, SenderSends, Closed
<1>4. CASE ConfirmTimeout
  BY <1>0, <1>4, GbnSenderQuiet DEF ConfirmTimeout, channels, Closed
<1>5. CASE MainExit
  BY <1>0, <1>1, <1>5, GbnSenderQuiet DEF MainExit, SenderSends, Closed, AllSent
<1>6. CASE MainAbort
  BY <1>0, <1>6, GbnSenderQuiet DEF MainAbort, channels, Closed
<1>7. CASE MainRound
  <2>1. ASSUME NEW m \in Retransmitted
        PROVE  m.flags = {} /\ m.block \in 1 .. pos /\ m.seq = Num(m.block)
    <3>1. PICK i \in Leading(head, InFlight) : m = packets[i]
      BY DEF Retransmitted
    <3>2. i \in Slots /\ Dist(head, i) < Flight
      BY GbnTypes, GbnInFlight, LeadingByDist, <1>0, <3>1
    <3> QED BY <1>0, <3>1, <3>2, GbnWindowPackets
  <2>2. /\ toReceiver' \subseteq toReceiver \union Retransmitted
        /\ toSender' = toSender
        /\ s_pc = "main" /\ s_pc' = "fill"
        /\ UNCHANGED <<syn_seq, ring, isReadOver>>
    BY <1>7 DEF MainRound, SenderSends
  <2> QED BY <1>0, <2>1, <2>2, GbnSenderQuiet DEF Closed
<1>8. CASE FillFull
  BY <1>0, <1>8, GbnSenderQuiet DEF FillFull, channels, Closed
<1>9. CASE FillEof
  BY <1>0, <1>9, GbnSenderQuiet DEF FillEof, channels, Closed
<1>10. CASE FillSend
  BY <1>0, <1>10, GbnFillSend
<1>11. CASE RecvTimeout
  BY <1>0, <1>11, GbnSenderQuiet DEF RecvTimeout, TimerExpires, channels, Closed
<1>12. CASE FinTimeout
  BY <1>0, <1>1, <1>12, GbnSenderQuiet
  DEF FinTimeout, AttemptFailed, Resent, SenderSends, Closed, AllSent
<1>13. CASE SenderReceive
  <2> PICK m \in toSender, intact \in Intact :
        \/ SynReceive(m, intact) \/ ConfirmReceive(m, intact)
        \/ RecvSkip(m, intact) \/ RecvStale(m, intact)
        \/ RecvCumulative(m, intact) \/ RecvSelective(m, intact)
        \/ FinReceive(m, intact)
    BY <1>13 DEF SenderReceive
  <2>0. \A out : SenderExchange(m, out) => /\ toSender' \subseteq toSender
                                           /\ toReceiver' = toReceiver \union out
    BY DEF SenderExchange, Taken
  <2>1. CASE SynReceive(m, intact)
    BY <1>0, <1>1, <2>0, <2>1, GbnSenderQuiet
    DEF SynReceive, AttemptFailed, Resent, Closed
  <2>2. CASE ConfirmReceive(m, intact)
    BY <1>0, <1>1, <2>0, <2>2, GbnSenderQuiet DEF ConfirmReceive, Closed
  <2>3. CASE RecvSkip(m, intact)
    BY <1>0, <2>0, <2>3, GbnSenderQuiet DEF RecvSkip, senderVars, Closed
  <2>4. CASE RecvStale(m, intact)
    BY <1>0, <2>0, <2>4, GbnSenderQuiet
    DEF RecvStale, RecvAck, TimerCheck, TimerExpires, Closed
  <2>5. CASE RecvCumulative(m, intact)
    BY <1>0, <2>5, GbnCumulative
  <2>6. CASE RecvSelective(m, intact)
    BY <2>6 DEF RecvSelective, GoBackN
  <2>7. CASE FinReceive(m, intact)
    BY <1>0, <1>1, <2>0, <2>7, GbnSenderQuiet
    DEF FinReceive, AttemptFailed, Resent, Closed, AllSent
  <2> QED BY <2>1, <2>2, <2>3, <2>4, <2>5, <2>6, <2>7
<1> QED BY <1>2, <1>3, <1>4, <1>5, <1>6, <1>7, <1>8, <1>9, <1>10, <1>11, <1>12,
           <1>13 DEF SenderStep, SenderNext
-----------------------------------------------------------------------------
(* A step of the receiver that writes nothing.                             *)
LEMMA GbnReceiverQuiet ==
    ASSUME GbnInv,
           UNCHANGED <<senderVars, file>>,
           toReceiver' \subseteq toReceiver,
           \A m \in toSender' :
              \/ m \in toSender
              \/ /\ "FIN" \notin m.flags => \E j \in 1 .. Len(file) + 1 : m.seq = Num(j)
                 /\ "FIN" \in m.flags => r_pc' \in {"finWait", "done"},
           r_pc' \in {"listen", "ackWait", "failed"} => file = <<>>,
           r_pc' = "ackWait" => reply_seq' = Num(1),
           r_pc' = "data" => expected' = Num(Len(file) + 1),
           r_pc' \in {"finWait", "done"} => Closed,
           r_pc \in {"finWait", "done"} => r_pc' \in {"finWait", "done"}
    PROVE  GbnInv'
<1> USE DEF senderVars
<1>1. /\ FirstSeq' = FirstSeq /\ \A c : Num(c)' = Num(c)
      /\ BaseBlock' = BaseBlock /\ Flight' = Flight
      /\ \A i : Dist(head, i)' = Dist(head, i)
      /\ Closed' = Closed
  BY NumKept DEF BaseBlock, Flight, Dist, Closed, AllSent
<1>2. SenderWindow'
  BY <1>1 DEF GbnInv, SenderWindow
<1>3. SenderRing'
  BY <1>1 DEF GbnInv, SenderRing
<1>4. SentPackets'
  BY <1>1 DEF GbnInv, SentPackets
<1>5. SentAcks'
  BY <1>1 DEF GbnInv, SentAcks
<1>6. ReceiverState'
  BY <1>1 DEF GbnInv, ReceiverState, PrefixDelivered
<1> QED BY <1>2, <1>3, <1>4, <1>5, <1>6 DEF GbnInv

LEMMA GbnInOrder ==
    ASSUME TypeOK, GbnInv, GoBackN, NEW m \in toReceiver, NEW intact,
           DataInOrder(m, intact), UNCHANGED senderVars
    PROVE  GbnInv'
<1> USE DEF senderVars
<1>1. /\ m.flags = {} /\ m.seq = expected /\ r_pc = "data" /\ r_pc' = "data"
      /\ file' = Append(file, m.block)
      /\ expected' = seqnum_next(expected)
      /\ toReceiver' \subseteq toReceiver
      /\ toSender' = toSender \union {AckPkt(expected')}
  BY DEF DataInOrder, DataPacket, seqnum_equal, ReceiverExchange, Taken
<1>2. m.block \in 1 .. pos /\ m.seq = Num(m.block) /\ expected = Num(Len(file) + 1)
  BY <1>1 DEF GbnInv, SentPackets, ReceiverState
<1>3. m.block = Len(file) + 1
  <2>1. m.block \in 1 .. SEQNUM_MAX /\ Len(file) + 1 \in 1 .. SEQNUM_MAX
    BY <1>2, GbnTypes, SeqNumAssumption
  <2> QED BY <1>1, <1>2, <2>1, NumInjective
<1>4. /\ Len(file) \in Nat /\ Len(file') = Len(file) + 1 /\ Len(file') \in 1 .. pos
      /\ \A i \in 1 .. Len(file) : file'[i] = file[i]
      /\ file'[Len(file')] = Len(file')
  BY <1>1, <1>2, <1>3 DEF TypeOK, ReceiverTypeOK
<1>5. expected' = Num(Len(file') + 1)
  <2>1. Len(file') \in 1 .. SEQNUM_MAX - 1
    BY <1>4, GbnTypes, SeqNumAssumption
  <2> QED BY <1>1, <1>2, <1>4, <2>1, NumNext
<1>6. /\ FirstSeq' = FirstSeq /\ \A c : Num(c)' = Num(c)
      /\ BaseBlock' = BaseBlock /\ Flight' = Flight
      /\ \A i : Dist(head, i)' = Dist(head, i)
      /\ Closed' = Closed
  BY NumKept DEF BaseBlock, Flight, Dist, Closed, AllSent
<1>7. SenderWindow'
  BY <1>4, <1>6, GbnTypes DEF GbnInv, SenderWindow
<1>8. SenderRing'
  BY <1>6 DEF GbnInv, SenderRing
<1>9. SentPackets'
  BY <1>1, <1>6 DEF GbnInv, SentPackets
<1>10. SentAcks'
  <2>1. AckPkt(expected').seq = Num(Len(file') + 1) /\ AckPkt(expected').flags = {"ACK"}
    BY <1>5 DEF AckPkt, Header
  <2>2. /\ Len(file') + 1 \in 1 .. Len(file') + 1
        /\ \A j \in 1 .. Len(file) + 1 : j \in 1 .. Len(file') + 1
    BY <1>4
  <2> QED BY <1>1, <1>6, <2>1, <2>2 DEF GbnInv, SentAcks
<1>11. ReceiverState'
  <2>1. PrefixDelivered'
    <3>1. \A i \in 1 .. Len(file') : file'[i] = i
      BY <1>4 DEF GbnInv, ReceiverState, PrefixDelivered
    <3>2. Len(file') =< FileLen
      BY <1>4, GbnTypes
    <3> QED BY <3>1, <3>2 DEF PrefixDelivered
  <2> QED BY <1>1, <1>4, <1>5, <1>6, <2>1, GbnTypes DEF ReceiverState
<1> QED BY <1>7, <1>8, <1>9, <1>10, <1>11 DEF GbnInv

LEMMA GbnReceiverStep ==
    ASSUME TypeInv, GbnInv, GoBackN, ReceiverStep
    PROVE  GbnInv'
<1> USE DEF buffers
<1>0. /\ TypeOK /\ UNCHANGED senderVars
      /\ r_pc \in {"listen", "ackWait", "failed"} => file = <<>>
      /\ r_pc = "ackWait" => reply_seq = Num(1)
      /\ r_pc = "data" => expected = Num(Len(file) + 1)
      /\ r_pc \in {"finWait", "done"} => Closed
  BY DEF TypeInv, ReceiverStep, GbnInv, ReceiverState
<1>1. \A q : /\ "FIN" \notin SynAckPkt(q).flags /\ SynAckPkt(q).seq = q
             /\ "FIN" \notin AckPkt(q).flags /\ AckPkt(q).seq = q
             /\ "FIN" \in FinAckPkt(q).flags
  BY DEF SynAckPkt, AckPkt, FinAckPkt, Header
<1>2. \A q \in {Num(1), Num(Len(file) + 1)} : \E j \in 1 .. Len(file) + 1 : q = Num(j)
  <2>1. 1 \in 1 .. Len(file) + 1 /\ Len(file) + 1 \in 1 .. Len(file) + 1
    BY <1>0, GbnTypes
  <2> QED BY <2>1
<1>3. CASE ListenTimeout
  BY <1>0, <1>3, GbnReceiverQuiet DEF ListenTimeout, channels
<1>4. CASE AckWaitTimeout
  BY <1>0, <1>1, <1>2, <1>4, GbnReceiverQuiet
  DEF AckWaitTimeout, WaitAgain, ReceiverSends
<1>5. CASE FinWaitTimeout
  BY <1>0, <1>5, GbnReceiverQuiet DEF FinWaitTimeout, channels
<1>6. CASE ReceiverReceive
  <2> PICK m \in toReceiver, intact \in Intact :
        \/ ListenReceive(m, intact) \/ AckWaitReceive(m, intact)
        \/ DataDrop(m, intact) \/ DataFin(m, intact)
        \/ DataInOrder(m, intact) \/ DataOutOfOrder(m, intact)
        \/ DataBuffer(m, intact) \/ DataAllocFails(m, intact)
        \/ DataReack(m, intact) \/ FinWaitReceive(m, intact)
    BY <1>6 DEF ReceiverReceive
  <2>0. /\ \A out : ReceiverExchange(m, out) =>
              toReceiver' \subseteq toReceiver /\ toSender' = toSender \union out
        /\ m.flags = {"SYN"} => seqnum_next(m.seq) = Num(1)
        /\ "FIN" \in m.flags => Closed
    BY <1>0, NumNext DEF ReceiverExchange, Taken, GbnInv, SentPackets, FirstSeq
  <2>1. CASE ListenReceive(m, intact)
    BY <1>0, <1>1, <1>2, <2>0, <2>1, GbnReceiverQuiet DEF ListenReceive
  <2>2. CASE AckWaitReceive(m, intact)
    <3>1. file = <<>> /\ Len(file) + 1 = 1
      BY <1>0, <2>2 DEF AckWaitReceive
    <3> QED BY <1>0, <2>0, <2>2, <3>1, GbnReceiverQuiet DEF AckWaitReceive, WaitAgain
  <2>3. CASE DataDrop(m, intact)
    BY <1>0, <2>0, <2>3, GbnReceiverQuiet DEF DataDrop, receiverVars
  <2>4. CASE DataFin(m, intact)
    BY <1>0, <1>1, <2>0, <2>4, GbnReceiverQuiet DEF DataFin
  <2>5. CASE DataInOrder(m, intact)
    BY <1>0, <2>5, GbnInOrder
  <2>6. CASE DataOutOfOrder(m, intact)
    BY <1>0, <1>1, <1>2, <2>0, <2>6, GbnReceiverQuiet DEF DataOutOfOrder, DataPacket
  <2>7. CASE DataBuffer(m, intact) \/ DataAllocFails(m, intact) \/ DataReack(m, intact)
    BY <2>7 DEF DataBuffer, DataAllocFails, DataReack, GoBackN
  <2>8. CASE FinWaitReceive(m, intact)
    BY <1>0, <1>1, <2>0, <2>8, GbnReceiverQuiet DEF FinWaitReceive, receiverVars
  <2> QED BY <2>1, <2>2, <2>3, <2>4, <2>5, <2>6, <2>7, <2>8
<1> QED BY <1>3, <1>4, <1>5, <1>6 DEF ReceiverStep, ReceiverNext

LEMMA GbnStutter ==
    ASSUME GbnInv, UNCHANGED vars
    PROVE  GbnInv'
<1>1. r_pc \in {"listen", "ackWait", "failed"} => file = <<>>
  BY DEF GbnInv, ReceiverState
<1> QED BY <1>1, GbnReceiverQuiet DEF GbnInv, ReceiverState, vars, channels, receiverVars

-----------------------------------------------------------------------------
(* What GbnInv implies.                                                    *)
LEMMA GbnAllSent ==
    ASSUME TypeOK, GbnInv, GoBackN, Closed
    PROVE  Len(file) = FileLen
<1>1. pos = FileLen /\ Flight = 0
  BY DEF Closed, AllSent, GbnInv, SenderRing
<1>2. BaseBlock = pos + 1
  BY <1>1, GbnTypes DEF Flight
<1> QED BY <1>1, <1>2, GbnTypes DEF GbnInv, SenderWindow

LEMMA GbnComplete ==
    ASSUME TypeOK, GbnInv, GoBackN
    PROVE  CompleteOnClose
BY GbnAllSent DEF CompleteOnClose, Closing, GbnInv, SenderRing, ReceiverState

LEMMA GbnOutstanding ==
    ASSUME TypeOK, GbnInv, GoBackN
    PROVE  Outstanding = {Slot(head, k) : k \in 0 .. Flight - 1}
<1>1. Outstanding = {i \in Slots : Dist(head, i) < Flight}
  BY DEF Outstanding, GbnInv, SenderRing
<1> QED BY <1>1, GbnTypes, LeadingByDist DEF Leading

LEMMA GbnArrived ==
    ASSUME TypeOK, GbnInv, GoBackN
    PROVE  AckedHasArrived
<1> SUFFICES ASSUME NEW c \in 1 .. pos,
                    c \notin {packets[i].block : i \in Outstanding}
             PROVE  c \in Arrived
  BY DEF AckedHasArrived
<1>1. c < BaseBlock
  <2> SUFFICES ASSUME c >= BaseBlock PROVE FALSE
    BY GbnTypes
  <2> DEFINE k == c - BaseBlock
  <2>1. k \in 0 .. Flight - 1 /\ k \in Slots /\ BaseBlock + k = c /\ k < Flight
    <3>1. k \in 0 .. Flight - 1 /\ BaseBlock + k = c
      BY GbnTypes DEF Flight
    <3> QED BY <3>1, GbnTypes, WType DEF Slots
  <2> HIDE DEF k
  <2>2. Slot(head, k) \in Outstanding /\ Slot(head, k) \in Slots
    BY <2>1, GbnOutstanding DEF Outstanding
  <2>3. Dist(head, Slot(head, k)) = k
    BY <2>1, GbnTypes, DistOfSlot
  <2>4. packets[Slot(head, k)] = DataPkt(Num(c), c)
    BY <2>1, <2>2, <2>3 DEF GbnInv, SenderRing
  <2> QED BY <2>2, <2>4 DEF DataPkt
<1>2. c \in 1 .. Len(file)
  BY <1>1, GbnTypes DEF GbnInv, SenderWindow
<1>3. file[c] = c
  BY <1>2 DEF GbnInv, ReceiverState, PrefixDelivered
<1> QED BY <1>2, <1>3 DEF Arrived

LEMMA GbnRing ==
    ASSUME TypeOK, GbnInv, GoBackN
    PROVE  RingCoherent
<1>1. InFlight = Flight /\ Flight \in 0 .. W
  BY GbnTypes, GbnInFlight
<1>2. ASSUME NEW k \in 0 .. W - 1
      PROVE  Slot(head, k) \in Slots /\ Dist(head, Slot(head, k)) = k /\ k \in Int
  <2>1. k \in Slots /\ k \in Int
    BY WType DEF Slots
  <2> QED BY <2>1, GbnTypes, SlotType, DistOfSlot
<1>3. ASSUME NEW k \in 0 .. InFlight - 1
      PROVE  /\ used[Slot(head, k)]
             /\ packets[Slot(head, k)] =
                   DataPkt(Mask(base_seq + k), pos - InFlight + k + 1)
  <2>1. k \in 0 .. W - 1 /\ k < Flight
    BY <1>1, WType
  <2>2. pos - InFlight + k + 1 = BaseBlock + k /\ FirstSeq + (BaseBlock + k) - 1 = base_seq + k
    <3>1. /\ base_seq \in Int /\ FirstSeq \in Int /\ pos \in Int /\ k \in Int
          /\ BaseBlock = base_seq - FirstSeq + 1
      BY <2>1, GbnTypes, WType, SeqNumAssumption DEF SeqNums, BaseBlock
    <3>2. InFlight = pos + 1 - BaseBlock
      BY <1>1 DEF Flight
    <3> QED BY <3>1, <3>2
  <2>3. Num(BaseBlock + k) = Mask(base_seq + k)
    BY <2>2 DEF Num
  <2>4. /\ used[Slot(head, k)]
        /\ packets[Slot(head, k)] = DataPkt(Num(BaseBlock + k), BaseBlock + k)
    BY <1>2, <2>1 DEF GbnInv, SenderRing
  <2> QED BY <2>2, <2>3, <2>4
<1>4. ASSUME NEW k \in InFlight .. W - 1
      PROVE  ~used[Slot(head, k)] /\ ~acked[Slot(head, k)]
  <2>1. k \in 0 .. W - 1 /\ ~(k < Flight)
    BY <1>1, WType
  <2> QED BY <1>2, <2>1 DEF GbnInv, SenderRing
<1>5. ~acked[head] /\ InFlight =< W
  BY <1>1, GbnTypes DEF GbnInv, SenderRing
<1> QED BY <1>3, <1>4, <1>5 DEF RingCoherent

LEMMA GbnInStep ==
    ASSUME TypeOK, GbnInv, GoBackN
    PROVE  WindowsInStep
<1> SUFFICES ASSUME r_pc = "data" PROVE Mask(expected - base_seq) =< InFlight
  BY DEF WindowsInStep, GoBackN
<1> DEFINE c == Len(file) + 1
<1>1. c \in 1 .. SEQNUM_MAX /\ c \in BaseBlock .. pos + 1 /\ c - BaseBlock =< Flight
  BY GbnTypes, SeqNumAssumption DEF GbnInv, SenderWindow, Flight
<1>2. expected = Num(c)
  BY DEF GbnInv, ReceiverState
<1>3. /\ FirstSeq \in 0 .. SEQNUM_MAX - 1 /\ base_seq \in FirstSeq .. SEQNUM_MAX - 1
      /\ base_seq = FirstSeq + BaseBlock - 1 /\ BaseBlock \in Int
  BY GbnInts, SeqNumAssumption
<1> HIDE DEF c
<1>4. \/ expected - base_seq = c - BaseBlock /\ c - BaseBlock \in SeqNums
      \/ /\ expected - base_seq = c - BaseBlock - SEQNUM_MAX
         /\ c - BaseBlock - SEQNUM_MAX \in -SEQNUM_MAX .. -1
  BY <1>1, <1>2, <1>3, NumForm, SeqNumAssumption DEF SeqNums
<1>5. Mask(expected - base_seq) = c - BaseBlock
  BY <1>1, <1>3, <1>4, MaskCases, SeqNumAssumption
<1> QED BY <1>1, <1>5, GbnInFlight

LEMMA GbnCount ==
    ASSUME TypeOK, GbnInv, GoBackN
    PROVE  UnackedCountExact
<1> DEFINE nth == [k \in 1 .. Flight |-> Slot(head, k - 1)]
<1>1. /\ Flight \in Nat
      /\ \A k \in 1 .. Flight : k - 1 \in Slots /\ k - 1 \in 0 .. Flight - 1
  BY GbnTypes, WType DEF Slots
<1>2. Outstanding = {Slot(head, k) : k \in 0 .. Flight - 1}
  BY GbnOutstanding
<1>3. nth \in [1 .. Flight -> Outstanding]
  BY <1>1, <1>2
<1>4. ASSUME NEW j \in 1 .. Flight, NEW k \in 1 .. Flight, nth[j] = nth[k]
      PROVE  j = k
  <2>1. j - 1 = k - 1
    BY <1>1, <1>4, GbnTypes, DistOfSlot
  <2> QED BY <2>1
<1>5. ASSUME NEW i \in Outstanding
      PROVE  \E k \in 1 .. Flight : nth[k] = i
  <2>1. PICK k \in 0 .. Flight - 1 : i = Slot(head, k)
    BY <1>2
  <2>2. k + 1 \in 1 .. Flight /\ (k + 1) - 1 = k
    BY <1>1
  <2> QED BY <2>1, <2>2
<1> HIDE DEF nth
<1>6. nth \in Bijection(1 .. Flight, Outstanding)
  BY <1>3, <1>4, <1>5 DEF Bijection, Injection, Surjection, IsInjective
<1>7. Cardinality(Outstanding) = Flight
  BY <1>1, <1>6, FS_CountingElements DEF ExistsBijection
<1> QED BY <1>7 DEF UnackedCountExact, GbnInv, SenderRing

(* How far one step moves the base.                                        *)
LEMMA GbnBaseStep ==
    ASSUME TypeInv, GbnInv, GoBackN, [Next]_vars
    PROVE  Mask(base_seq' - base_seq) =< InFlight
<1> USE DEF ring, loop
<1>0. TypeOK /\ Flight \in Nat /\ InFlight = Flight
  BY GbnTypes, GbnInFlight, WType DEF TypeInv
<1>1. CASE UNCHANGED base_seq
  <2>1. base_seq' - base_seq = 0 /\ 0 \in SeqNums
    BY <1>0, <1>1, GbnTypes, SeqNumAssumption DEF SeqNums
  <2> QED BY <1>0, <2>1, MaskCases
<1>2. CASE \E m \in toSender, intact \in Intact : RecvCumulative(m, intact)
  <2>1. PICK m \in toSender, intact \in Intact : RecvCumulative(m, intact)
    BY <1>2
  <2>2. "FIN" \notin m.flags /\ ~StaleAck(m.seq) /\ base_seq' = m.seq
    BY <2>1 DEF RecvCumulative, RecvAck, Closed, GbnInv, SentAcks
  <2>3. PICK j \in BaseBlock .. Len(file) + 1 :
           Mask(m.seq - base_seq) = j - BaseBlock
    BY <1>0, <2>2, GbnAckInWindow
  <2> QED BY <1>0, <2>2, <2>3, GbnTypes DEF Flight
<1>3. UNCHANGED base_seq \/ \E m \in toSender, intact \in Intact : RecvCumulative(m, intact)
  <2>1. CASE SenderNext /\ ~SenderReceive
    BY <2>1
    DEF SenderNext, SenderStart, SynTimeout, ConfirmTimeout, MainExit, MainAbort,
        MainRound, FillFull, FillEof, FillSend, RecvTimeout, FinTimeout
  <2>2. CASE SenderReceive
    <3>1. PICK m \in toSender, intact \in Intact :
            \/ SynReceive(m, intact) \/ ConfirmReceive(m, intact)
            \/ RecvSkip(m, intact) \/ RecvStale(m, intact)
            \/ RecvCumulative(m, intact) \/ RecvSelective(m, intact)
            \/ FinReceive(m, intact)
      BY <2>2 DEF SenderReceive
    <3>2. ~RecvSelective(m, intact)
      BY DEF RecvSelective, GoBackN
    <3>3. CASE RecvCumulative(m, intact)
      BY <3>3
    <3>4. CASE ~RecvCumulative(m, intact)
      BY <3>1, <3>2, <3>4
      DEF SynReceive, ConfirmReceive, RecvSkip, RecvStale, FinReceive, senderVars
    <3> QED BY <3>3, <3>4
  <2>3. CASE ReceiverStep \/ UNCHANGED vars
    BY <2>3 DEF ReceiverStep, vars, senderVars
  <2> QED BY <2>1, <2>2, <2>3 DEF Next, SenderStep
<1> QED BY <1>1, <1>2, <1>3
-----------------------------------------------------------------------------
LEMMA GbnTypeInvariant ==
    ASSUME GoBackN
    PROVE  Spec => [](TypeInv /\ GbnInv)
<1>1. Init => TypeInv /\ GbnInv
  BY TypeInit, GbnInit
<1>2. TypeInv /\ GbnInv /\ [Next]_vars => (TypeInv /\ GbnInv)'
  BY TypeSenderStep, TypeReceiverStep, TypeStutter,
     GbnSenderStep, GbnReceiverStep, GbnStutter DEF Next
<1> QED BY <1>1, <1>2, PTL DEF Spec

(* GbnInv holds throughout every Go-Back-N transfer, whatever the path     *)
(* does to the packets of the two programs.                                *)
THEOREM GbnInvariant ==
    ASSUME GoBackN
    PROVE  Spec => []GbnInv
BY GbnTypeInvariant, PTL

(* What the receiver has written (rtp_data_receiver) is always a prefix of *)
(* the file the sender reads.                                              *)
THEOREM GbnPrefix ==
    ASSUME GoBackN
    PROVE  Spec => []PrefixDelivered
<1>1. TypeInv /\ GbnInv => PrefixDelivered
  BY DEF GbnInv, ReceiverState
<1> QED BY <1>1, GbnTypeInvariant, PTL

(* When the sender has sent its FIN, or the receiver has accepted one, the *)
(* receiver has written the whole file.                                    *)
THEOREM GbnCloses ==
    ASSUME GoBackN
    PROVE  Spec => []CompleteOnClose
<1>1. TypeInv /\ GbnInv => CompleteOnClose
  BY GbnComplete DEF TypeInv
<1> QED BY <1>1, GbnTypeInvariant, PTL

(* A block the sender has dropped from its window is in the output file.   *)
THEOREM GbnAcknowledged ==
    ASSUME GoBackN
    PROVE  Spec => []AckedHasArrived
<1>1. TypeInv /\ GbnInv => AckedHasArrived
  BY GbnArrived DEF TypeInv
<1> QED BY <1>1, GbnTypeInvariant, PTL

(* The sender's ring holds the packets in flight, in order, and nothing    *)
(* else.                                                                   *)
THEOREM GbnRingCoherent ==
    ASSUME GoBackN
    PROVE  Spec => []RingCoherent
<1>1. TypeInv /\ GbnInv => RingCoherent
  BY GbnRing DEF TypeInv
<1> QED BY <1>1, GbnTypeInvariant, PTL

(* The 8-bit counter of unacknowledged packets is exact, for every window  *)
(* of up to 128 packets: it never wraps.                                   *)
THEOREM GbnCountExact ==
    ASSUME GoBackN
    PROVE  Spec => []UnackedCountExact
<1>1. TypeInv /\ GbnInv => UnackedCountExact
  BY GbnCount DEF TypeInv
<1> QED BY <1>1, GbnTypeInvariant, PTL

(* The number the receiver expects is always in the sender's window, or    *)
(* the first one after it.                                                 *)
THEOREM GbnWindowsInStep ==
    ASSUME GoBackN
    PROVE  Spec => []WindowsInStep
<1>1. TypeInv /\ GbnInv => WindowsInStep
  BY GbnInStep DEF TypeInv
<1> QED BY <1>1, GbnTypeInvariant, PTL

(* No acknowledgement moves the sender's base backwards or past what it    *)
(* has sent.                                                               *)
THEOREM GbnBaseWithinFlight ==
    ASSUME GoBackN
    PROVE  Spec => BaseWithinFlight
<1>1. TypeInv /\ GbnInv /\ [Next]_vars => [Mask(base_seq' - base_seq) =< InFlight]_vars
  BY GbnBaseStep
<1> QED BY <1>1, GbnTypeInvariant, PTL DEF Spec, BaseWithinFlight
-----------------------------------------------------------------------------
(* Rtp implements ReliableTransfer: each step is a step of it or changes   *)
(* nothing it sees.                                                        *)
LEMMA TransferInit == Init => Transfer!Init
BY StatusCases DEF Init, SenderInit, SenderAt, ReceiverInit, ReceiverAt, Transfer!Init

LEMMA TransferReceiverStep ==
    ASSUME TypeInv, GbnInv, TypeInv', GbnInv', GoBackN, ReceiverStep
    PROVE  \/ Transfer!Deliver \/ Transfer!ReceiverCloses \/ Transfer!ReceiverFails
           \/ UNCHANGED Transfer!transferVars
<1> USE DEF buffers
<1>0. /\ TypeOK /\ UNCHANGED <<senderVars, SenderStatus>>
      /\ r_pc \in {"listen", "ackWait", "failed"} => file = <<>>
      /\ file \in Seq(Blocks) /\ file' \in Seq(Blocks) /\ PrefixDelivered
      /\ Len(file') =< FileLen /\ \A i \in 1 .. Len(file') : file'[i] = i
  BY DEF TypeInv, TypeOK, ReceiverTypeOK, ReceiverStep, senderVars, SenderStatus,
         GbnInv, ReceiverState, PrefixDelivered
<1>1. CASE UNCHANGED file /\ r_pc = "data" /\ r_pc' = "finWait"
  <2>1. Closed
    BY <1>0, <1>1 DEF GbnInv, ReceiverState, Closed, AllSent, senderVars
  <2>2. file = Transfer!Source
    BY <1>0, <2>1, GbnAllSent, WholeIsSource DEF PrefixDelivered
  <2> QED BY <1>0, <1>1, <2>2, StatusCases, StatusCasesNext DEF Transfer!ReceiverCloses
<1>2. CASE UNCHANGED file /\ r_pc \in {"listen", "ackWait"} /\ r_pc' = "failed"
  BY <1>0, <1>2, StatusCases, StatusCasesNext DEF Transfer!ReceiverFails
<1>3. CASE /\ UNCHANGED file
           /\ \/ r_pc \in {"finWait", "done"} /\ r_pc' \in {"finWait", "done"}
              \/ /\ r_pc \in {"listen", "ackWait", "data"}
                 /\ r_pc' \in {"listen", "ackWait", "data"}
  BY <1>0, <1>3, StatusCases, StatusCasesNext DEF Transfer!transferVars
<1>4. CASE \E m \in toReceiver, intact \in Intact : DataInOrder(m, intact)
  <2>1. /\ r_pc = "data" /\ r_pc' = "data"
        /\ \E b \in Blocks : file' = Append(file, b)
    BY <1>0, <1>4 DEF DataInOrder, DataPacket, TypeOK, Packets
  <2>2. Len(file') \in Len(file) + 1 .. FileLen
    BY <1>0, <2>1, WireAssumption
  <2>3. file' = SubSeq(Transfer!Source, 1, Len(file'))
    BY <1>0, PrefixIsSource
  <2> QED BY <1>0, <2>1, <2>2, <2>3, StatusCases, StatusCasesNext DEF Transfer!Deliver
<1>5. \/ \E m \in toReceiver, intact \in Intact : DataInOrder(m, intact)
      \/ /\ UNCHANGED file
         /\ \/ r_pc = "data" /\ r_pc' = "finWait"
            \/ r_pc \in {"listen", "ackWait"} /\ r_pc' = "failed"
            \/ r_pc \in {"finWait", "done"} /\ r_pc' \in {"finWait", "done"}
            \/ /\ r_pc \in {"listen", "ackWait", "data"}
               /\ r_pc' \in {"listen", "ackWait", "data"}
  <2>1. CASE ListenTimeout \/ AckWaitTimeout \/ FinWaitTimeout
    BY <2>1 DEF ListenTimeout, AckWaitTimeout, FinWaitTimeout, WaitAgain
  <2>2. CASE ReceiverReceive
    <3> PICK m \in toReceiver, intact \in Intact :
          \/ ListenReceive(m, intact) \/ AckWaitReceive(m, intact)
          \/ DataDrop(m, intact) \/ DataFin(m, intact)
          \/ DataInOrder(m, intact) \/ DataOutOfOrder(m, intact)
          \/ DataBuffer(m, intact) \/ DataAllocFails(m, intact)
          \/ DataReack(m, intact) \/ FinWaitReceive(m, intact)
      BY <2>2 DEF ReceiverReceive
    <3>1. CASE ListenReceive(m, intact) \/ AckWaitReceive(m, intact)
      BY <3>1 DEF ListenReceive, AckWaitReceive, WaitAgain
    <3>2. CASE DataDrop(m, intact) \/ DataFin(m, intact) \/ FinWaitReceive(m, intact)
      BY <3>2 DEF DataDrop, DataFin, FinWaitReceive, receiverVars
    <3>3. CASE DataOutOfOrder(m, intact)
      BY <3>3 DEF DataOutOfOrder, DataPacket
    <3>4. CASE DataBuffer(m, intact) \/ DataAllocFails(m, intact) \/ DataReack(m, intact)
      BY <3>4 DEF DataBuffer, DataAllocFails, DataReack, GoBackN
    <3> QED BY <3>1, <3>2, <3>3, <3>4
  <2> QED BY <2>1, <2>2 DEF ReceiverStep, ReceiverNext
<1> QED BY <1>1, <1>2, <1>3, <1>4, <1>5

(* A Go-Back-N transfer is a reliable transfer: blocks are appended to the *)
(* output file in the order of the input file, the receiver closes only    *)
(* with the whole file and the sender reports success only after that.     *)
THEOREM GbnImplementsTransfer ==
    ASSUME GoBackN
    PROVE  Spec => TransferSpec
<1>1. Init => Transfer!Init
  BY TransferInit
<1>2. TypeInv /\ GbnInv /\ (TypeInv /\ GbnInv)' /\ [Next]_vars
        => [Transfer!Next]_(Transfer!transferVars)
  <2> SUFFICES ASSUME TypeInv, GbnInv, TypeInv', GbnInv', [Next]_vars
               PROVE  [Transfer!Next]_(Transfer!transferVars)
    OBVIOUS
  <2>1. CASE SenderStep
    BY <2>1, TransferSenderStep DEF Transfer!Next, GbnInv, SentAcks
  <2>2. CASE ReceiverStep
    BY <2>2, TransferReceiverStep DEF Transfer!Next
  <2>3. CASE UNCHANGED vars
    BY <2>3 DEF vars, senderVars, receiverVars, SenderStatus, ReceiverStatus,
                Transfer!transferVars
  <2> QED BY <2>1, <2>2, <2>3 DEF Next
<1> QED BY <1>1, <1>2, GbnTypeInvariant, PTL DEF Spec, TransferSpec, Transfer!Spec
=============================================================================
