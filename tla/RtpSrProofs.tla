----------------------------- MODULE RtpSrProofs -----------------------------
(***************************************************************************)
(* SrInv and SrArrival are invariants of Rtp in selective-repeat mode, for *)
(* every window, every number of retries, every initial number and every   *)
(* file that fits, with one window, into the circle of sequence numbers;   *)
(* what follows from them.                                                 *)
(***************************************************************************)
EXTENDS RtpSr, RtpProofs, FiniteSetTheorems

(* What the theorems below assume of the constants.  The file is not       *)
(* empty: with no packet in flight, the number of a late SYN-ACK would     *)
(* pass for an acknowledgement of the base.                                *)
SelectiveRepeat == Mode = 1 /\ FileLen > 0 /\ FileLen + W =< SEQNUM_MAX

(* The distance between two numbers is that of their blocks.               *)
LEMMA NumDiff ==
    ASSUME TypeOK
    PROVE  \A c, d \in 1 .. SEQNUM_MAX :
              Mask(Num(c) - Num(d)) = IF c >= d THEN c - d ELSE c - d + SEQNUM_MAX
<1> SUFFICES ASSUME NEW c \in 1 .. SEQNUM_MAX, NEW d \in 1 .. SEQNUM_MAX
             PROVE  Mask(Num(c) - Num(d)) = IF c >= d THEN c - d ELSE c - d + SEQNUM_MAX
  OBVIOUS
<1>1. /\ Num(c) \in 0 .. SEQNUM_MAX - 1 /\ Num(d) \in 0 .. SEQNUM_MAX - 1
      /\ FirstSeq \in 0 .. SEQNUM_MAX - 1 /\ SEQNUM_MAX \in Nat
      /\ Num(c) = IF FirstSeq + c - 1 < SEQNUM_MAX
                  THEN FirstSeq + c - 1 ELSE FirstSeq + c - 1 - SEQNUM_MAX
      /\ Num(d) = IF FirstSeq + d - 1 < SEQNUM_MAX
                  THEN FirstSeq + d - 1 ELSE FirstSeq + d - 1 - SEQNUM_MAX
  BY NumForm, NumType, SeqNumAssumption DEF SeqNums
<1>2. Num(c) - Num(d) \in {c - d, c - d + SEQNUM_MAX, c - d - SEQNUM_MAX}
  BY <1>1
<1>3. Mask(Num(c) - Num(d)) \in {Num(c) - Num(d), Num(c) - Num(d) + SEQNUM_MAX}
  <2>1. CASE Num(c) - Num(d) >= 0
    <3>1. Num(c) - Num(d) \in SeqNums
      BY <1>1, <2>1 DEF SeqNums
    <3> QED BY <3>1, MaskCases
  <2>2. CASE Num(c) - Num(d) < 0
    <3>1. Num(c) - Num(d) \in -SEQNUM_MAX .. -1
      BY <1>1, <2>2
    <3> QED BY <3>1, MaskCases
  <2> QED BY <1>1, <2>1, <2>2
<1>4. Mask(Num(c) - Num(d)) \in 0 .. SEQNUM_MAX - 1
  <2>1. Num(c) - Num(d) \in Int
    BY <1>1
  <2> QED BY <2>1, MaskCases DEF SeqNums
<1> QED BY <1>1, <1>2, <1>3, <1>4

LEMMA NumPlus ==
    ASSUME TypeOK
    PROVE  \A c \in 1 .. SEQNUM_MAX, n \in 0 .. SEQNUM_MAX :
              c + n =< SEQNUM_MAX => Mask(Num(c) + n) = Num(c + n)
<1> SUFFICES ASSUME NEW c \in 1 .. SEQNUM_MAX, NEW n \in 0 .. SEQNUM_MAX,
                    c + n =< SEQNUM_MAX
             PROVE  Mask(Num(c) + n) = Num(c + n)
  OBVIOUS
<1>1. /\ c + n \in 1 .. SEQNUM_MAX
      /\ FirstSeq \in 0 .. SEQNUM_MAX - 1 /\ SEQNUM_MAX \in Nat
      /\ Num(c) = IF FirstSeq + c - 1 < SEQNUM_MAX
                  THEN FirstSeq + c - 1 ELSE FirstSeq + c - 1 - SEQNUM_MAX
  BY NumForm, SeqNumAssumption DEF SeqNums
<1>2. Num(c + n) = IF FirstSeq + (c + n) - 1 < SEQNUM_MAX
                   THEN FirstSeq + (c + n) - 1 ELSE FirstSeq + (c + n) - 1 - SEQNUM_MAX
  BY <1>1, NumForm
<1> DEFINE x == Num(c) + n
<1>3. x \in 0 .. 2 * SEQNUM_MAX - 1
  BY <1>1
<1>4. Mask(x) = IF x < SEQNUM_MAX THEN x ELSE x - SEQNUM_MAX
  <2> HIDE DEF x
  <2>1. x < SEQNUM_MAX => x \in SeqNums
    BY <1>1, <1>3 DEF SeqNums
  <2>2. ~(x < SEQNUM_MAX) => x \in SEQNUM_MAX .. 2 * SEQNUM_MAX - 1
    BY <1>1, <1>3
  <2> QED BY <2>1, <2>2, MaskCases
<1> QED BY <1>1, <1>2, <1>3, <1>4

(* A loop that slides a window over slots all of which are among the first *)
(* n stops within n, and passes only slots that hold.                      *)
LEMMA RunWithin ==
    ASSUME NEW holds, NEW h \in Slots, NEW n \in 0 .. W,
           \A i \in Slots : holds[i] => Dist(h, i) < n
    PROVE  /\ Run(holds, h) \in 0 .. n
           /\ \A i \in Slots : Dist(h, i) < Run(holds, h) => holds[i]
<1> DEFINE run == Run(holds, h)
<1>1. run \in 0 .. W /\ \A k \in 0 .. run - 1 : holds[Slot(h, k)]
  BY RunType
<1> HIDE DEF run
<1>2. run =< n
  <2> SUFFICES ASSUME n < run PROVE FALSE
    BY <1>1, WType
  <2>1. n \in Slots /\ n \in Int /\ n \in 0 .. run - 1
    BY <1>1, WType DEF Slots
  <2>2. Slot(h, n) \in Slots /\ Dist(h, Slot(h, n)) = n /\ holds[Slot(h, n)]
    BY <1>1, <2>1, SlotType, DistOfSlot
  <2>3. Dist(h, Slot(h, n)) < n
    BY <2>2
  <2> QED BY <2>1, <2>2, <2>3
<1>3. ASSUME NEW i \in Slots, Dist(h, i) < run
      PROVE  holds[i]
  <2>1. Dist(h, i) \in 0 .. run - 1 /\ Slot(h, Dist(h, i)) = i
    BY <1>1, <1>3, DistType, DistOfSlot, WType DEF Slots
  <2> QED BY <1>1, <2>1
<1> QED BY <1>1, <1>2, <1>3, WType DEF run
-----------------------------------------------------------------------------
(* The numbers of an established transfer: those of a window and of blocks *)
SrNumbers == /\ SEQNUM_MAX \in Nat /\ W \in Nat /\ 1 =< W /\ W =< 128 /\ W < SEQNUM_MAX
             /\ FileLen \in Nat /\ 1 =< FileLen /\ FileLen + W =< SEQNUM_MAX
             /\ pos \in 0 .. FileLen
             /\ InFlight \in 0 .. W /\ InFlight =< pos
             /\ BaseBlock \in 1 .. pos + 1 /\ BaseBlock + InFlight = pos + 1
             /\ Len(file) \in 0 .. pos /\ NextBlock \in 1 .. pos + 1
             /\ base_seq \in SeqNums /\ nextseqnum \in SeqNums /\ FirstSeq \in SeqNums
             /\ head \in Slots /\ r_head \in Slots

(* They follow from the types and the windows.                             *)
LEMMA SrTypes ==
    ASSUME TypeOK, SrInv, SelectiveRepeat
    PROVE  SrNumbers
<1>1. /\ W \in Nat /\ 1 =< W /\ W =< 128 /\ SEQNUM_MAX \in Nat
      /\ FileLen \in Nat /\ 1 =< FileLen /\ FileLen + W =< SEQNUM_MAX
  BY WType, WireAssumption, SeqNumAssumption DEF SelectiveRepeat, W
<1>2. /\ pos \in 0 .. FileLen
      /\ base_seq \in SeqNums /\ nextseqnum \in SeqNums /\ FirstSeq \in SeqNums
      /\ head \in Slots /\ r_head \in Slots /\ Len(file) \in Nat
  BY NumForm DEF TypeOK, SenderTypeOK, ReceiverTypeOK, Blocks
<1>3. InFlight \in 0 .. SEQNUM_MAX - 1
  <2>1. nextseqnum - base_seq \in Int
    BY <1>1, <1>2 DEF SeqNums
  <2> QED BY <2>1, MaskCases DEF InFlight, SeqNums
<1>4. InFlight =< W /\ InFlight =< pos /\ Len(file) =< pos
  BY DEF SrInv, SenderWindow, ReceiverState
<1> QED BY <1>1, <1>2, <1>3, <1>4 DEF BaseBlock, NextBlock, SrNumbers

LEMMA OutstandingFinite ==
    IsFiniteSet(Outstanding) /\ Cardinality(Outstanding) \in 0 .. W
<1>1. IsFiniteSet(Slots) /\ Cardinality(Slots) = W
  BY FS_Interval, WType DEF Slots
<1>2. Outstanding \in SUBSET Slots
  BY DEF Outstanding
<1>3. IsFiniteSet(Outstanding) /\ Cardinality(Outstanding) =< W
  BY <1>1, <1>2, FS_Subset
<1> QED BY <1>3, WType, FS_CardinalityType

(* When nothing waits for an acknowledgement, nothing is in flight.        *)
LEMMA SrNothingOutstanding ==
    ASSUME TypeOK, SrInv, SelectiveRepeat, unackedCnt = 0
    PROVE  InFlight = 0
<1>n. SrNumbers
  BY SrTypes
<1>1. Outstanding = {}
  BY OutstandingFinite, FS_EmptySet DEF SrInv, SenderRing, UnackedCountExact
<1>2. Dist(head, head) = 0 /\ head \in Slots
  BY <1>n DEF SrNumbers, Dist, Slots
<1>3. InFlight > 0 => head \in Outstanding
  BY <1>2 DEF SrInv, SenderRing, Outstanding
<1> QED BY <1>1, <1>3, <1>n DEF SrNumbers

(* The window after a step that makes n of its packets, or one more, its   *)
(* own: the numbers at its ends say what its first and last blocks are.    *)
LEMMA SrWindowFrom ==
    ASSUME TypeOK, NEW b \in 1 .. SEQNUM_MAX, NEW p \in Nat, p + 1 \in b .. SEQNUM_MAX,
           syn_seq' = syn_seq, pos' = p,
           base_seq' = Num(b), nextseqnum' = Num(p + 1)
    PROVE  InFlight' = p + 1 - b /\ BaseBlock' = b
<1>1. InFlight' = Mask(Num(p + 1) - Num(b))
  BY DEF InFlight
<1>2. p + 1 \in 1 .. SEQNUM_MAX /\ p + 1 >= b
  BY SeqNumAssumption
<1>3. InFlight' = p + 1 - b
  BY <1>1, <1>2, NumDiff
<1> QED BY <1>3, SeqNumAssumption DEF BaseBlock
-----------------------------------------------------------------------------
LEMMA SrInit ==
    ASSUME Init \/ InitEstablished, TypeOK, SelectiveRepeat
    PROVE  SrInv
<1> USE DEF Init, InitEstablished, SenderInit, SenderAt, ReceiverInit, ReceiverAt
<1>1. /\ base_seq = FirstSeq /\ nextseqnum = FirstSeq /\ FirstSeq \in SeqNums
      /\ pos = 0 /\ file = <<>> /\ Len(file) = 0
      /\ toSender = {} /\ toReceiver = {} /\ head \in Slots
      /\ r_pc \in {"listen", "data"} /\ s_pc \in {"start", "main"}
  BY NumForm DEF FirstSeq, TypeOK, SenderTypeOK
<1>2. InFlight = 0 /\ BaseBlock = 1 /\ Num(1) = FirstSeq
  <2>1. nextseqnum - base_seq = 0 /\ 0 \in SeqNums
    BY <1>1, SeqNumAssumption DEF SeqNums
  <2>2. InFlight = 0
    BY <2>1, MaskCases DEF InFlight
  <2> QED BY <1>1, <2>2, NumNext DEF BaseBlock
<1>3. SenderWindow
  BY <1>1, <1>2, WType DEF SenderWindow
<1>4. SenderRing
  <2>1. \A i \in Slots : ~(Dist(head, i) < 0)
    BY <1>1, DistType, WType DEF Slots
  <2>2. Outstanding = {}
    BY DEF Outstanding
  <2>3. UnackedCountExact
    BY <2>2, FS_EmptySet DEF UnackedCountExact
  <2> QED BY <1>2, <2>1, <2>3 DEF SenderRing
<1>5. SenderPlace /\ SentPackets /\ SentAcks
  BY <1>1 DEF SenderPlace, SentPackets, SentAcks
<1>6. ReceiverState
  <2>1. r_pc = "data" => expected = FirstSeq
    BY <1>1 DEF FirstSeq
  <2> QED BY <1>1, <1>2, <2>1, WireAssumption
          DEF ReceiverState, PrefixDelivered, NextBlock
<1>7. ReceiverRing
  BY DEF ReceiverRing, TypeOK, ReceiverTypeOK
<1> QED BY <1>3, <1>4, <1>5, <1>6, <1>7 DEF SrInv

(* A step of the sender that leaves the ring alone.                        *)
LEMMA SrSenderQuiet ==
    ASSUME SrInv,
           UNCHANGED <<syn_seq, ring, receiverVars>>,
           isReadOver' => pos = FileLen,
           s_pc' = "recv" => pos > 0,
           Closed => Closed',
           s_pc' \in {"fin", "done"} => Closed',
           toSender' \subseteq toSender,
           \A m \in toReceiver' : \/ m \in toReceiver
                                  \/ /\ m.flags = {} => /\ m.block \in 1 .. pos
                                                        /\ m.seq = Num(m.block)
                                     /\ m.flags = {"SYN"} => m.seq = syn_seq
                                     /\ "FIN" \in m.flags => Closed'
    PROVE  SrInv'
<1> USE DEF ring, receiverVars
<1>1. /\ FirstSeq' = FirstSeq /\ \A c : Num(c)' = Num(c)
      /\ InFlight' = InFlight /\ BaseBlock' = BaseBlock
      /\ \A h, i : Dist(h, i)' = Dist(h, i)
      /\ Outstanding' = Outstanding /\ NextBlock' = NextBlock
  BY NumKept DEF BaseBlock, InFlight, Dist, Outstanding, NextBlock
<1>2. SenderWindow'
  BY <1>1 DEF SrInv, SenderWindow
<1>3. SenderRing'
  BY <1>1 DEF SrInv, SenderRing, UnackedCountExact
<1>4. SentPackets'
  BY <1>1 DEF SrInv, SentPackets
<1>5. SentAcks'
  BY <1>1 DEF SrInv, SentAcks
<1>6. ReceiverState' /\ ReceiverRing'
  BY <1>1 DEF SrInv, ReceiverState, PrefixDelivered, ReceiverRing
<1>7. SenderPlace'
  BY DEF SenderPlace
<1> QED BY <1>2, <1>3, <1>4, <1>5, <1>6, <1>7 DEF SrInv

(* The packets of the window are packets the receiver may act on.          *)
LEMMA SrWindowPackets ==
    ASSUME TypeOK, SrInv, SelectiveRepeat, NEW i \in Slots, Dist(head, i) < InFlight
    PROVE  /\ packets[i].flags = {} /\ packets[i].block \in BaseBlock .. pos
           /\ packets[i].block \in 1 .. pos
           /\ packets[i].seq = Num(packets[i].block)
<1>n. SrNumbers
  BY SrTypes
<1>1. packets[i] = DataPkt(Num(BaseBlock + Dist(head, i)), BaseBlock + Dist(head, i))
  BY DEF SrInv, SenderRing
<1>2. Dist(head, i) \in Nat
  <2>1. Dist(head, i) \in Slots
    BY <1>n, DistType DEF SrNumbers
  <2> QED BY <2>1, WType DEF Slots
<1>3. BaseBlock + Dist(head, i) \in BaseBlock .. pos /\ BaseBlock \in Nat /\ 1 =< BaseBlock
  BY <1>2, <1>n DEF SrNumbers
<1>4. BaseBlock + Dist(head, i) \in 1 .. pos
  BY <1>3, <1>n DEF SrNumbers
<1> QED BY <1>1, <1>3, <1>4 DEF DataPkt

LEMMA SrFillSend ==
    ASSUME TypeOK, SrInv, SelectiveRepeat, FillSend, UNCHANGED receiverVars
    PROVE  SrInv' /\ BaseBlock' = BaseBlock /\ InFlight' = InFlight + 1
<1>n. SrNumbers
  BY SrTypes
<1> USE DEF receiverVars, loop
<1>1. /\ InFlight \in Slots /\ InFlight < W
      /\ NextSlot \in Slots /\ Dist(head, NextSlot) = InFlight
  <2>1. InFlight # W
    <3> SUFFICES ASSUME InFlight = W PROVE FALSE
      OBVIOUS
    <3>1. Mask(base_seq + InFlight) = nextseqnum
      BY <1>n, MaskBack DEF SrNumbers, InFlight
    <3> QED BY <3>1 DEF FillSend, WindowFull
  <2>2. InFlight \in Slots /\ InFlight < W
    BY <2>1, <1>n DEF SrNumbers, Slots
  <2> QED BY <2>2, <1>n, SlotType, DistOfSlot DEF SrNumbers, NextSlot
<1>2. ~used[NextSlot] /\ ~acked[NextSlot]
  BY <1>1, <1>n DEF SrNumbers, SrInv, SenderRing
<1>3. /\ pos < FileLen /\ pos' = pos + 1
      /\ packets' = [packets EXCEPT ![NextSlot] = DataPkt(nextseqnum, pos + 1)]
      /\ used' = [used EXCEPT ![NextSlot] = TRUE]
      /\ unackedCnt' = uint8(unackedCnt + 1)
      /\ toReceiver' = toReceiver \union {packets'[NextSlot]}
      /\ toSender' = toSender
      /\ nextseqnum' = seqnum_next(nextseqnum)
      /\ UNCHANGED <<s_pc, syn_seq, base_seq, head, acked, isReadOver>>
      /\ s_pc = "fill"
  BY <1>2 DEF FillSend, SenderSends
<1>4. packets'[NextSlot] = DataPkt(Num(pos + 1), pos + 1)
  BY <1>1, <1>3 DEF TypeOK, SenderTypeOK, SrInv, SenderWindow
<1>5. FirstSeq' = FirstSeq /\ \A c : Num(c)' = Num(c)
  BY <1>3, NumKept
<1>6. nextseqnum' = Num(pos' + 1)
  <2>1. pos + 1 \in 1 .. SEQNUM_MAX - 1
    BY <1>3, <1>n DEF SrNumbers
  <2>2. seqnum_next(Num(pos + 1)) = Num((pos + 1) + 1)
    BY <2>1, NumNext
  <2> QED BY <1>3, <2>2 DEF SrInv, SenderWindow
<1>7. BaseBlock' = BaseBlock /\ InFlight' = InFlight + 1
  <2> DEFINE b == BaseBlock
             p == pos + 1
  <2>1. /\ b \in 1 .. SEQNUM_MAX /\ p \in Nat /\ p + 1 \in b .. SEQNUM_MAX
        /\ p + 1 - b = InFlight + 1
    BY <1>3, <1>n DEF SrNumbers
  <2>2. pos' = p /\ base_seq' = Num(b) /\ nextseqnum' = Num(p + 1) /\ syn_seq' = syn_seq
    BY <1>3, <1>6 DEF SrInv, SenderWindow
  <2> HIDE DEF b, p
  <2>3. InFlight' = p + 1 - b /\ BaseBlock' = b
    BY <2>1, <2>2, SrWindowFrom
  <2> QED BY <2>1, <2>3 DEF b
<1>8. SenderWindow'
  <2>1. InFlight + 1 =< W /\ InFlight + 1 =< pos'
    BY <1>1, <1>3, <1>n DEF SrNumbers
  <2>2. base_seq' = Num(BaseBlock')
    BY <1>3, <1>7 DEF SrInv, SenderWindow
  <2> QED BY <1>5, <1>6, <1>7, <2>1, <2>2 DEF SenderWindow
<1>9. SenderRing'
  <2>1. ASSUME NEW i \in Slots
        PROVE  /\ used'[i] <=> Dist(head, i) < InFlight + 1
               /\ acked'[i] => used'[i]
               /\ Dist(head, i) < InFlight + 1 =>
                    packets'[i] = DataPkt(Num(BaseBlock + Dist(head, i)),
                                          BaseBlock + Dist(head, i))
    <3>0. Dist(head, i) \in Nat /\ InFlight \in Nat
      <4>1. Dist(head, i) \in Slots
        BY <1>n, DistType DEF SrNumbers
      <4> QED BY <4>1, <1>n DEF SrNumbers, Slots
    <3>1. CASE i = NextSlot
      <4>1. BaseBlock + Dist(head, i) = pos + 1
        BY <1>1, <3>1, <1>n DEF SrNumbers
      <4>2. used'[i]
        BY <1>3, <3>1 DEF TypeOK, SenderTypeOK
      <4> QED BY <1>1, <1>4, <3>0, <3>1, <4>1, <4>2
    <3>2. CASE i # NextSlot
      <4>1. Dist(head, i) # InFlight
        <5>1. Slot(head, Dist(head, i)) = i
          BY <1>n, DistOfSlot DEF SrNumbers
        <5> QED BY <3>2, <5>1 DEF NextSlot
      <4>2. used'[i] = used[i] /\ packets'[i] = packets[i] /\ acked'[i] = acked[i]
        BY <1>3, <3>2 DEF TypeOK, SenderTypeOK
      <4> QED BY <3>0, <4>1, <4>2 DEF SrInv, SenderRing
    <3> QED BY <3>1, <3>2
  <2>2. ~acked[head]
    <3>1. CASE InFlight > 0
      BY <3>1 DEF SrInv, SenderRing
    <3>2. CASE ~(InFlight > 0)
      <4>1. Dist(head, head) = 0 /\ head \in Slots /\ InFlight = 0
        BY <3>2, <1>n DEF SrNumbers, Dist, Slots
      <4> QED BY <4>1 DEF SrInv, SenderRing
    <3> QED BY <3>1, <3>2
  <2>3. UnackedCountExact'
    <3>1. Outstanding' = Outstanding \union {NextSlot}
      BY <1>1, <1>2, <1>3 DEF Outstanding, TypeOK, SenderTypeOK
    <3>2. NextSlot \notin Outstanding
      BY <1>2 DEF Outstanding
    <3>3. Cardinality(Outstanding') = Cardinality(Outstanding) + 1
      BY <3>1, <3>2, OutstandingFinite, FS_AddElement
    <3>4. unackedCnt = Cardinality(Outstanding)
      BY DEF SrInv, SenderRing, UnackedCountExact
    <3>5. uint8(unackedCnt + 1) = unackedCnt + 1
      BY <3>4, OutstandingFinite, <1>n DEF SrNumbers, uint8
    <3> QED BY <1>3, <3>3, <3>4, <3>5 DEF UnackedCountExact
  <2> QED BY <1>3, <1>5, <1>7, <2>1, <2>2, <2>3 DEF SenderRing, Dist
<1>10. SenderPlace'
  BY <1>3, <1>n DEF SrNumbers, SrInv, SenderPlace
<1>11. ~Closed /\ \A c \in 1 .. pos : c \in 1 .. pos'
  BY <1>3, <1>n DEF SrNumbers, Closed
<1>12. SentPackets'
  <2>1. pos + 1 \in 1 .. pos'
    BY <1>3, <1>n DEF SrNumbers
  <2> QED BY <1>3, <1>4, <1>5, <1>11, <2>1 DEF SrInv, SentPackets, DataPkt
<1>13. SentAcks'
  BY <1>3, <1>5, <1>11 DEF SrInv, SentAcks
<1>14. ReceiverState'
  <2>1. Len(file) =< pos'
    BY <1>3, <1>n DEF SrNumbers
  <2> QED BY <1>3, <1>5, <1>11, <2>1
          DEF SrInv, ReceiverState, PrefixDelivered, NextBlock
<1>15. ReceiverRing'
  <2>1. \A i \in Slots : payload_buf[i] \in Nat
    BY WireAssumption DEF TypeOK, ReceiverTypeOK, Blocks
  <2>2. \A x \in Nat : x =< pos => x =< pos'
    BY <1>3, <1>n DEF SrNumbers
  <2> QED BY <2>1, <2>2 DEF SrInv, ReceiverRing, NextBlock, Dist
<1> QED BY <1>7, <1>8, <1>9, <1>10, <1>12, <1>13, <1>14, <1>15 DEF SrInv

(* An acknowledgement in the window names a packet in flight.              *)
LEMMA SrAckInWindow ==
    ASSUME TypeOK, SrInv, SelectiveRepeat, NEW j \in 1 .. pos, ~StaleAck(Num(j))
    PROVE  /\ j - BaseBlock \in Slots /\ j - BaseBlock < InFlight
           /\ AckedSlot(Num(j)) \in Slots
           /\ Dist(head, AckedSlot(Num(j))) = j - BaseBlock
<1>n. SrNumbers
  BY SrTypes
<1>1. Mask(Num(j) - Num(BaseBlock)) = IF j >= BaseBlock THEN j - BaseBlock
                                      ELSE j - BaseBlock + SEQNUM_MAX
  <2>1. j \in 1 .. SEQNUM_MAX /\ BaseBlock \in 1 .. SEQNUM_MAX
    BY <1>n DEF SrNumbers
  <2> QED BY <2>1, NumDiff
<1>2. Mask(Num(j) - base_seq) < W /\ base_seq = Num(BaseBlock)
  BY DEF StaleAck, seq_in_window, SelectiveRepeat, SrInv, SenderWindow
<1>3. j >= BaseBlock /\ Mask(Num(j) - base_seq) = j - BaseBlock
  BY <1>1, <1>2, <1>n DEF SrNumbers
<1>4. j - BaseBlock \in Slots /\ j - BaseBlock < InFlight /\ j - BaseBlock \in Int
  BY <1>2, <1>3, <1>n DEF SrNumbers, Slots
<1> QED BY <1>3, <1>4, <1>n, SlotType, DistOfSlot DEF SrNumbers, AckedSlot

(* What the loop does that slides the sender's window over the packets     *)
(* acknowledged, when packet j of the window joins them.                   *)
LEMMA SrSlide ==
    ASSUME TypeOK, SrInv, SelectiveRepeat, NEW m, NEW intact,
           m \in toSender, RecvSelective(m, intact), UNCHANGED receiverVars
    PROVE  \E j \in 1 .. pos, slot \in Slots, n \in 0 .. InFlight :
              /\ m.seq = Num(j) /\ "FIN" \notin m.flags
              /\ Dist(head, slot) = j - BaseBlock /\ Dist(head, slot) < InFlight
              /\ \A i \in Slots : Dist(head, i) < n => acked[i] \/ i = slot
              /\ \A i \in Slots : acked'[i] <=> (acked[i] \/ i = slot) /\ ~(Dist(head, i) < n)
              /\ \A i \in Slots : used'[i] <=> used[i] /\ ~(Dist(head, i) < n)
              /\ ~acked'[head']
              /\ head' = Slot(head, n)
              /\ base_seq' = Mask(base_seq + n)
              /\ unackedCnt' = IF acked[slot] THEN unackedCnt ELSE uint8(unackedCnt - 1)
              /\ s_pc = "recv" /\ s_pc' \in {"main", "recv"}
              /\ toReceiver' = toReceiver /\ toSender' \subseteq toSender
              /\ retransmit_count' \in {retransmit_count, Bump(retransmit_count), 0, 1}
              /\ UNCHANGED <<syn_seq, packets, nextseqnum, pos, isReadOver>>
<1>n. SrNumbers
  BY SrTypes
<1> DEFINE slot == AckedSlot(m.seq)
           now == [acked EXCEPT ![slot] = TRUE]
           n == Run(now, head)
<1>1. /\ s_pc = "recv" /\ "FIN" \notin m.flags /\ pos > 0
      /\ ~StaleAck(m.seq)
  BY DEF RecvSelective, RecvAck, Closed, SrInv, SentAcks, SenderPlace
<1>2. PICK j \in 1 .. pos : m.seq = Num(j)
  BY <1>1, <1>n DEF SrNumbers, SrInv, SentAcks
<1>3. /\ slot \in Slots /\ Dist(head, slot) = j - BaseBlock
      /\ Dist(head, slot) < InFlight
  BY <1>1, <1>2, SrAckInWindow
<1>4. /\ now \in [Slots -> BOOLEAN]
      /\ \A i \in Slots : now[i] <=> acked[i] \/ i = slot
  BY <1>3 DEF TypeOK, SenderTypeOK
<1>5. /\ unackedCnt' = IF acked[slot] THEN unackedCnt ELSE uint8(unackedCnt - 1)
      /\ acked' = [i \in Slots |-> now[i] /\ i \notin Leading(head, n)]
      /\ used' = [i \in Slots |-> used[i] /\ i \notin Leading(head, n)]
      /\ head' = Slot(head, n)
      /\ base_seq' = Mask(base_seq + n)
      /\ TimerCheck(base_seq' = nextseqnum, IF n > 0 THEN 0 ELSE retransmit_count)
      /\ SenderExchange(m, {})
      /\ UNCHANGED <<syn_seq, packets, nextseqnum, pos, isReadOver>>
  BY DEF RecvSelective, RecvAck
<1> HIDE DEF slot, now, n
<1>6. \A i \in Slots : now[i] => Dist(head, i) < InFlight
  BY <1>3, <1>4 DEF SrInv, SenderRing
<1>7. /\ n \in 0 .. InFlight /\ n \in 0 .. W
      /\ \A i \in Slots : Dist(head, i) < n => now[i]
  BY <1>6, RunWithin, <1>n DEF SrNumbers, n
<1>8. Leading(head, n) = {i \in Slots : Dist(head, i) < n}
  BY <1>7, <1>n, LeadingByDist DEF SrNumbers
<1>9. ~acked'[head']
  <2>1. head' \in Slots
    BY <1>5, <1>7, <1>n, SlotType DEF SrNumbers
  <2>2. CASE n = W
    <3>1. Dist(head, head') \in Slots
      BY <2>1, <1>n, DistType DEF SrNumbers
    <3>2. Dist(head, head') < n
      BY <2>2, <3>1, <1>n DEF SrNumbers, Slots
    <3> QED BY <1>5, <1>8, <2>1, <3>2
  <2>3. CASE n # W
    <3>1. ~now[Slot(head, n)]
      BY <1>7, <2>3, RunType, <1>n DEF SrNumbers, n
    <3> QED BY <1>5, <2>1, <3>1
  <2> QED BY <2>2, <2>3
<1>10. /\ s_pc' \in {"main", "recv"}
       /\ retransmit_count' \in {retransmit_count, Bump(retransmit_count), 0, 1}
  <2>1. Bump(0) = 1
    BY WireAssumption DEF Bump
  <2> QED BY <1>1, <1>5, <2>1 DEF TimerCheck, TimerExpires
<1>11. toReceiver' = toReceiver /\ toSender' \subseteq toSender
  BY <1>5 DEF SenderExchange, Taken
<1> QED BY <1>1, <1>2, <1>3, <1>4, <1>5, <1>7, <1>8, <1>9, <1>10, <1>11

LEMMA SrSelective ==
    ASSUME TypeOK, SrInv, SelectiveRepeat, NEW m, NEW intact,
           m \in toSender, RecvSelective(m, intact), UNCHANGED receiverVars
    PROVE  SrInv'
<1>n. SrNumbers
  BY SrTypes
<1> USE DEF receiverVars
<1>1. PICK j \in 1 .. pos, slot \in Slots, n \in 0 .. InFlight :
              /\ Dist(head, slot) = j - BaseBlock /\ Dist(head, slot) < InFlight
              /\ \A i \in Slots : Dist(head, i) < n => acked[i] \/ i = slot
              /\ \A i \in Slots : acked'[i] <=> (acked[i] \/ i = slot) /\ ~(Dist(head, i) < n)
              /\ \A i \in Slots : used'[i] <=> used[i] /\ ~(Dist(head, i) < n)
              /\ ~acked'[head']
              /\ head' = Slot(head, n)
              /\ base_seq' = Mask(base_seq + n)
              /\ unackedCnt' = IF acked[slot] THEN unackedCnt ELSE uint8(unackedCnt - 1)
              /\ s_pc = "recv" /\ s_pc' \in {"main", "recv"}
              /\ toReceiver' = toReceiver /\ toSender' \subseteq toSender
              /\ UNCHANGED <<syn_seq, packets, nextseqnum, pos, isReadOver>>
  BY SrSlide
<1>2. /\ FirstSeq' = FirstSeq /\ \A c : Num(c)' = Num(c)
      /\ ~Closed /\ ~Closed' /\ n \in 0 .. W
  BY <1>1, NumKept, <1>n DEF SrNumbers, Closed
<1>3. base_seq' = Num(BaseBlock + n)
  <2>1. /\ BaseBlock \in 1 .. SEQNUM_MAX /\ n \in 0 .. SEQNUM_MAX
        /\ BaseBlock + n =< SEQNUM_MAX
    BY <1>n DEF SrNumbers
  <2>2. Mask(Num(BaseBlock) + n) = Num(BaseBlock + n)
    BY <2>1, NumPlus
  <2> QED BY <1>1, <2>2 DEF SrInv, SenderWindow
<1>4. BaseBlock' = BaseBlock + n /\ InFlight' = InFlight - n
  <2> DEFINE b == BaseBlock + n
  <2>1. /\ b \in 1 .. SEQNUM_MAX /\ pos \in Nat /\ pos + 1 \in b .. SEQNUM_MAX
        /\ pos + 1 - b = InFlight - n
    <3>1. /\ pos \in Nat /\ FileLen \in Nat /\ W \in Nat /\ SEQNUM_MAX \in Nat
          /\ pos =< FileLen /\ 1 =< W /\ FileLen + W =< SEQNUM_MAX
      BY <1>n DEF SrNumbers
    <3>2. /\ BaseBlock \in Nat /\ 1 =< BaseBlock /\ InFlight \in Nat
          /\ BaseBlock + InFlight = pos + 1
      BY <1>n DEF SrNumbers
    <3>3. n \in Nat /\ n =< InFlight
      BY <3>2
    <3> QED BY <3>1, <3>2, <3>3
  <2>2. pos' = pos /\ base_seq' = Num(b) /\ nextseqnum' = Num(pos + 1) /\ syn_seq' = syn_seq
    BY <1>1, <1>3 DEF SrInv, SenderWindow
  <2> HIDE DEF b
  <2>3. InFlight' = pos + 1 - b /\ BaseBlock' = b
    BY <2>1, <2>2, SrWindowFrom
  <2> QED BY <2>1, <2>3 DEF b
<1>5. SenderWindow'
  <2>1. InFlight - n =< W /\ InFlight - n =< pos
    BY <1>n DEF SrNumbers
  <2> QED BY <1>1, <1>2, <1>3, <1>4, <2>1 DEF SrInv, SenderWindow
<1>6. SenderRing'
  <2>1. ASSUME NEW i \in Slots
        PROVE  /\ used'[i] <=> Dist(head', i) < InFlight - n
               /\ acked'[i] => used'[i]
               /\ Dist(head', i) < InFlight - n =>
                    packets'[i] = DataPkt(Num(BaseBlock + n + Dist(head', i)),
                                          BaseBlock + n + Dist(head', i))
    <3> DEFINE d == Dist(head, i)
               e == Dist(head', i)
    <3>1. d \in 0 .. W - 1
      <4>1. d \in Slots
        BY <1>n, DistType DEF SrNumbers
      <4> QED BY <4>1 DEF Slots
    <3>2. e = IF d >= n THEN d - n ELSE d - n + W
      BY <1>1, <1>2, <1>n, DistOfMoved DEF SrNumbers
    <3>3. used'[i] <=> used[i] /\ ~(d < n)
      BY <1>1
    <3>4. (used[i] <=> d < InFlight) /\ (acked[i] => used[i])
      BY DEF SrInv, SenderRing
    <3>5. d < InFlight => packets[i] = DataPkt(Num(BaseBlock + d), BaseBlock + d)
      BY DEF SrInv, SenderRing
    <3>6. i = slot => d < InFlight
      BY <1>1
    <3>9. acked'[i] <=> (acked[i] \/ i = slot) /\ ~(d < n)
      BY <1>1
    <3> HIDE DEF d, e
    <3>10. /\ d \in Int /\ 0 =< d /\ d < W /\ W \in Int /\ n \in Int /\ 0 =< n
           /\ n =< InFlight /\ InFlight \in Int /\ InFlight =< W
      BY <3>1, <1>n DEF SrNumbers
    <3>11. e < InFlight - n <=> d < InFlight /\ ~(d < n)
      BY <3>2, <3>10
    <3>7. used'[i] <=> e < InFlight - n
      BY <3>3, <3>4, <3>11
    <3>8. e < InFlight - n => d < InFlight /\ BaseBlock + n + e = BaseBlock + d
      BY <1>2, <3>1, <3>2, <1>n DEF SrNumbers
    <3> QED BY <1>1, <3>3, <3>4, <3>5, <3>6, <3>7, <3>8, <3>9 DEF e
  <2>2. UnackedCountExact'
    <3>1. Outstanding' = Outstanding \ {slot}
      <4>1. \A i \in Slots : (used'[i] /\ ~acked'[i]) <=> (used[i] /\ ~acked[i] /\ i # slot)
        BY <1>1
      <4> QED BY <4>1 DEF Outstanding
    <3>2. slot \in Outstanding <=> ~acked[slot]
      BY <1>1 DEF Outstanding, SrInv, SenderRing
    <3>3. Cardinality(Outstanding') = IF acked[slot] THEN Cardinality(Outstanding)
                                                     ELSE Cardinality(Outstanding) - 1
      BY <3>1, <3>2, OutstandingFinite, FS_RemoveElement
    <3>4. unackedCnt = Cardinality(Outstanding)
      BY DEF SrInv, SenderRing, UnackedCountExact
    <3>5. ~acked[slot] => unackedCnt \in 1 .. 128
      <4>1. Outstanding = {} <=> Cardinality(Outstanding) = 0
        BY OutstandingFinite, FS_EmptySet
      <4>2. ~acked[slot] => Cardinality(Outstanding) # 0
        BY <3>2, <4>1
      <4>3. Cardinality(Outstanding) \in 0 .. 128
        <5>1. W \in Nat /\ W =< 128
          BY <1>n DEF SrNumbers
        <5> QED BY <5>1, OutstandingFinite
      <4> QED BY <3>4, <4>2, <4>3
    <3>6. ~acked[slot] => uint8(unackedCnt - 1) = unackedCnt - 1
      BY <3>5 DEF uint8
    <3> QED BY <1>1, <3>3, <3>4, <3>6 DEF UnackedCountExact
  <2> QED BY <1>1, <1>2, <1>4, <2>1, <2>2 DEF SenderRing, Dist
<1>7. SenderPlace'
  BY <1>1, <1>n DEF SrNumbers, SrInv, SenderPlace
<1>8. SentPackets'
  BY <1>1, <1>2 DEF SrInv, SentPackets
<1>9. SentAcks'
  BY <1>1, <1>2 DEF SrInv, SentAcks
<1>10. ReceiverState' /\ ReceiverRing'
  BY <1>1, <1>2 DEF SrInv, ReceiverState, PrefixDelivered, ReceiverRing, NextBlock, Dist
<1> QED BY <1>5, <1>6, <1>7, <1>8, <1>9, <1>10 DEF SrInv

LEMMA SrSenderStep ==
    ASSUME TypeInv, SrInv, SelectiveRepeat, SenderStep
    PROVE  SrInv'
<1> USE DEF ring, loop
<1>0. /\ TypeOK /\ UNCHANGED receiverVars
      /\ isReadOver => pos = FileLen
      /\ s_pc = "recv" => pos > 0
      /\ s_pc \in {"fin", "done"} => Closed
  BY DEF TypeInv, SenderStep, SrInv, SenderPlace
<1>n. SrNumbers
  BY <1>0, SrTypes
<1>1. \A q : /\ SynPkt(q).flags = {"SYN"} /\ SynPkt(q).seq = q
             /\ AckPkt(q).flags = {"ACK"} /\ FinPkt(q).flags = {"FIN"}
  BY DEF SynPkt, AckPkt, FinPkt, Header
<1>2. CASE SenderStart
  BY <1>0, <1>1, <1>2, SrSenderQuiet DEF SenderStart, SenderSends, Closed
<1>3. CASE SynTimeout
  BY <1>0, <1>1, <1>3, SrSenderQuiet
  DEF SynTimeout, AttemptFailed, Resent, SenderSends, Closed
<1>4. CASE ConfirmTimeout
  BY <1>0, <1>4, SrSenderQuiet DEF ConfirmTimeout, channels, Closed
<1>5. CASE MainExit
  BY <1>0, <1>1, <1>5, SrSenderQuiet DEF MainExit, SenderSends, Closed, AllSent
<1>6. CASE MainAbort
  BY <1>0, <1>6, SrSenderQuiet DEF MainAbort, channels, Closed
<1>7. CASE MainRound
  <2>1. ASSUME NEW m \in Retransmitted
        PROVE  m.flags = {} /\ m.block \in 1 .. pos /\ m.seq = Num(m.block)
    <3>1. PICK i \in Leading(head, InFlight) : m = packets[i]
      BY DEF Retransmitted
    <3>2. i \in Slots /\ Dist(head, i) < InFlight
      BY <1>0, <3>1, <1>n, LeadingByDist DEF SrNumbers
    <3> QED BY <1>0, <3>1, <3>2, SrWindowPackets
  <2>2. /\ toReceiver' \subseteq toReceiver \union Retransmitted
        /\ toSender' = toSender
        /\ s_pc = "main" /\ s_pc' = "fill"
        /\ UNCHANGED <<syn_seq, ring, isReadOver>>
    BY <1>7 DEF MainRound, SenderSends
  <2> QED BY <1>0, <2>1, <2>2, SrSenderQuiet DEF Closed
<1>8. CASE FillFull
  <2>1. pos > 0
    <3> SUFFICES ASSUME pos = 0 PROVE FALSE
      BY <1>0, <1>n DEF SrNumbers
    <3>1. InFlight = 0
      BY <1>0, <1>n DEF SrNumbers
    <3>2. nextseqnum = Mask(base_seq + 0)
      BY <1>0, <3>1, <1>n, MaskBack DEF SrNumbers, InFlight
    <3>3. Mask(base_seq + 0) = Mask(base_seq + W)
      BY <1>8, <3>2 DEF FillFull, WindowFull
    <3> QED BY <1>0, <3>3, <1>n, MaskOnward DEF SrNumbers
  <2> QED BY <1>0, <1>8, <2>1, SrSenderQuiet DEF FillFull, channels, Closed
<1>9. CASE FillEof
  <2>1. pos > 0
    BY <1>0, <1>9, <1>n DEF SrNumbers, FillEof
  <2> QED BY <1>0, <1>9, <2>1, SrSenderQuiet DEF FillEof, channels, Closed
<1>10. CASE FillSend
  BY <1>0, <1>10, SrFillSend
<1>11. CASE RecvTimeout
  BY <1>0, <1>11, SrSenderQuiet DEF RecvTimeout, TimerExpires, channels, Closed
<1>12. CASE FinTimeout
  BY <1>0, <1>1, <1>12, SrSenderQuiet
  DEF FinTimeout, AttemptFailed, Resent, SenderSends, Closed, AllSent
<1>13. CASE SenderReceive
  <2> PICK m \in toSender, intact \in Intact :
        \/ SynReceive(m, intact) \/ ConfirmReceive(m, intact)
        \/ RecvSkip(m, intact) \/ RecvStale(m, intact)
        \/ RecvCumulative(m, intact) \/ RecvSelective(m, intact)
        \/ FinReceive(m, intact)
    BY <1>13 DEF SenderReceive
  <2>0. \A out : SenderExchange(m, out) => /\ toSender' \subseteq toSender
                                           /\ toReceiver' = toReceiver \union out
    BY DEF SenderExchange, Taken
  <2>1. CASE SynReceive(m, intact)
    BY <1>0, <1>1, <2>0, <2>1, SrSenderQuiet
    DEF SynReceive, AttemptFailed, Resent, Closed
  <2>2. CASE ConfirmReceive(m, intact)
    BY <1>0, <1>1, <2>0, <2>2, SrSenderQuiet DEF ConfirmReceive, Closed
  <2>3. CASE RecvSkip(m, intact)
    BY <1>0, <2>0, <2>3, SrSenderQuiet DEF RecvSkip, senderVars, Closed
  <2>4. CASE RecvStale(m, intact)
    BY <1>0, <2>0, <2>4, SrSenderQuiet
    DEF RecvStale, RecvAck, TimerCheck, TimerExpires, Closed
  <2>5. CASE RecvCumulative(m, intact)
    BY <2>5 DEF RecvCumulative, SelectiveRepeat
  <2>6. CASE RecvSelective(m, intact)
    BY <1>0, <2>6, SrSelective
  <2>7. CASE FinReceive(m, intact)
    BY <1>0, <1>1, <2>0, <2>7, SrSenderQuiet
    DEF FinReceive, AttemptFailed, Resent, Closed, AllSent
  <2> QED BY <2>1, <2>2, <2>3, <2>4, <2>5, <2>6, <2>7
<1> QED BY <1>2, <1>3, <1>4, <1>5, <1>6, <1>7, <1>8, <1>9, <1>10, <1>11, <1>12,
           <1>13 DEF SenderStep, SenderNext
-----------------------------------------------------------------------------
(* The receive window as the program tests it, in blocks.                  *)
LEMMA SrReceiveWindow ==
    ASSUME TypeOK, SrInv, SelectiveRepeat, r_pc = "data", NEW c \in 1 .. pos
    PROVE  /\ InReceiveWindow(Num(c)) <=> c \in NextBlock .. NextBlock + W - 1
           /\ c >= NextBlock => Mask(Num(c) - expected) = c - NextBlock
<1>n. SrNumbers
  BY SrTypes
<1>1. /\ c \in 1 .. SEQNUM_MAX /\ NextBlock \in 1 .. SEQNUM_MAX
      /\ expected = Num(NextBlock)
  BY <1>n DEF SrNumbers, SrInv, ReceiverState
<1>2. /\ Mask(Num(c) - expected) = IF c >= NextBlock THEN c - NextBlock
                                   ELSE c - NextBlock + SEQNUM_MAX
      /\ Num(c) \in SeqNums /\ expected \in SeqNums
  BY <1>1, NumDiff, NumType
<1>3. expected + W - 1 = expected + (W - 1) /\ W - 1 \in 0 .. SEQNUM_MAX - 1
  <2>1. expected \in Int /\ W \in Int /\ 1 =< W /\ W < SEQNUM_MAX /\ SEQNUM_MAX \in Int
    BY <1>2, <1>n DEF SrNumbers, SeqNums
  <2> QED BY <2>1
<1>4. InReceiveWindow(Num(c)) <=> Mask(Num(c) - expected) =< W - 1
  BY <1>2, <1>3, RangeForm DEF InReceiveWindow
<1> QED BY <1>2, <1>4, <1>n DEF SrNumbers

(* What the receiver does with a packet of its window that carries block   *)
(* c: it buffers it unless it already has, and writes n blocks.            *)
LEMMA SrBuffer ==
    ASSUME TypeOK, SrInv, SelectiveRepeat, NEW m, NEW intact,
           m \in toReceiver, DataBuffer(m, intact), UNCHANGED senderVars
    PROVE  \E c \in NextBlock .. pos, slot \in Slots, n \in 0 .. W :
              /\ Dist(r_head, slot) = c - NextBlock
              /\ \A i \in Slots : Dist(r_head, i) < n => received[i] \/ i = slot
              /\ \A i \in Slots : received'[i] <=>
                    (received[i] \/ i = slot) /\ ~(Dist(r_head, i) < n)
              /\ \A i \in Slots : ~(Dist(r_head, i) < n) =>
                    payload_buf'[i] = IF i = slot THEN c ELSE payload_buf[i]
              /\ ~received'[r_head']
              /\ file' \in Seq(Blocks)
              /\ Len(file') = Len(file) + n /\ Len(file') =< pos
              /\ \A k \in 1 .. Len(file) : file'[k] = file[k]
              /\ \A k \in Len(file) + 1 .. Len(file') : file'[k] = k
              /\ r_head' = Slot(r_head, n)
              /\ expected' = Mask(expected + n)
              /\ toReceiver' \subseteq toReceiver
              /\ toSender' = toSender \union {AckPkt(Num(c))}
              /\ r_pc = "data" /\ UNCHANGED <<r_pc, r_retry, reply_seq>>
<1>n. SrNumbers
  BY SrTypes
<1> DEFINE slot == BufferSlot(m.seq)
           filled == [received EXCEPT ![slot] = TRUE]
           buf == [payload_buf EXCEPT ![slot] = IF received[slot] THEN @ ELSE m.block]
           n == Run(filled, r_head)
           c == m.block
<1>1. /\ m.flags = {} /\ r_pc = "data" /\ InReceiveWindow(m.seq)
      /\ ReceiverExchange(m, {AckPkt(m.seq)})
      /\ file' = file \o [k \in 1 .. n |-> buf[Slot(r_head, k - 1)]]
      /\ received' = [i \in Slots |-> filled[i] /\ i \notin Leading(r_head, n)]
      /\ payload_buf' = [i \in Slots |-> IF i \in Leading(r_head, n) THEN NoPayload
                                                                     ELSE buf[i]]
      /\ r_head' = Slot(r_head, n)
      /\ expected' = Mask(expected + n)
      /\ UNCHANGED <<r_pc, r_retry, reply_seq>>
  BY DEF DataBuffer, DataPacket
<1>2. c \in 1 .. pos /\ m.seq = Num(c) /\ c \in Blocks
  BY <1>1 DEF SrInv, SentPackets, TypeOK, Packets
<1> HIDE DEF c
<1>3. c \in NextBlock .. pos /\ c - NextBlock \in Slots
  <2>1. c \in NextBlock .. NextBlock + W - 1
    BY <1>1, <1>2, SrReceiveWindow
  <2> QED BY <1>2, <2>1, <1>n DEF SrNumbers, Slots
<1>4. slot \in Slots /\ Dist(r_head, slot) = c - NextBlock
  <2>1. slot = Slot(r_head, c - NextBlock)
    BY <1>1, <1>2, <1>3, SrReceiveWindow, <1>n DEF SrNumbers, BufferSlot
  <2>2. c - NextBlock \in Int
    BY <1>3, <1>n DEF SrNumbers
  <2> QED BY <1>3, <2>1, <2>2, <1>n, SlotType, DistOfSlot DEF SrNumbers
<1> HIDE DEF slot
<1>5. /\ \A i \in Slots : filled[i] <=> received[i] \/ i = slot
      /\ buf \in [Slots -> Blocks]
      /\ \A i \in Slots : buf[i] = IF i = slot THEN c ELSE payload_buf[i]
  <2>1. received[slot] => payload_buf[slot] = c
    <3>1. received[slot] => payload_buf[slot] = NextBlock + Dist(r_head, slot)
      BY <1>4 DEF SrInv, ReceiverRing
    <3> QED BY <1>2, <1>3, <1>4, <3>1, <1>n DEF SrNumbers
  <2> QED BY <1>2, <1>4, <2>1 DEF TypeOK, ReceiverTypeOK, c
<1>6. \A i \in Slots : filled[i] => /\ buf[i] = NextBlock + Dist(r_head, i)
                                    /\ buf[i] =< pos
  <2> SUFFICES ASSUME NEW i \in Slots, filled[i]
               PROVE  buf[i] = NextBlock + Dist(r_head, i) /\ buf[i] =< pos
    OBVIOUS
  <2>1. CASE i = slot
    BY <1>3, <1>4, <1>5, <2>1, <1>n DEF SrNumbers
  <2>2. CASE i # slot
    BY <1>5, <2>2 DEF SrInv, ReceiverRing
  <2> QED BY <2>1, <2>2
<1> HIDE DEF filled, buf, n
<1>7. n \in 0 .. W /\ \A i \in Slots : Dist(r_head, i) < n => filled[i]
  <2>1. \A i \in Slots : filled[i] => Dist(r_head, i) < W
    <3>1. \A i \in Slots : Dist(r_head, i) \in Slots
      BY <1>n, DistType DEF SrNumbers
    <3> QED BY <3>1, <1>n DEF SrNumbers, Slots
  <2>2. W \in 0 .. W
    BY <1>n DEF SrNumbers
  <2> QED BY <2>1, <2>2, RunWithin, <1>n DEF SrNumbers, n
<1>8. Leading(r_head, n) = {i \in Slots : Dist(r_head, i) < n}
  BY <1>7, <1>n, LeadingByDist DEF SrNumbers
<1>9. ~received'[r_head']
  <2>1. r_head' \in Slots
    BY <1>1, <1>7, <1>n, SlotType DEF SrNumbers
  <2>2. CASE n = W
    <3>1. Dist(r_head, r_head') \in Slots
      BY <2>1, <1>n, DistType DEF SrNumbers
    <3>2. Dist(r_head, r_head') < n
      BY <2>2, <3>1, <1>n DEF SrNumbers, Slots
    <3> QED BY <1>1, <1>8, <2>1, <3>2
  <2>3. CASE n # W
    <3>1. ~filled[Slot(r_head, n)]
      BY <1>7, <2>3, RunType, <1>n DEF SrNumbers, n
    <3> QED BY <1>1, <2>1, <3>1
  <2> QED BY <2>2, <2>3
<1>10. ASSUME NEW k \in 1 .. n
       PROVE  /\ buf[Slot(r_head, k - 1)] = Len(file) + k
              /\ Len(file) + k =< pos
              /\ buf[Slot(r_head, k - 1)] \in Blocks
  <2> DEFINE d == k - 1
  <2>1. d \in Slots /\ d < n /\ d \in Int /\ NextBlock + d = Len(file) + k
    BY <1>7, <1>n DEF SrNumbers, Slots, NextBlock
  <2> HIDE DEF d
  <2>2. Slot(r_head, d) \in Slots /\ Dist(r_head, Slot(r_head, d)) = d
    BY <2>1, <1>n, SlotType, DistOfSlot DEF SrNumbers
  <2>3. filled[Slot(r_head, d)]
    BY <1>7, <2>1, <2>2
  <2>4. /\ buf[Slot(r_head, d)] = NextBlock + d /\ NextBlock + d =< pos
        /\ buf[Slot(r_head, d)] \in Blocks
    BY <1>5, <1>6, <2>2, <2>3
  <2> QED BY <2>1, <2>4 DEF d
<1>11. /\ file' \in Seq(Blocks)
       /\ Len(file') = Len(file) + n /\ Len(file') =< pos
       /\ \A k \in 1 .. Len(file) : file'[k] = file[k]
       /\ \A k \in Len(file) + 1 .. Len(file') : file'[k] = k
  <2> DEFINE written == [k \in 1 .. n |-> buf[Slot(r_head, k - 1)]]
  <2>1. n \in Nat /\ Len(file) \in Nat /\ Len(file) =< pos /\ pos \in Nat
    BY <1>7, <1>n DEF SrNumbers
  <2>2. /\ written \in Seq(Blocks) /\ Len(written) = n
        /\ \A k \in 1 .. n : written[k] = Len(file) + k
    BY <1>10, <2>1
  <2> HIDE DEF written
  <2>3. file \in Seq(Blocks) /\ file' = file \o written
    BY <1>1 DEF written, TypeOK, ReceiverTypeOK
  <2>4. /\ file' \in Seq(Blocks) /\ Len(file') = Len(file) + n
        /\ \A k \in 1 .. Len(file) : file'[k] = file[k]
    <3>1. file' \in Seq(Blocks) /\ Len(file') = Len(file) + n
      BY <2>2, <2>3
    <3>2. \A k \in 1 .. Len(file) : file'[k] = file[k]
      BY <2>2, <2>3
    <3> QED BY <3>1, <3>2
  <2>5. ASSUME NEW k \in Len(file) + 1 .. Len(file')
        PROVE  file'[k] = k
    <3>1. k - Len(file) \in 1 .. n /\ Len(file) + (k - Len(file)) = k
      BY <2>1, <2>4
    <3>2. file'[k] = written[k - Len(file)]
      BY <2>1, <2>2, <2>3, <2>4
    <3> QED BY <2>2, <3>1, <3>2
  <2>6. Len(file') =< pos
    <3>1. CASE n = 0
      BY <2>1, <2>4, <3>1
    <3>2. CASE n # 0
      <4>1. n \in 1 .. n
        BY <2>1, <3>2
      <4> QED BY <1>10, <2>4, <4>1
    <3> QED BY <3>1, <3>2
  <2> QED BY <2>4, <2>5, <2>6
<1>12. toReceiver' \subseteq toReceiver /\ toSender' = toSender \union {AckPkt(Num(c))}
  BY <1>1, <1>2 DEF ReceiverExchange, Taken
<1>13. \A i \in Slots :
          /\ received'[i] <=> (received[i] \/ i = slot) /\ ~(Dist(r_head, i) < n)
          /\ ~(Dist(r_head, i) < n) =>
                payload_buf'[i] = IF i = slot THEN c ELSE payload_buf[i]
  BY <1>1, <1>5, <1>8
<1>14. \A i \in Slots : Dist(r_head, i) < n => received[i] \/ i = slot
  BY <1>5, <1>7
<1> HIDE DEF filled, buf
<1>15. c \in NextBlock .. pos /\ slot \in Slots /\ n \in 0 .. W
  BY <1>3, <1>4, <1>7
<1> USE <1>15
<1> WITNESS c \in NextBlock .. pos, slot \in Slots, n \in 0 .. W
<1> QED BY <1>1, <1>4, <1>9, <1>11, <1>12, <1>13, <1>14

(* A step of the receiver that writes and buffers nothing.                 *)
LEMMA SrReceiverQuiet ==
    ASSUME SrInv,
           UNCHANGED <<senderVars, r_head, received, payload_buf, file>>,
           toReceiver' \subseteq toReceiver,
           \A m \in toSender' :
              \/ m \in toSender
              \/ /\ "FIN" \notin m.flags =>
                       m.seq = Num(1) \/ \E j \in 1 .. pos : m.seq = Num(j)
                 /\ "FIN" \in m.flags => r_pc' \in {"finWait", "done"},
           r_pc' \in {"listen", "ackWait", "failed"} => file = <<>>,
           r_pc' = "ackWait" => reply_seq' = Num(1),
           r_pc' = "data" => expected' = Num(NextBlock),
           r_pc' \in {"finWait", "done"} => Closed,
           r_pc \in {"finWait", "done"} => r_pc' \in {"finWait", "done"}
    PROVE  SrInv'
<1> USE DEF senderVars
<1>1. /\ FirstSeq' = FirstSeq /\ \A c : Num(c)' = Num(c)
      /\ InFlight' = InFlight /\ BaseBlock' = BaseBlock
      /\ \A h, i : Dist(h, i)' = Dist(h, i)
      /\ Outstanding' = Outstanding /\ NextBlock' = NextBlock
      /\ Closed' = Closed
  BY NumKept DEF BaseBlock, InFlight, Dist, Outstanding, NextBlock, Closed, AllSent
<1>2. SenderWindow' /\ SenderPlace'
  BY <1>1 DEF SrInv, SenderWindow, SenderPlace
<1>3. SenderRing'
  BY <1>1 DEF SrInv, SenderRing, UnackedCountExact
<1>4. SentPackets'
  BY <1>1 DEF SrInv, SentPackets
<1>5. SentAcks'
  BY <1>1 DEF SrInv, SentAcks
<1>6. ReceiverState' /\ ReceiverRing'
  BY <1>1 DEF SrInv, ReceiverState, PrefixDelivered, ReceiverRing
<1> QED BY <1>2, <1>3, <1>4, <1>5, <1>6 DEF SrInv

LEMMA SrDataBuffer ==
    ASSUME TypeOK, SrInv, SelectiveRepeat, NEW m, NEW intact,
           m \in toReceiver, DataBuffer(m, intact), UNCHANGED senderVars
    PROVE  SrInv'
<1>n. SrNumbers
  BY SrTypes
<1> USE DEF senderVars
<1>1. PICK c \in NextBlock .. pos, slot \in Slots, n \in 0 .. W :
              /\ Dist(r_head, slot) = c - NextBlock
              /\ \A i \in Slots : Dist(r_head, i) < n => received[i] \/ i = slot
              /\ \A i \in Slots : received'[i] <=>
                    (received[i] \/ i = slot) /\ ~(Dist(r_head, i) < n)
              /\ \A i \in Slots : ~(Dist(r_head, i) < n) =>
                    payload_buf'[i] = IF i = slot THEN c ELSE payload_buf[i]
              /\ ~received'[r_head']
              /\ file' \in Seq(Blocks)
              /\ Len(file') = Len(file) + n /\ Len(file') =< pos
              /\ \A k \in 1 .. Len(file) : file'[k] = file[k]
              /\ \A k \in Len(file) + 1 .. Len(file') : file'[k] = k
              /\ r_head' = Slot(r_head, n)
              /\ expected' = Mask(expected + n)
              /\ toReceiver' \subseteq toReceiver
              /\ toSender' = toSender \union {AckPkt(Num(c))}
              /\ r_pc = "data" /\ UNCHANGED <<r_pc, r_retry, reply_seq>>
  BY SrBuffer
<1>2. /\ FirstSeq' = FirstSeq /\ \A b : Num(b)' = Num(b)
      /\ InFlight' = InFlight /\ BaseBlock' = BaseBlock
      /\ Outstanding' = Outstanding /\ Closed' = Closed
      /\ NextBlock' = NextBlock + n /\ c \in 1 .. pos
  BY <1>1, NumKept, <1>n
  DEF SrNumbers, BaseBlock, InFlight, Outstanding, NextBlock, Closed, AllSent
<1>3. SenderWindow' /\ SenderPlace'
  BY <1>2 DEF SrInv, SenderWindow, SenderPlace
<1>4. SenderRing'
  BY <1>2 DEF SrInv, SenderRing, UnackedCountExact, Dist
<1>5. SentPackets'
  BY <1>1, <1>2 DEF SrInv, SentPackets
<1>6. SentAcks'
  BY <1>1, <1>2 DEF SrInv, SentAcks, AckPkt, Header
<1>7. ReceiverState'
  <2>1. PrefixDelivered'
    <3>1. Len(file') =< FileLen
      BY <1>1, <1>n DEF SrNumbers
    <3>2. ASSUME NEW k \in 1 .. Len(file')
          PROVE  file'[k] = k
      <4>1. k \in 1 .. Len(file) \/ k \in Len(file) + 1 .. Len(file')
        BY <1>1, <1>n DEF SrNumbers
      <4> QED BY <1>1, <4>1 DEF SrInv, ReceiverState, PrefixDelivered
    <3> QED BY <3>1, <3>2 DEF PrefixDelivered
  <2>2. expected' = Num(NextBlock + n)
    <3>1. /\ NextBlock \in 1 .. SEQNUM_MAX /\ n \in 0 .. SEQNUM_MAX
          /\ NextBlock + n =< SEQNUM_MAX
      BY <1>1, <1>n DEF SrNumbers, NextBlock
    <3>2. Mask(Num(NextBlock) + n) = Num(NextBlock + n)
      BY <3>1, NumPlus
    <3> QED BY <1>1, <3>2 DEF SrInv, ReceiverState
  <2> QED BY <1>1, <1>2, <2>1, <2>2 DEF ReceiverState
<1>8. ReceiverRing'
  <2> SUFFICES ASSUME NEW i \in Slots, received'[i]
               PROVE  /\ payload_buf'[i] = NextBlock + n + Dist(r_head', i)
                      /\ payload_buf'[i] =< pos
    BY <1>1, <1>2 DEF ReceiverRing, Dist
  <2> DEFINE d == Dist(r_head, i)
             e == Dist(r_head', i)
  <2>1. d \in 0 .. W - 1
    <3>1. d \in Slots
      BY <1>n, DistType DEF SrNumbers
    <3> QED BY <3>1 DEF Slots
  <2>2. e = IF d >= n THEN d - n ELSE d - n + W
    BY <1>1, <1>n, DistOfMoved DEF SrNumbers
  <2>3. /\ received[i] \/ i = slot
        /\ ~(d < n)
        /\ payload_buf'[i] = IF i = slot THEN c ELSE payload_buf[i]
    BY <1>1
  <2>4. i = slot => d = c - NextBlock
    BY <1>1
  <2>5. received[i] => payload_buf[i] = NextBlock + d /\ payload_buf[i] =< pos
    BY DEF SrInv, ReceiverRing
  <2> HIDE DEF d, e
  <2>6. e = d - n
    BY <2>1, <2>2, <2>3, <1>n DEF SrNumbers
  <2>7. payload_buf'[i] = NextBlock + d /\ payload_buf'[i] =< pos
    BY <1>1, <2>3, <2>4, <2>5, <1>n DEF SrNumbers
  <2>8. NextBlock + n + e = NextBlock + d
    BY <2>1, <2>6, <1>n DEF SrNumbers
  <2> QED BY <2>7, <2>8 DEF e
<1> QED BY <1>3, <1>4, <1>5, <1>6, <1>7, <1>8 DEF SrInv

LEMMA SrReceiverStep ==
    ASSUME TypeInv, SrInv, SelectiveRepeat, ReceiverStep
    PROVE  SrInv'
<1> USE DEF buffers
<1>0. /\ TypeOK /\ UNCHANGED senderVars
      /\ r_pc \in {"listen", "ackWait", "failed"} => file = <<>>
      /\ r_pc = "ackWait" => reply_seq = Num(1)
      /\ r_pc = "data" => expected = Num(NextBlock)
      /\ r_pc \in {"finWait", "done"} => Closed
  BY DEF TypeInv, ReceiverStep, SrInv, ReceiverState
<1>1. \A q : /\ "FIN" \notin SynAckPkt(q).flags /\ SynAckPkt(q).seq = q
             /\ "FIN" \notin AckPkt(q).flags /\ AckPkt(q).seq = q
             /\ "FIN" \in FinAckPkt(q).flags
  BY DEF SynAckPkt, AckPkt, FinAckPkt, Header
<1>2. CASE ListenTimeout
  BY <1>0, <1>2, SrReceiverQuiet DEF ListenTimeout, channels
<1>3. CASE AckWaitTimeout
  BY <1>0, <1>1, <1>3, SrReceiverQuiet DEF AckWaitTimeout, WaitAgain, ReceiverSends
<1>4. CASE FinWaitTimeout
  BY <1>0, <1>4, SrReceiverQuiet DEF FinWaitTimeout, channels
<1>5. CASE ReceiverReceive
  <2> PICK m \in toReceiver, intact \in Intact :
        \/ ListenReceive(m, intact) \/ AckWaitReceive(m, intact)
        \/ DataDrop(m, intact) \/ DataFin(m, intact)
        \/ DataInOrder(m, intact) \/ DataOutOfOrder(m, intact)
        \/ DataBuffer(m, intact) \/ DataAllocFails(m, intact)
        \/ DataReack(m, intact) \/ FinWaitReceive(m, intact)
    BY <1>5 DEF ReceiverReceive
  <2>0. /\ \A out : ReceiverExchange(m, out) =>
              toReceiver' \subseteq toReceiver /\ toSender' = toSender \union out
        /\ m.flags = {"SYN"} => seqnum_next(m.seq) = Num(1)
        /\ m.flags = {} => \E j \in 1 .. pos : m.seq = Num(j)
        /\ "FIN" \in m.flags => Closed
    BY <1>0, NumNext DEF ReceiverExchange, Taken, SrInv, SentPackets, FirstSeq
  <2>1. CASE ListenReceive(m, intact)
    BY <1>0, <1>1, <2>0, <2>1, SrReceiverQuiet DEF ListenReceive
  <2>2. CASE AckWaitReceive(m, intact)
    <3>1. file = <<>> /\ NextBlock = 1
      BY <1>0, <2>2 DEF AckWaitReceive, NextBlock
    <3> QED BY <1>0, <2>0, <2>2, <3>1, SrReceiverQuiet DEF AckWaitReceive, WaitAgain
  <2>3. CASE DataDrop(m, intact)
    BY <1>0, <2>0, <2>3, SrReceiverQuiet DEF DataDrop, receiverVars
  <2>4. CASE DataFin(m, intact)
    BY <1>0, <1>1, <2>0, <2>4, SrReceiverQuiet DEF DataFin
  <2>5. CASE DataInOrder(m, intact) \/ DataOutOfOrder(m, intact)
    BY <2>5 DEF DataInOrder, DataOutOfOrder, SelectiveRepeat
  <2>6. CASE DataBuffer(m, intact)
    BY <1>0, <2>6, SrDataBuffer
  <2>7. CASE DataAllocFails(m, intact)
    BY <1>0, <1>1, <2>0, <2>7, SrReceiverQuiet DEF DataAllocFails, DataPacket
  <2>8. CASE DataReack(m, intact)
    BY <1>0, <1>1, <2>0, <2>8, SrReceiverQuiet DEF DataReack, DataPacket
  <2>9. CASE FinWaitReceive(m, intact)
    BY <1>0, <1>1, <2>0, <2>9, SrReceiverQuiet DEF FinWaitReceive, receiverVars
  <2> QED BY <2>1, <2>2, <2>3, <2>4, <2>5, <2>6, <2>7, <2>8, <2>9
<1> QED BY <1>2, <1>3, <1>4, <1>5 DEF ReceiverStep, ReceiverNext

LEMMA SrStutter ==
    ASSUME SrInv, UNCHANGED vars
    PROVE  SrInv'
<1>1. r_pc \in {"listen", "ackWait", "failed"} => file = <<>>
  BY DEF SrInv, ReceiverState
<1> QED BY <1>1, SrReceiverQuiet DEF SrInv, ReceiverState, vars, channels, receiverVars
-----------------------------------------------------------------------------
(* What SrInv implies.                                                     *)
LEMMA SrReceiverRing ==
    ASSUME TypeOK, SrInv, SelectiveRepeat
    PROVE  ReceiverRingCoherent
<1>n. SrNumbers
  BY SrTypes
<1>1. ASSUME NEW k \in 0 .. W - 1, received[Slot(r_head, k)]
      PROVE  payload_buf[Slot(r_head, k)] = Len(file) + k + 1
  <2>1. k \in Slots /\ k \in Int
    BY <1>n DEF SrNumbers, Slots
  <2>2. Slot(r_head, k) \in Slots /\ Dist(r_head, Slot(r_head, k)) = k
    BY <2>1, <1>n, SlotType, DistOfSlot DEF SrNumbers
  <2>3. payload_buf[Slot(r_head, k)] = NextBlock + k
    BY <1>1, <2>2 DEF SrInv, ReceiverRing
  <2> QED BY <2>1, <2>3, <1>n DEF SrNumbers, NextBlock
<1> QED BY <1>1 DEF ReceiverRingCoherent, SrInv, ReceiverRing

LEMMA SrRing ==
    ASSUME TypeOK, SrInv, SelectiveRepeat
    PROVE  RingCoherent
<1>n. SrNumbers
  BY SrTypes
<1>1. ASSUME NEW k \in 0 .. W - 1
      PROVE  Slot(head, k) \in Slots /\ Dist(head, Slot(head, k)) = k /\ k \in Int
  <2>1. k \in Slots /\ k \in Int
    BY <1>n DEF SrNumbers, Slots
  <2> QED BY <2>1, <1>n, SlotType, DistOfSlot DEF SrNumbers
<1>2. ASSUME NEW k \in 0 .. InFlight - 1
      PROVE  /\ used[Slot(head, k)]
             /\ packets[Slot(head, k)] =
                   DataPkt(Mask(base_seq + k), pos - InFlight + k + 1)
  <2>1. k \in 0 .. W - 1 /\ k < InFlight
    BY <1>n DEF SrNumbers
  <2>2. pos - InFlight + k + 1 = BaseBlock + k
    <3>1. /\ pos \in Int /\ InFlight \in Int /\ BaseBlock \in Int /\ k \in Int
          /\ BaseBlock + InFlight = pos + 1
      BY <1>1, <2>1, <1>n DEF SrNumbers
    <3> QED BY <3>1
  <2>3. Num(BaseBlock + k) = Mask(base_seq + k)
    <3>1. /\ BaseBlock \in 1 .. SEQNUM_MAX /\ k \in 0 .. SEQNUM_MAX
          /\ BaseBlock + k =< SEQNUM_MAX
      BY <2>1, <1>n DEF SrNumbers
    <3> QED BY <3>1, NumPlus DEF SrInv, SenderWindow
  <2>4. /\ used[Slot(head, k)]
        /\ packets[Slot(head, k)] = DataPkt(Num(BaseBlock + k), BaseBlock + k)
    BY <1>1, <2>1 DEF SrInv, SenderRing
  <2> QED BY <2>2, <2>3, <2>4
<1>3. ASSUME NEW k \in InFlight .. W - 1
      PROVE  ~used[Slot(head, k)] /\ ~acked[Slot(head, k)]
  <2>1. k \in 0 .. W - 1 /\ ~(k < InFlight)
    BY <1>n DEF SrNumbers
  <2> QED BY <1>1, <2>1 DEF SrInv, SenderRing
<1> QED BY <1>2, <1>3 DEF RingCoherent, SrInv, SenderWindow, SenderRing

(* Which step moves the base, and how far.                                 *)
LEMMA SrBaseStep ==
    ASSUME TypeInv, SrInv, SelectiveRepeat, [Next]_vars
    PROVE  Mask(base_seq' - base_seq) =< InFlight
<1> USE DEF ring, loop
<1>0. TypeOK
  BY DEF TypeInv
<1>n. SrNumbers
  BY <1>0, SrTypes
<1>1. \A n \in 0 .. InFlight : Mask(Mask(base_seq + n) - base_seq) = n
  <2> SUFFICES ASSUME NEW n \in 0 .. InFlight
               PROVE  Mask(Mask(base_seq + n) - base_seq) = n
    OBVIOUS
  <2>1. /\ BaseBlock \in 1 .. SEQNUM_MAX /\ BaseBlock + n \in 1 .. SEQNUM_MAX
        /\ n \in 0 .. SEQNUM_MAX /\ BaseBlock + n =< SEQNUM_MAX
        /\ BaseBlock + n >= BaseBlock /\ (BaseBlock + n) - BaseBlock = n
    BY <1>0, <1>n DEF SrNumbers
  <2>2. Mask(Num(BaseBlock) + n) = Num(BaseBlock + n)
    BY <1>0, <2>1, NumPlus
  <2>3. Mask(Num(BaseBlock + n) - Num(BaseBlock)) = n
    BY <1>0, <2>1, NumDiff
  <2> QED BY <2>2, <2>3 DEF SrInv, SenderWindow
<1>2. CASE UNCHANGED base_seq
  <2>1. 0 \in 0 .. InFlight /\ base_seq + 0 = base_seq /\ Mask(base_seq) = base_seq
    <3>1. base_seq \in SeqNums /\ base_seq \in Int /\ 0 \in 0 .. InFlight
      BY <1>0, <1>n DEF SrNumbers, SeqNums
    <3> QED BY <3>1, MaskCases
  <2>2. Mask(base_seq' - base_seq) = 0
    BY <1>1, <1>2, <2>1
  <2> QED BY <1>0, <2>2, <1>n DEF SrNumbers
<1>3. CASE \E m \in toSender, intact \in Intact :
              RecvSelective(m, intact) /\ UNCHANGED receiverVars
  <2>1. PICK n \in 0 .. InFlight : base_seq' = Mask(base_seq + n)
    BY <1>0, <1>3, SrSlide
  <2>2. Mask(base_seq' - base_seq) = n
    BY <1>1, <2>1
  <2> QED BY <1>0, <2>2, <1>n DEF SrNumbers
<1>4. \/ UNCHANGED base_seq
      \/ \E m \in toSender, intact \in Intact :
            RecvSelective(m, intact) /\ UNCHANGED receiverVars
  <2>1. CASE SenderNext /\ ~SenderReceive
    BY <2>1
    DEF SenderNext, SenderStart, SynTimeout, ConfirmTimeout, MainExit, MainAbort,
        MainRound, FillFull, FillEof, FillSend, RecvTimeout, FinTimeout
  <2>2. CASE SenderReceive /\ UNCHANGED receiverVars
    <3>1. PICK m \in toSender, intact \in Intact :
            \/ SynReceive(m, intact) \/ ConfirmReceive(m, intact)
            \/ RecvSkip(m, intact) \/ RecvStale(m, intact)
            \/ RecvCumulative(m, intact) \/ RecvSelective(m, intact)
            \/ FinReceive(m, intact)
      BY <2>2 DEF SenderReceive
    <3>2. ~RecvCumulative(m, intact)
      BY DEF RecvCumulative, SelectiveRepeat
    <3>3. CASE RecvSelective(m, intact)
      BY <2>2, <3>3
    <3>4. CASE ~RecvSelective(m, intact)
      BY <3>1, <3>2, <3>4
      DEF SynReceive, ConfirmReceive, RecvSkip, RecvStale, FinReceive, senderVars
    <3> QED BY <3>3, <3>4
  <2>3. CASE ReceiverStep \/ UNCHANGED vars
    BY <2>3 DEF ReceiverStep, vars, senderVars
  <2> QED BY <2>1, <2>2, <2>3 DEF Next, SenderStep
<1> QED BY <1>2, <1>3, <1>4
-----------------------------------------------------------------------------
LEMMA SrTypeInvariant ==
    ASSUME SelectiveRepeat
    PROVE  Spec \/ SpecEstablished => [](TypeInv /\ SrInv)
<1>1. Init \/ InitEstablished => TypeInv /\ SrInv
  BY TypeInit, SrInit DEF TypeInv
<1>2. TypeInv /\ SrInv /\ [Next]_vars => (TypeInv /\ SrInv)'
  BY TypeSenderStep, TypeReceiverStep, TypeStutter,
     SrSenderStep, SrReceiverStep, SrStutter DEF Next
<1> QED BY <1>1, <1>2, PTL DEF Spec, SpecEstablished

(* SrInv holds throughout every selective-repeat transfer, whatever the    *)
(* path does to the packets of the two programs and whenever malloc fails. *)
THEOREM SrInvariant ==
    ASSUME SelectiveRepeat
    PROVE  Spec => []SrInv
BY SrTypeInvariant, PTL

(* What the receiver has written (rtp_data_receiver) is always a prefix of *)
(* the file the sender reads, however the handshake went.                  *)
THEOREM SrPrefix ==
    ASSUME SelectiveRepeat
    PROVE  Spec \/ SpecEstablished => []PrefixDelivered
<1>1. TypeInv /\ SrInv => PrefixDelivered
  BY DEF SrInv, ReceiverState
<1> QED BY <1>1, SrTypeInvariant, PTL

(* Each buffered block sits at its place in the receiver's ring, and the   *)
(* slot of the block that is written next is free.                         *)
THEOREM SrReceiverRingCoherent ==
    ASSUME SelectiveRepeat
    PROVE  Spec \/ SpecEstablished => []ReceiverRingCoherent
<1>1. TypeInv /\ SrInv => ReceiverRingCoherent
  BY SrReceiverRing DEF TypeInv
<1> QED BY <1>1, SrTypeInvariant, PTL

(* The sender's ring holds the packets in flight, in order, with the first *)
(* of them not acknowledged, and its 8-bit counter counts those that are   *)
(* not, for every window of up to 128 packets.                             *)
THEOREM SrRingCoherent ==
    ASSUME SelectiveRepeat
    PROVE  Spec \/ SpecEstablished => []RingCoherent /\ []UnackedCountExact
<1>1. TypeInv /\ SrInv => RingCoherent /\ UnackedCountExact
  BY SrRing DEF TypeInv, SrInv, SenderRing
<1> QED BY <1>1, SrTypeInvariant, PTL

(* No acknowledgement moves the sender's base backwards or past what it    *)
(* has sent.                                                               *)
THEOREM SrBaseWithinFlight ==
    ASSUME SelectiveRepeat
    PROVE  Spec \/ SpecEstablished => BaseWithinFlight
<1>1. TypeInv /\ SrInv /\ [Next]_vars => [Mask(base_seq' - base_seq) =< InFlight]_vars
  BY SrBaseStep
<1> QED BY <1>1, SrTypeInvariant, PTL DEF Spec, SpecEstablished, BaseWithinFlight
-----------------------------------------------------------------------------
(* The second invariant needs what the first does not: a malloc that does  *)
(* not fail, for a packet is acknowledged even when it could not be kept.  *)
Reliable == SelectiveRepeat /\ ~AllocFails

(* What has arrived is written or waits at its place in the ring; the      *)
(* block to be written next has not arrived.                               *)
LEMMA SrArrivedForm ==
    ASSUME TypeOK, SrInv, SelectiveRepeat
    PROVE  /\ \A b \in Arrived : \/ b \in 1 .. Len(file)
                                 \/ \E i \in Slots : received[i] /\ payload_buf[i] = b
           /\ 1 .. Len(file) \subseteq Arrived
           /\ \A i \in Slots : received[i] => payload_buf[i] \in Arrived
           /\ NextBlock \notin Arrived
<1>n. SrNumbers
  BY SrTypes
<1>1. \A k \in 1 .. Len(file) : file[k] = k
  BY DEF SrInv, ReceiverState, PrefixDelivered
<1>2. \A b \in Arrived : \/ b \in 1 .. Len(file)
                         \/ \E i \in Slots : received[i] /\ payload_buf[i] = b
  BY <1>1 DEF Arrived
<1>3. 1 .. Len(file) \subseteq Arrived
  BY <1>1 DEF Arrived
<1>4. \A i \in Slots : received[i] => payload_buf[i] \in Arrived
  BY DEF Arrived
<1>5. ASSUME NEW i \in Slots, received[i]
      PROVE  payload_buf[i] # NextBlock
  <2>1. payload_buf[i] = NextBlock + Dist(r_head, i) /\ i # r_head
    BY <1>5 DEF SrInv, ReceiverRing
  <2>2. Dist(r_head, i) # 0
    <3>1. r_head \in 0 .. W - 1 /\ i \in 0 .. W - 1 /\ W \in Nat
      BY <1>n DEF SrNumbers, Slots
    <3> QED BY <2>1, <3>1 DEF Dist
  <2>3. Dist(r_head, i) \in Int
    <3>1. Dist(r_head, i) \in Slots
      BY <1>n, DistType DEF SrNumbers
    <3> QED BY <3>1, <1>n DEF SrNumbers, Slots
  <2> QED BY <2>1, <2>2, <2>3, <1>n DEF SrNumbers
<1>6. NextBlock \notin 1 .. Len(file)
  BY <1>n DEF SrNumbers, NextBlock
<1> QED BY <1>2, <1>3, <1>4, <1>5, <1>6

(* So the base of the sender has not passed it.                            *)
LEMMA SrBaseNotAhead ==
    ASSUME TypeOK, SrInv, SrArrival, SelectiveRepeat
    PROVE  BaseBlock =< NextBlock
<1>n. SrNumbers
  BY SrTypes
<1> SUFFICES ASSUME BaseBlock > NextBlock PROVE FALSE
  BY <1>n DEF SrNumbers
<1>1. NextBlock \in 1 .. BaseBlock - 1
  BY <1>n DEF SrNumbers
<1> QED BY <1>1, SrArrivedForm DEF SrArrival

LEMMA SrArrivalInit ==
    ASSUME InitEstablished, TypeOK, SelectiveRepeat
    PROVE  SrArrival
<1> USE DEF InitEstablished, SenderAt, ReceiverAt
<1>1. SrInv
  BY SrInit
<1>n. SrNumbers
  BY <1>1, SrTypes
<1>2. BaseBlock = 1
  <2>1. pos = 0 /\ BaseBlock =< pos + 1 /\ 1 =< BaseBlock /\ BaseBlock \in Int
    BY <1>1, <1>n DEF SrNumbers
  <2> QED BY <2>1
<1>3. 1 .. BaseBlock - 1 = {}
  BY <1>2
<1> QED BY <1>3 DEF SrArrival

(* A step that brings no acknowledgement and moves no window.              *)
LEMMA SrArrivalQuiet ==
    ASSUME SrArrival,
           s_pc' \notin {"start", "synWait", "confirm"},
           r_pc' \in {"data", "finWait", "done"},
           UNCHANGED <<syn_seq, base_seq, nextseqnum, pos, head, acked>>,
           Arrived \subseteq Arrived',
           \A m \in toSender' :
              \/ m \in toSender
              \/ "FIN" \notin m.flags =>
                    \E j \in 1 .. pos \intersect Arrived' : m.seq = Num(j)
    PROVE  SrArrival'
<1>1. /\ BaseBlock' = BaseBlock /\ \A c : Num(c)' = Num(c)
      /\ \A h, i : Dist(h, i)' = Dist(h, i)
  BY NumKept DEF BaseBlock, InFlight, Dist
<1>2. \A b : b \in Arrived => b \in Arrived'
  OBVIOUS
<1>3. \A m \in toSender' : "FIN" \notin m.flags =>
         \E j \in 1 .. pos' \intersect Arrived' : m.seq = Num(j)'
  BY <1>1, <1>2 DEF SrArrival
<1> QED BY <1>1, <1>2, <1>3 DEF SrArrival

LEMMA SrArrivalFillSend ==
    ASSUME TypeOK, SrInv, SrArrival, SelectiveRepeat, FillSend, UNCHANGED receiverVars
    PROVE  SrArrival'
<1>n. SrNumbers
  BY SrTypes
<1> USE DEF receiverVars, loop
<1>1. BaseBlock' = BaseBlock /\ pos' \in {pos, pos + 1}
  BY SrFillSend DEF FillSend
<1>2. /\ UNCHANGED <<syn_seq, head, acked, s_pc>> /\ toSender' = toSender
      /\ Arrived' = Arrived
  BY DEF FillSend, SenderSends, Arrived
<1>3. /\ \A c : Num(c)' = Num(c)
      /\ \A c \in 1 .. pos : c \in 1 .. pos'
  BY <1>1, <1>2, NumKept, <1>n DEF SrNumbers
<1>4. \A m \in toSender' : "FIN" \notin m.flags =>
         \E j \in 1 .. pos' \intersect Arrived' : m.seq = Num(j)'
  BY <1>2, <1>3 DEF SrArrival
<1> QED BY <1>1, <1>2, <1>4 DEF SrArrival, Dist

(* The packet the acknowledgement names has arrived, so have those the     *)
(* base slides over.                                                       *)
LEMMA SrArrivalSelective ==
    ASSUME TypeOK, SrInv, SrArrival, SelectiveRepeat, SrInv', NEW m, NEW intact,
           m \in toSender, RecvSelective(m, intact), UNCHANGED receiverVars
    PROVE  SrArrival'
<1>n. SrNumbers
  BY SrTypes
<1> USE DEF receiverVars
<1>1. PICK j \in 1 .. pos, slot \in Slots, n \in 0 .. InFlight :
              /\ m.seq = Num(j) /\ "FIN" \notin m.flags
              /\ Dist(head, slot) = j - BaseBlock
              /\ \A i \in Slots : Dist(head, i) < n => acked[i] \/ i = slot
              /\ \A i \in Slots : acked'[i] <=> (acked[i] \/ i = slot) /\ ~(Dist(head, i) < n)
              /\ head' = Slot(head, n)
              /\ base_seq' = Mask(base_seq + n)
              /\ s_pc = "recv" /\ s_pc' \in {"main", "recv"}
              /\ toReceiver' = toReceiver /\ toSender' \subseteq toSender
              /\ UNCHANGED <<syn_seq, packets, nextseqnum, pos, isReadOver>>
  BY SrSlide
<1>2. /\ \A c : Num(c)' = Num(c) /\ Arrived' = Arrived
      /\ n \in 0 .. W /\ BaseBlock + (j - BaseBlock) = j
  <2>1. n \in 0 .. W /\ BaseBlock + (j - BaseBlock) = j
    <3>1. BaseBlock \in Int /\ j \in Int
      BY <1>n DEF SrNumbers
    <3>2. n \in 0 .. W
      BY <1>n DEF SrNumbers
    <3> QED BY <3>1, <3>2
  <2> QED BY <1>1, <2>1, NumKept DEF Arrived
<1>3. BaseBlock' = BaseBlock + n
  <2> DEFINE b == BaseBlock + n
  <2>1. /\ b \in 1 .. SEQNUM_MAX /\ pos \in Nat /\ pos + 1 \in b .. SEQNUM_MAX
        /\ BaseBlock \in 1 .. SEQNUM_MAX /\ n \in 0 .. SEQNUM_MAX
        /\ BaseBlock + n =< SEQNUM_MAX
    BY <1>n DEF SrNumbers
  <2>2. Mask(Num(BaseBlock) + n) = Num(b)
    BY <2>1, NumPlus
  <2>3. pos' = pos /\ base_seq' = Num(b) /\ nextseqnum' = Num(pos + 1) /\ syn_seq' = syn_seq
    BY <1>1, <2>2 DEF SrInv, SenderWindow
  <2> HIDE DEF b
  <2>4. BaseBlock' = b
    BY <2>1, <2>3, SrWindowFrom
  <2> QED BY <2>4 DEF b
<1>4. j \in Arrived
  <2>1. PICK k \in 1 .. pos \intersect Arrived : m.seq = Num(k)
    BY <1>1 DEF SrArrival
  <2>2. k = j
    <3>1. j \in 1 .. SEQNUM_MAX /\ k \in 1 .. SEQNUM_MAX
      BY <1>1, <2>1, <1>n DEF SrNumbers
    <3> QED BY <1>1, <2>1, <3>1, NumInjective
  <2> QED BY <2>1, <2>2
<1>5. \A i \in Slots : acked[i] \/ i = slot => BaseBlock + Dist(head, i) \in Arrived
  BY <1>1, <1>2, <1>4 DEF SrArrival
<1>6. ASSUME NEW i \in Slots, acked'[i]
      PROVE  BaseBlock' + Dist(head', i) \in Arrived
  <2>1. /\ Dist(head', i) = Dist(head, i) - n
        /\ Dist(head, i) \in Int
        /\ BaseBlock + Dist(head, i) \in Arrived
    <3>1. ~(Dist(head, i) < n) /\ BaseBlock + Dist(head, i) \in Arrived
      BY <1>1, <1>5, <1>6
    <3>2. Dist(head, i) \in 0 .. W - 1
      <4>1. Dist(head, i) \in Slots
        BY <1>n, DistType DEF SrNumbers
      <4> QED BY <4>1 DEF Slots
    <3>3. Dist(head', i) = IF Dist(head, i) >= n THEN Dist(head, i) - n
                                                 ELSE Dist(head, i) - n + W
      BY <1>1, <1>2, <1>n, DistOfMoved DEF SrNumbers
    <3> QED BY <1>2, <3>1, <3>2, <3>3, <1>n DEF SrNumbers
  <2>2. BaseBlock' + Dist(head', i) = BaseBlock + Dist(head, i)
    BY <1>2, <1>3, <2>1, <1>n DEF SrNumbers
  <2> QED BY <2>1, <2>2
<1>7. ASSUME NEW c \in 1 .. BaseBlock' - 1
      PROVE  c \in Arrived
  <2>1. CASE c < BaseBlock
    <3>1. c \in 1 .. BaseBlock - 1
      BY <2>1, <1>n DEF SrNumbers
    <3> QED BY <3>1 DEF SrArrival
  <2>2. CASE ~(c < BaseBlock)
    <3> DEFINE d == c - BaseBlock
    <3>1. d \in 0 .. n - 1 /\ BaseBlock + d = c
      <4>1. BaseBlock \in Int /\ n \in Int
        BY <1>n DEF SrNumbers
      <4>2. c \in 1 .. (BaseBlock + n) - 1
        BY <1>3, <4>1
      <4> QED BY <2>2, <4>1, <4>2
    <3> HIDE DEF d
    <3>2. d \in Slots /\ d \in Int /\ d < n
      <4>1. n \in Int /\ n =< W /\ W \in Int
        BY <1>2, <1>n DEF SrNumbers
      <4> QED BY <3>1, <4>1 DEF Slots
    <3>3. Slot(head, d) \in Slots /\ Dist(head, Slot(head, d)) = d
      BY <3>2, <1>n, SlotType, DistOfSlot DEF SrNumbers
    <3> QED BY <1>1, <1>5, <3>1, <3>2, <3>3
  <2> QED BY <2>1, <2>2
<1>8. \A a \in toSender' : "FIN" \notin a.flags =>
         \E k \in 1 .. pos' \intersect Arrived' : a.seq = Num(k)'
  BY <1>1, <1>2 DEF SrArrival
<1>9. (\A i \in Slots : acked[i] => BaseBlock + Dist(head, i) \in Arrived)'
  BY <1>2, <1>6 DEF Dist
<1> QED BY <1>1, <1>2, <1>7, <1>8, <1>9 DEF SrArrival

LEMMA SrArrivalSenderStep ==
    ASSUME TypeInv, SrInv, SrArrival, SelectiveRepeat, SrInv', SenderStep
    PROVE  SrArrival'
<1> USE DEF ring, loop
<1>0. /\ TypeOK /\ UNCHANGED receiverVars /\ UNCHANGED r_pc /\ Arrived' = Arrived
      /\ s_pc \notin {"start", "synWait", "confirm"}
      /\ r_pc \in {"data", "finWait", "done"}
  BY DEF TypeInv, SenderStep, SrArrival, Arrived, receiverVars
<1>1. CASE SenderStart \/ SynTimeout \/ ConfirmTimeout
  BY <1>0, <1>1 DEF SenderStart, SynTimeout, ConfirmTimeout
<1>2. CASE MainExit \/ MainAbort \/ MainRound
  BY <1>0, <1>2, SrArrivalQuiet DEF MainExit, MainAbort, MainRound, SenderSends, channels
<1>3. CASE FillFull \/ FillEof \/ RecvTimeout
  BY <1>0, <1>3, SrArrivalQuiet
  DEF FillFull, FillEof, RecvTimeout, TimerExpires, channels
<1>4. CASE FillSend
  BY <1>0, <1>4, SrArrivalFillSend
<1>5. CASE FinTimeout
  BY <1>0, <1>5, SrArrivalQuiet DEF FinTimeout, AttemptFailed, SenderSends
<1>6. CASE SenderReceive
  <2> PICK m \in toSender, intact \in Intact :
        \/ SynReceive(m, intact) \/ ConfirmReceive(m, intact)
        \/ RecvSkip(m, intact) \/ RecvStale(m, intact)
        \/ RecvCumulative(m, intact) \/ RecvSelective(m, intact)
        \/ FinReceive(m, intact)
    BY <1>6 DEF SenderReceive
  <2>0. \A out : SenderExchange(m, out) => toSender' \subseteq toSender
    BY DEF SenderExchange, Taken
  <2>1. CASE SynReceive(m, intact) \/ ConfirmReceive(m, intact)
    BY <1>0, <2>1 DEF SynReceive, ConfirmReceive
  <2>2. CASE RecvSkip(m, intact)
    BY <1>0, <2>0, <2>2, SrArrivalQuiet DEF RecvSkip, senderVars
  <2>3. CASE RecvStale(m, intact)
    BY <1>0, <2>0, <2>3, SrArrivalQuiet
    DEF RecvStale, RecvAck, TimerCheck, TimerExpires
  <2>4. CASE RecvCumulative(m, intact)
    BY <2>4 DEF RecvCumulative, SelectiveRepeat
  <2>5. CASE RecvSelective(m, intact)
    BY <1>0, <2>5, SrArrivalSelective
  <2>6. CASE FinReceive(m, intact)
    BY <1>0, <2>0, <2>6, SrArrivalQuiet DEF FinReceive, AttemptFailed
  <2> QED BY <2>1, <2>2, <2>3, <2>4, <2>5, <2>6
<1> QED BY <1>1, <1>2, <1>3, <1>4, <1>5, <1>6 DEF SenderStep, SenderNext
-----------------------------------------------------------------------------
(* The numbers behind the receive window, in blocks.                       *)
LEMMA SrReackWindow ==
    ASSUME TypeOK, SrInv, SelectiveRepeat, r_pc = "data", NEW c \in 1 .. pos
    PROVE  InReackWindow(Num(c)) <=> c \in NextBlock - W .. NextBlock - 1
<1>n. SrNumbers
  BY SrTypes
<1> DEFINE s == expected
           start == Mask(s - W)
           x == Num(c)
<1>1. /\ c \in 1 .. SEQNUM_MAX /\ NextBlock \in 1 .. SEQNUM_MAX
      /\ s = Num(NextBlock)
  BY <1>n DEF SrNumbers, SrInv, ReceiverState
<1>2. /\ x \in 0 .. SEQNUM_MAX - 1 /\ s \in 0 .. SEQNUM_MAX - 1
      /\ Mask(x - s) = IF c >= NextBlock THEN c - NextBlock ELSE c - NextBlock + SEQNUM_MAX
  BY <1>1, NumDiff, NumType DEF SeqNums
<1>3. W \in 1 .. SEQNUM_MAX - 1 /\ SEQNUM_MAX \in Nat
  BY <1>n DEF SrNumbers
<1> HIDE DEF s, x
<1>4. Mask(x - s) = IF x >= s THEN x - s ELSE x - s + SEQNUM_MAX
  <2>1. x - s \in 0 .. SEQNUM_MAX - 1 \/ x - s \in -SEQNUM_MAX .. -1
    BY <1>2, <1>3
  <2> QED BY <1>2, <1>3, <2>1, MaskCases DEF SeqNums
<1>5. start = IF s >= W THEN s - W ELSE s - W + SEQNUM_MAX
  <2>1. s - W \in 0 .. SEQNUM_MAX - 1 \/ s - W \in -SEQNUM_MAX .. -1
    BY <1>2, <1>3
  <2> QED BY <1>2, <1>3, <2>1, MaskCases DEF SeqNums
<1> HIDE DEF start
<1>6. start \in 0 .. SEQNUM_MAX - 1
  BY <1>2, <1>3, <1>5
<1>7. Mask(start + (W - 1)) = Mask(s - 1)
  <2>1. Mask(s - 1) = IF s >= 1 THEN s - 1 ELSE s - 1 + SEQNUM_MAX
    <3>1. s - 1 \in 0 .. SEQNUM_MAX - 1 \/ s - 1 \in -SEQNUM_MAX .. -1
      BY <1>2, <1>3
    <3> QED BY <1>2, <1>3, <3>1, MaskCases DEF SeqNums
  <2>2. \/ start + (W - 1) = s - 1 /\ s >= 1
        \/ start + (W - 1) = s - 1 + SEQNUM_MAX
    BY <1>2, <1>3, <1>5
  <2>4. ASSUME s >= 1
        PROVE  Mask(s - 1 + SEQNUM_MAX) = s - 1
    <3> DEFINE y == s - 1 + SEQNUM_MAX
    <3>1. y \in SEQNUM_MAX .. 2 * SEQNUM_MAX - 1 /\ y - SEQNUM_MAX = s - 1
      BY <1>2, <1>3, <2>4
    <3> HIDE DEF y
    <3>2. Mask(y) = s - 1
      BY <3>1, MaskCases
    <3> QED BY <3>2 DEF y
  <2>5. s = 0 => Mask(s - 1 + SEQNUM_MAX) = s - 1 + SEQNUM_MAX
    <3>1. s = 0 => s - 1 + SEQNUM_MAX \in 0 .. SEQNUM_MAX - 1
      BY <1>2, <1>3
    <3> QED BY <3>1, MaskCases DEF SeqNums
  <2> QED BY <1>2, <2>1, <2>2, <2>4, <2>5
<1>8. Mask(x - start) = IF x >= start THEN x - start ELSE x - start + SEQNUM_MAX
  <2>1. x - start \in 0 .. SEQNUM_MAX - 1 \/ x - start \in -SEQNUM_MAX .. -1
    BY <1>2, <1>3, <1>6
  <2> QED BY <1>2, <1>3, <1>6, <2>1, MaskCases DEF SeqNums
<1>9. InReackWindow(x) <=> Mask(x - start) =< W - 1
  <2>1. W - 1 \in 0 .. SEQNUM_MAX - 1
    BY <1>3
  <2> QED BY <1>2, <1>6, <1>7, <2>1, RangeForm DEF InReackWindow, start, SeqNums, s
<1>10. /\ FileLen \in Nat /\ FileLen + W =< SEQNUM_MAX /\ pos =< FileLen /\ pos \in Nat
       /\ NextBlock =< pos + 1
  BY <1>n DEF SrNumbers
<1>11. Mask(x - start) =< W - 1 <=> c \in NextBlock - W .. NextBlock - 1
  BY <1>1, <1>2, <1>3, <1>4, <1>5, <1>6, <1>8, <1>10
<1> QED BY <1>9, <1>11 DEF x

LEMMA SrArrivalBuffer ==
    ASSUME TypeOK, SrInv, SrArrival, SelectiveRepeat, NEW m, NEW intact,
           m \in toReceiver, DataBuffer(m, intact), UNCHANGED senderVars
    PROVE  SrArrival'
<1>n. SrNumbers
  BY SrTypes
<1> USE DEF senderVars
<1>1. PICK c \in NextBlock .. pos, slot \in Slots, n \in 0 .. W :
              /\ \A i \in Slots : Dist(r_head, i) < n => received[i] \/ i = slot
              /\ \A i \in Slots : received'[i] <=>
                    (received[i] \/ i = slot) /\ ~(Dist(r_head, i) < n)
              /\ \A i \in Slots : ~(Dist(r_head, i) < n) =>
                    payload_buf'[i] = IF i = slot THEN c ELSE payload_buf[i]
              /\ Dist(r_head, slot) = c - NextBlock
              /\ Len(file') = Len(file) + n
              /\ \A k \in 1 .. Len(file) : file'[k] = file[k]
              /\ \A k \in Len(file) + 1 .. Len(file') : file'[k] = k
              /\ toSender' = toSender \union {AckPkt(Num(c))}
              /\ r_pc = "data" /\ UNCHANGED r_pc
  BY SrBuffer
<1>2. 1 .. Len(file') \subseteq Arrived'
  <2> SUFFICES ASSUME NEW k \in 1 .. Len(file')
               PROVE  file'[k] = k
    BY DEF Arrived
  <2>1. k \in 1 .. Len(file) \/ k \in Len(file) + 1 .. Len(file')
    BY <1>1, <1>n DEF SrNumbers
  <2> QED BY <1>1, <2>1 DEF SrInv, ReceiverState, PrefixDelivered
<1>3. ASSUME NEW i \in Slots, NEW b, received[i] \/ i = slot,
             b = IF i = slot THEN c ELSE payload_buf[i],
             b = NextBlock + Dist(r_head, i)
      PROVE  b \in Arrived'
  <2>1. CASE Dist(r_head, i) < n
    <3>1. Dist(r_head, i) \in Nat
      <4>1. Dist(r_head, i) \in Slots
        BY <1>n, DistType DEF SrNumbers
      <4> QED BY <4>1, <1>n DEF SrNumbers, Slots
    <3>2. b \in 1 .. Len(file')
      <4>1. Len(file) \in Nat /\ n \in Nat /\ Len(file') = Len(file) + n
        BY <1>1, <1>n DEF SrNumbers
      <4>2. b = Len(file) + 1 + Dist(r_head, i)
        BY <1>3 DEF NextBlock
      <4> QED BY <2>1, <3>1, <4>1, <4>2
    <3> QED BY <1>2, <3>2
  <2>2. CASE ~(Dist(r_head, i) < n)
    <3>1. received'[i] /\ payload_buf'[i] = b
      BY <1>1, <1>3, <2>2
    <3> QED BY <3>1 DEF Arrived
  <2> QED BY <2>1, <2>2
<1>4. c \in Arrived'
  <2>1. c = NextBlock + Dist(r_head, slot)
    BY <1>1, <1>n DEF SrNumbers
  <2> QED BY <1>3, <2>1
<1>5. Arrived \subseteq Arrived'
  <2> SUFFICES ASSUME NEW b \in Arrived
               PROVE  b \in Arrived'
    OBVIOUS
  <2>1. CASE b \in 1 .. Len(file)
    <3>1. b \in 1 .. Len(file')
      <4>1. Len(file) \in Nat /\ W \in Nat
        BY <1>n DEF SrNumbers
      <4> QED BY <1>1, <2>1, <4>1
    <3> QED BY <1>2, <3>1
  <2>2. CASE \E i \in Slots : received[i] /\ payload_buf[i] = b
    <3>1. PICK i \in Slots : received[i] /\ payload_buf[i] = b
      BY <2>2
    <3>2. b = NextBlock + Dist(r_head, i)
      BY <3>1 DEF SrInv, ReceiverRing
    <3>3. i = slot => b = c
      BY <1>1, <3>2, <1>n DEF SrNumbers
    <3> QED BY <1>3, <3>1, <3>2, <3>3
  <2> QED BY <2>1, <2>2, SrArrivedForm
<1>6. c \in 1 .. pos /\ AckPkt(Num(c)).seq = Num(c)
  BY <1>1, <1>n DEF SrNumbers, AckPkt, Header
<1> QED BY <1>1, <1>4, <1>5, <1>6, SrArrivalQuiet DEF SrArrival

LEMMA SrArrivalReceiverStep ==
    ASSUME TypeInv, SrInv, SrArrival, Reliable, ReceiverStep
    PROVE  SrArrival'
<1> USE DEF buffers
<1>0. /\ TypeOK /\ SelectiveRepeat /\ UNCHANGED senderVars
      /\ UNCHANGED <<s_pc, syn_seq, base_seq, nextseqnum, pos, head, acked>>
      /\ s_pc \notin {"start", "synWait", "confirm"}
      /\ r_pc \in {"data", "finWait", "done"}
  BY DEF TypeInv, ReceiverStep, SrArrival, senderVars, Reliable
<1>n. SrNumbers
  BY <1>0, SrTypes
<1>1. \A q : /\ AckPkt(q).seq = q /\ "FIN" \in FinAckPkt(q).flags
  BY DEF AckPkt, FinAckPkt, Header
<1>2. CASE ListenTimeout \/ AckWaitTimeout
  BY <1>0, <1>2 DEF ListenTimeout, AckWaitTimeout
<1>3. CASE FinWaitTimeout
  <2>1. Arrived' = Arrived /\ toSender' = toSender /\ r_pc' = "done"
    BY <1>3 DEF FinWaitTimeout, channels, Arrived
  <2> QED BY <1>0, <2>1, SrArrivalQuiet
<1>4. CASE ReceiverReceive
  <2> PICK m \in toReceiver, intact \in Intact :
        \/ ListenReceive(m, intact) \/ AckWaitReceive(m, intact)
        \/ DataDrop(m, intact) \/ DataFin(m, intact)
        \/ DataInOrder(m, intact) \/ DataOutOfOrder(m, intact)
        \/ DataBuffer(m, intact) \/ DataAllocFails(m, intact)
        \/ DataReack(m, intact) \/ FinWaitReceive(m, intact)
    BY <1>4 DEF ReceiverReceive
  <2>0. \A out : ReceiverExchange(m, out) => toSender' = toSender \union out
    BY DEF ReceiverExchange
  <2>1. UNCHANGED <<file, received, payload_buf>> => Arrived' = Arrived
    BY DEF Arrived
  <2>2. CASE ListenReceive(m, intact) \/ AckWaitReceive(m, intact)
    BY <1>0, <2>2 DEF ListenReceive, AckWaitReceive
  <2>3. CASE DataDrop(m, intact)
    BY <1>0, <2>0, <2>1, <2>3, SrArrivalQuiet DEF DataDrop, receiverVars
  <2>4. CASE DataFin(m, intact)
    BY <1>0, <1>1, <2>0, <2>1, <2>4, SrArrivalQuiet DEF DataFin
  <2>5. CASE DataInOrder(m, intact) \/ DataOutOfOrder(m, intact)
    BY <1>0, <2>5 DEF DataInOrder, DataOutOfOrder, SelectiveRepeat
  <2>6. CASE DataBuffer(m, intact)
    BY <1>0, <2>6, SrArrivalBuffer
  <2>7. CASE DataAllocFails(m, intact)
    BY <2>7 DEF DataAllocFails, Reliable
  <2>8. CASE DataReack(m, intact)
    <3>1. /\ m.flags = {} /\ r_pc = "data" /\ r_pc' = "data"
          /\ toSender' = toSender \union (IF InReackWindow(m.seq) THEN {AckPkt(m.seq)}
                                                                  ELSE {})
          /\ Arrived' = Arrived
      BY <2>0, <2>1, <2>8 DEF DataReack, DataPacket
    <3>2. PICK c \in 1 .. pos : m.seq = Num(c)
      BY <3>1 DEF SrInv, SentPackets
    <3>3. InReackWindow(m.seq) => c \in 1 .. pos \intersect Arrived
      <4>1. InReackWindow(m.seq) => c \in 1 .. Len(file)
        BY <1>0, <3>1, <3>2, SrReackWindow, <1>n DEF SrNumbers, NextBlock
      <4> QED BY <1>0, <4>1, SrArrivedForm
    <3> QED BY <1>0, <1>1, <3>1, <3>2, <3>3, SrArrivalQuiet
  <2>9. CASE FinWaitReceive(m, intact)
    BY <1>0, <1>1, <2>0, <2>1, <2>9, SrArrivalQuiet DEF FinWaitReceive, receiverVars
  <2> QED BY <2>2, <2>3, <2>4, <2>5, <2>6, <2>7, <2>8, <2>9
<1> QED BY <1>2, <1>3, <1>4 DEF ReceiverStep, ReceiverNext

LEMMA SrArrivalStutter ==
    ASSUME SrArrival, UNCHANGED vars
    PROVE  SrArrival'
BY SrArrivalQuiet DEF SrArrival, vars, channels, senderVars, receiverVars, Arrived
-----------------------------------------------------------------------------
(* What the two invariants imply.                                          *)
LEMMA SrAllSent ==
    ASSUME TypeOK, SrInv, SrArrival, SelectiveRepeat, Closed
    PROVE  Len(file) = FileLen
<1>n. SrNumbers
  BY SrTypes
<1>1. pos = FileLen /\ unackedCnt = 0
  BY DEF Closed, AllSent, SrInv, SenderPlace
<1>2. InFlight = 0 /\ BaseBlock =< NextBlock
  BY <1>1, SrNothingOutstanding, SrBaseNotAhead
<1> QED BY <1>1, <1>2, <1>n DEF SrNumbers, NextBlock

LEMMA SrComplete ==
    ASSUME TypeOK, SrInv, SrArrival, SelectiveRepeat
    PROVE  CompleteOnClose
BY SrAllSent DEF CompleteOnClose, Closing, SrInv, SenderPlace, ReceiverState

LEMMA SrArrived ==
    ASSUME TypeOK, SrInv, SrArrival, SelectiveRepeat
    PROVE  AckedHasArrived
<1>n. SrNumbers
  BY SrTypes
<1> SUFFICES ASSUME NEW c \in 1 .. pos,
                    c \notin {packets[i].block : i \in Outstanding}
             PROVE  c \in Arrived
  BY DEF AckedHasArrived
<1>1. CASE c < BaseBlock
  <2>1. c \in 1 .. BaseBlock - 1
    BY <1>1, <1>n DEF SrNumbers
  <2> QED BY <2>1 DEF SrArrival
<1>2. CASE ~(c < BaseBlock)
  <2> DEFINE k == c - BaseBlock
  <2>1. k \in 0 .. InFlight - 1 /\ BaseBlock + k = c
    BY <1>2, <1>n DEF SrNumbers
  <2> HIDE DEF k
  <2>2. k \in Slots /\ k \in Int /\ k < InFlight
    BY <2>1, <1>n DEF SrNumbers, Slots
  <2>3. Slot(head, k) \in Slots /\ Dist(head, Slot(head, k)) = k
    BY <2>2, <1>n, SlotType, DistOfSlot DEF SrNumbers
  <2>4. used[Slot(head, k)] /\ packets[Slot(head, k)] = DataPkt(Num(c), c)
    BY <2>1, <2>2, <2>3 DEF SrInv, SenderRing
  <2>5. Slot(head, k) \notin Outstanding
    BY <2>4 DEF DataPkt
  <2>6. acked[Slot(head, k)]
    BY <2>3, <2>4, <2>5 DEF Outstanding
  <2> QED BY <2>1, <2>3, <2>6 DEF SrArrival
<1> QED BY <1>1, <1>2

LEMMA SrInStep ==
    ASSUME TypeOK, SrInv, SrArrival, SelectiveRepeat
    PROVE  WindowsInStep
<1>n. SrNumbers
  BY SrTypes
<1> SUFFICES ASSUME r_pc = "data", NEW i \in Outstanding
             PROVE  InReceiveWindow(packets[i].seq) \/ InReackWindow(packets[i].seq)
  BY DEF WindowsInStep, SelectiveRepeat
<1> DEFINE c == packets[i].block
<1>1. c \in BaseBlock .. pos /\ c \in 1 .. pos /\ packets[i].seq = Num(c)
  <2>1. i \in Slots /\ Dist(head, i) < InFlight
    BY DEF Outstanding, SrInv, SenderRing
  <2> QED BY <2>1, SrWindowPackets
<1> HIDE DEF c
<1>2. BaseBlock =< NextBlock
  BY SrBaseNotAhead
<1>3. c \in NextBlock .. NextBlock + W - 1 \/ c \in NextBlock - W .. NextBlock - 1
  <2>1. /\ BaseBlock \in Int /\ NextBlock \in Int /\ W \in Int /\ c \in Int
        /\ pos =< BaseBlock + W - 1 /\ NextBlock =< pos + 1
        /\ BaseBlock =< c /\ c =< pos /\ pos \in Int
    BY <1>1, <1>n DEF SrNumbers
  <2> QED BY <1>2, <2>1
<1> QED BY <1>1, <1>3, SrReceiveWindow, SrReackWindow
-----------------------------------------------------------------------------
LEMMA SrReliableInvariant ==
    ASSUME Reliable
    PROVE  SpecEstablished => [](TypeInv /\ SrInv /\ SrArrival)
<1>1. InitEstablished => TypeInv /\ SrInv /\ SrArrival
  BY TypeInit, SrInit, SrArrivalInit DEF TypeInv, Reliable
<1>2. TypeInv /\ SrInv /\ SrArrival /\ [Next]_vars => (TypeInv /\ SrInv /\ SrArrival)'
  <2> SUFFICES ASSUME TypeInv, SrInv, SrArrival, [Next]_vars
               PROVE  TypeInv' /\ SrInv' /\ SrArrival'
    OBVIOUS
  <2>1. TypeInv' /\ SrInv'
    BY TypeSenderStep, TypeReceiverStep, TypeStutter,
       SrSenderStep, SrReceiverStep, SrStutter DEF Next, Reliable
  <2>2. SrArrival'
    BY <2>1, SrArrivalSenderStep, SrArrivalReceiverStep, SrArrivalStutter
    DEF Next, Reliable
  <2> QED BY <2>1, <2>2
<1> QED BY <1>1, <1>2, PTL DEF SpecEstablished

(* After a handshake that leaves no packet behind, and with a malloc that  *)
(* does not fail, both invariants hold throughout the transfer.            *)
THEOREM SrReliable ==
    ASSUME Reliable
    PROVE  SpecEstablished => [](SrInv /\ SrArrival)
BY SrReliableInvariant, PTL

(* Then the sender sends its FIN, and the receiver accepts one, only when  *)
(* the whole file is written.                                              *)
THEOREM SrCloses ==
    ASSUME Reliable
    PROVE  SpecEstablished => []CompleteOnClose
<1>1. TypeInv /\ SrInv /\ SrArrival => CompleteOnClose
  BY SrComplete DEF TypeInv, Reliable
<1> QED BY <1>1, SrReliableInvariant, PTL

(* Every block the sender no longer retransmits is in the output file or   *)
(* in the receiver's ring.                                                 *)
THEOREM SrAcknowledged ==
    ASSUME Reliable
    PROVE  SpecEstablished => []AckedHasArrived
<1>1. TypeInv /\ SrInv /\ SrArrival => AckedHasArrived
  BY SrArrived DEF TypeInv, Reliable
<1> QED BY <1>1, SrReliableInvariant, PTL

(* Whatever the sender may retransmit, the receiver's two window tests     *)
(* make it answer with an acknowledgement.                                 *)
THEOREM SrWindowsInStep ==
    ASSUME Reliable
    PROVE  SpecEstablished => []WindowsInStep
<1>1. TypeInv /\ SrInv /\ SrArrival => WindowsInStep
  BY SrInStep DEF TypeInv, Reliable
<1> QED BY <1>1, SrReliableInvariant, PTL
-----------------------------------------------------------------------------
(* Rtp implements ReliableTransfer: each step is a step of it or changes   *)
(* nothing it sees.                                                        *)
LEMMA SrTransferReceiverStep ==
    ASSUME TypeInv, SrInv, SrArrival, TypeInv', SrInv', SelectiveRepeat, ReceiverStep
    PROVE  \/ Transfer!Deliver \/ Transfer!ReceiverCloses
           \/ UNCHANGED Transfer!transferVars
<1> USE DEF buffers
<1>0. /\ TypeOK /\ UNCHANGED <<senderVars, SenderStatus>>
      /\ r_pc \in {"data", "finWait", "done"}
      /\ file \in Seq(Blocks) /\ file' \in Seq(Blocks) /\ PrefixDelivered
      /\ Len(file') =< FileLen /\ \A i \in 1 .. Len(file') : file'[i] = i
  BY DEF TypeInv, TypeOK, ReceiverTypeOK, ReceiverStep, senderVars, SenderStatus,
         SrInv, SrArrival, ReceiverState, PrefixDelivered
<1>1. CASE UNCHANGED file /\ r_pc = "data" /\ r_pc' = "finWait"
  <2>1. Closed
    BY <1>0, <1>1 DEF SrInv, ReceiverState, Closed, AllSent, senderVars
  <2>2. file = Transfer!Source
    BY <1>0, <2>1, SrAllSent, WholeIsSource DEF PrefixDelivered
  <2> QED BY <1>0, <1>1, <2>2, StatusCases, StatusCasesNext DEF Transfer!ReceiverCloses
<1>2. CASE /\ UNCHANGED file
           /\ \/ r_pc \in {"finWait", "done"} /\ r_pc' \in {"finWait", "done"}
              \/ r_pc = "data" /\ r_pc' = "data"
  BY <1>0, <1>2, StatusCases, StatusCasesNext DEF Transfer!transferVars
<1>3. CASE \E m \in toReceiver, intact \in Intact : DataBuffer(m, intact)
  <2>1. /\ r_pc = "data" /\ r_pc' = "data"
        /\ \E n \in 0 .. W : Len(file') = Len(file) + n
        /\ \A k \in 1 .. Len(file) : file'[k] = file[k]
    BY <1>0, <1>3, SrBuffer
  <2>2. Len(file) \in Nat /\ Len(file') \in Nat /\ FileLen \in Nat
    BY <1>0, WireAssumption
  <2>3. CASE Len(file') = Len(file)
    <3>1. file' = file
      BY <1>0, <2>1, <2>3
    <3> QED BY <1>0, <2>1, <3>1, StatusCases, StatusCasesNext DEF Transfer!transferVars
  <2>4. CASE Len(file') # Len(file)
    <3>1. Len(file') \in Len(file) + 1 .. FileLen
      BY <1>0, <2>1, <2>2, <2>4, WType
    <3>2. file' = SubSeq(Transfer!Source, 1, Len(file'))
      BY <1>0, PrefixIsSource
    <3> QED BY <1>0, <2>1, <3>1, <3>2, StatusCases, StatusCasesNext DEF Transfer!Deliver
  <2> QED BY <2>3, <2>4
<1>4. \/ \E m \in toReceiver, intact \in Intact : DataBuffer(m, intact)
      \/ /\ UNCHANGED file
         /\ \/ r_pc = "data" /\ r_pc' = "finWait"
            \/ r_pc \in {"finWait", "done"} /\ r_pc' \in {"finWait", "done"}
            \/ r_pc = "data" /\ r_pc' = "data"
  <2>1. CASE ListenTimeout \/ AckWaitTimeout \/ FinWaitTimeout
    BY <1>0, <2>1 DEF ListenTimeout, AckWaitTimeout, FinWaitTimeout
  <2>2. CASE ReceiverReceive
    <3> PICK m \in toReceiver, intact \in Intact :
          \/ ListenReceive(m, intact) \/ AckWaitReceive(m, intact)
          \/ DataDrop(m, intact) \/ DataFin(m, intact)
          \/ DataInOrder(m, intact) \/ DataOutOfOrder(m, intact)
          \/ DataBuffer(m, intact) \/ DataAllocFails(m, intact)
          \/ DataReack(m, intact) \/ FinWaitReceive(m, intact)
      BY <2>2 DEF ReceiverReceive
    <3>1. CASE ListenReceive(m, intact) \/ AckWaitReceive(m, intact)
      BY <1>0, <3>1 DEF ListenReceive, AckWaitReceive
    <3>2. CASE DataDrop(m, intact) \/ DataFin(m, intact) \/ FinWaitReceive(m, intact)
      BY <3>2 DEF DataDrop, DataFin, FinWaitReceive, receiverVars
    <3>3. CASE DataAllocFails(m, intact) \/ DataReack(m, intact)
      BY <3>3 DEF DataAllocFails, DataReack, DataPacket
    <3>4. CASE DataInOrder(m, intact) \/ DataOutOfOrder(m, intact)
      BY <3>4 DEF DataInOrder, DataOutOfOrder, SelectiveRepeat
    <3> QED BY <3>1, <3>2, <3>3, <3>4
  <2> QED BY <2>1, <2>2 DEF ReceiverStep, ReceiverNext
<1> QED BY <1>1, <1>2, <1>3, <1>4

(* A selective-repeat transfer is a reliable transfer: blocks are appended *)
(* to the output file in the order of the input file, the receiver closes  *)
(* only with the whole file and the sender reports success only after it.  *)
THEOREM SrImplementsTransfer ==
    ASSUME Reliable
    PROVE  SpecEstablished => TransferSpec
<1>1. InitEstablished => Transfer!Init
  BY StatusCases DEF InitEstablished, SenderAt, ReceiverAt, Transfer!Init
<1> DEFINE Inv == TypeInv /\ SrInv /\ SrArrival
<1>2. Inv /\ Inv' /\ [Next]_vars => [Transfer!Next]_(Transfer!transferVars)
  <2> SUFFICES ASSUME Inv, Inv', [Next]_vars
               PROVE  [Transfer!Next]_(Transfer!transferVars)
    OBVIOUS
  <2>1. CASE SenderStep
    BY <2>1, TransferSenderStep DEF Transfer!Next, SrInv, SentAcks
  <2>2. CASE ReceiverStep
    BY <2>2, SrTransferReceiverStep DEF Transfer!Next, Reliable
  <2>3. CASE UNCHANGED vars
    BY <2>3 DEF vars, senderVars, receiverVars, SenderStatus, ReceiverStatus,
                Transfer!transferVars
  <2> QED BY <2>1, <2>2, <2>3 DEF Next
<1>3. SpecEstablished => []Inv
  BY SrReliableInvariant
<1> QED BY <1>1, <1>2, <1>3, PTL DEF SpecEstablished, TransferSpec, Transfer!Spec
=============================================================================
