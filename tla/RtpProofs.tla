----------------------------- MODULE RtpProofs -----------------------------
(***************************************************************************)
(* Facts about ring slots, packets and blocks that the proofs about Rtp    *)
(* rest on, and the proofs that Rtp is type-correct and that its handshake *)
(* connects.                                                               *)
(***************************************************************************)
EXTENDS RtpBlocks, SeqNumProofs, WellFoundedInduction

LEMMA WType == W \in Nat \ {0}
BY WireAssumption DEF W

LEMMA SlotType == \A h \in Slots, k \in Int : Slot(h, k) \in Slots
BY WType DEF Slot, Slots

(* Run is what the while loops compute: it exists, and it is the least n   *)
(* at which they stop.                                                     *)
LEMMA RunType ==
    ASSUME NEW holds, NEW h
    PROVE  /\ Run(holds, h) \in 0 .. W
           /\ \A k \in 0 .. Run(holds, h) - 1 : holds[Slot(h, k)]
           /\ Run(holds, h) < W => ~holds[Slot(h, Run(holds, h))]
<1> DEFINE Stops(n) == n < W => ~holds[Slot(h, n)]
           T == {n \in 0 .. W : Stops(n)}
<1>1. T \subseteq Nat /\ T # {}
  <2>1. W \in T
    BY WType
  <2> QED BY <2>1, WType
<1>2. PICK n \in T : \A m \in T : <<m, n>> \notin OpToRel(<, Nat)
  <2> HIDE DEF T
  <2> QED BY <1>1, WFMin, NatLessThanWellFounded
<1>3. \A m \in T : ~(m < n)
  BY <1>1, <1>2 DEF OpToRel
<1>4. \A k \in 0 .. n - 1 : holds[Slot(h, k)]
  <2> SUFFICES ASSUME NEW k \in 0 .. n - 1, ~holds[Slot(h, k)]
               PROVE  FALSE
    OBVIOUS
  <2>1. k \in 0 .. W /\ k < n
    BY <1>1, WType
  <2> QED BY <2>1, <1>3
<1>5. \E i \in 0 .. W : /\ \A k \in 0 .. i - 1 : holds[Slot(h, k)]
                        /\ i < W => ~holds[Slot(h, i)]
  BY <1>4
<1> QED BY <1>5 DEF Run
-----------------------------------------------------------------------------
(* Every packet the programs build from a sequence number is a packet.     *)
LEMMA PacketTypes ==
    \A q \in SeqNums :
        /\ SynPkt(q) \in Packets(Blocks) /\ SynAckPkt(q) \in Packets(Blocks)
        /\ AckPkt(q) \in Packets(Blocks)
        /\ FinPkt(q) \in Packets(Blocks) /\ FinAckPkt(q) \in Packets(Blocks)
        /\ \A b \in Blocks : DataPkt(q, b) \in Packets(Blocks)
BY WireAssumption DEF SynPkt, SynAckPkt, AckPkt, FinPkt, FinAckPkt, DataPkt,
                      Header, Packets, Flags, Blocks

(* The loops bounded by MAX_RETRY are entered with attempts left; with     *)
(* TypeOK this is inductive.                                               *)
AttemptsLeft == /\ s_pc \in {"start", "synWait"} => retry < MAX_RETRY
                /\ s_pc = "fin" => retry < MAX_RETRY
                /\ r_pc \in {"listen", "ackWait"} => r_retry < MAX_RETRY
TypeInv == TypeOK /\ AttemptsLeft

LEMMA TypeInit == Init \/ InitEstablished => TypeInv
<1> SUFFICES ASSUME Init \/ InitEstablished PROVE TypeInv
  OBVIOUS
<1> USE DEF Init, InitEstablished, SenderInit, SenderAt, ReceiverInit, ReceiverAt
<1>1. 0 \in Slots /\ 0 \in SeqNums /\ 0 \in Blocks
  BY WType, SeqNumAssumption, WireAssumption DEF Slots, SeqNums, Blocks
<1>2. SenderTypeOK
  BY <1>1, NextType, PacketTypes, SenderAssumption, WireAssumption
  DEF SenderTypeOK, SenderPlaces
<1>3. ReceiverTypeOK
  <2>1. seqnum_next(syn_seq) \in SeqNums
    BY NextType, SenderAssumption
  <2> QED BY <1>1, <2>1, WireAssumption DEF ReceiverTypeOK, ReceiverPlaces, NoPayload
<1>4. AttemptsLeft
  BY WireAssumption DEF AttemptsLeft
<1> QED BY <1>2, <1>3, <1>4 DEF TypeInv, TypeOK

(* What a step sends and takes keeps the channels to packets.              *)
LEMMA SenderChannels ==
    ASSUME TypeOK, NEW out \in SUBSET Packets(Blocks),
           SenderSends(out) \/ \E m : SenderExchange(m, out)
    PROVE  toReceiver' \subseteq Packets(Blocks) /\ toSender' \subseteq Packets(Blocks)
BY DEF TypeOK, SenderSends, SenderExchange, Taken

LEMMA ReceiverChannels ==
    ASSUME TypeOK, NEW out \in SUBSET Packets(Blocks),
           ReceiverSends(out) \/ \E m : ReceiverExchange(m, out)
    PROVE  toReceiver' \subseteq Packets(Blocks) /\ toSender' \subseteq Packets(Blocks)
BY DEF TypeOK, ReceiverSends, ReceiverExchange, Taken

LEMMA TypeSenderStep ==
    ASSUME TypeInv, SenderStep
    PROVE  TypeInv'
<1> USE DEF ring, loop
<1>0. /\ TypeOK /\ SenderTypeOK /\ ReceiverTypeOK /\ AttemptsLeft
      /\ toReceiver \subseteq Packets(Blocks) /\ toSender \subseteq Packets(Blocks)
  BY DEF TypeInv, TypeOK
<1>1. ReceiverTypeOK' /\ UNCHANGED <<r_pc, r_retry>>
  BY <1>0 DEF SenderStep, receiverVars, ReceiverTypeOK
<1>2. SUFFICES /\ toReceiver' \subseteq Packets(Blocks)
               /\ toSender' \subseteq Packets(Blocks)
               /\ SenderTypeOK'
               /\ s_pc' \in {"start", "synWait", "fin"} => retry' < MAX_RETRY
  BY <1>0, <1>1 DEF TypeInv, TypeOK, AttemptsLeft
<1>3. /\ SynPkt(syn_seq) \in Packets(Blocks) /\ FinPkt(FinSeq) \in Packets(Blocks)
      /\ AckPkt(seqnum_next(syn_seq)) \in Packets(Blocks)
      /\ Resent(SynPkt(syn_seq)) \subseteq Packets(Blocks)
      /\ Resent(FinPkt(FinSeq)) \subseteq Packets(Blocks)
  <2>1. seqnum_next(syn_seq) \in SeqNums /\ FinSeq \in SeqNums
    BY <1>0, NextType, MaskCases, SeqNumAssumption DEF SenderTypeOK, FinSeq, SeqNums
  <2> QED BY <2>1, <1>0, PacketTypes DEF Resent, SenderTypeOK
<1>4. CASE SenderStart
  BY <1>0, <1>3, <1>4, SenderChannels
  DEF SenderStart, SenderTypeOK, SenderPlaces, AttemptsLeft
<1>5. CASE SynTimeout
  BY <1>0, <1>3, <1>5, SenderChannels, WireAssumption
  DEF SynTimeout, AttemptFailed, SenderTypeOK, SenderPlaces, AttemptsLeft
<1>6. CASE ConfirmTimeout
  BY <1>0, <1>6 DEF ConfirmTimeout, channels, SenderTypeOK, SenderPlaces
<1>7. CASE MainExit
  BY <1>0, <1>3, <1>7, SenderChannels, WireAssumption
  DEF MainExit, SenderTypeOK, SenderPlaces
<1>8. CASE MainAbort
  BY <1>0, <1>8 DEF MainAbort, channels, SenderTypeOK, SenderPlaces
<1>9. CASE MainRound
  <2>1. \A n \in Int : Leading(head, n) \subseteq Slots
    BY <1>0, SlotType DEF Leading, SenderTypeOK
  <2>2. Retransmitted \subseteq Packets(Blocks)
    BY <1>0, <2>1, MaskCases, SeqNumAssumption
    DEF Retransmitted, SenderTypeOK, InFlight, SeqNums
  <2>3. PICK out \in SUBSET Packets(Blocks) : SenderSends(out)
    BY <1>9, <2>2 DEF MainRound
  <2>4. toReceiver' \subseteq Packets(Blocks) /\ toSender' \subseteq Packets(Blocks)
    BY <1>0, <2>3, SenderChannels
  <2> QED BY <1>0, <1>9, <2>4 DEF MainRound, SenderTypeOK, SenderPlaces
<1>10. CASE FillFull
  BY <1>0, <1>10 DEF FillFull, channels, SenderTypeOK, SenderPlaces
<1>11. CASE FillEof
  BY <1>0, <1>11 DEF FillEof, channels, SenderTypeOK, SenderPlaces
<1>12. CASE FillSend
  <2>1. NextSlot \in Slots
    BY <1>0, SlotType, MaskCases, SeqNumAssumption
    DEF NextSlot, SenderTypeOK, InFlight, SeqNums
  <2>2. /\ packets' \in [Slots -> Packets(Blocks)] /\ used' \in [Slots -> BOOLEAN]
        /\ pos' \in Blocks /\ unackedCnt' \in 0 .. 255
    <3>1. CASE used[NextSlot]
      BY <1>0, <1>12, <3>1 DEF FillSend, SenderTypeOK
    <3>2. CASE ~used[NextSlot]
      <4>1. pos + 1 \in Blocks
        BY <1>0, <1>12, <3>2, WireAssumption DEF FillSend, SenderTypeOK, Blocks
      <4>2. DataPkt(nextseqnum, pos + 1) \in Packets(Blocks)
        BY <1>0, <4>1, PacketTypes DEF SenderTypeOK
      <4>3. packets' \in [Slots -> Packets(Blocks)] /\ used' \in [Slots -> BOOLEAN]
        BY <1>0, <1>12, <3>2, <4>2 DEF FillSend, SenderTypeOK
      <4>4. unackedCnt' \in 0 .. 255
        BY <1>0, <1>12, <3>2 DEF FillSend, SenderTypeOK, uint8
      <4> QED BY <1>12, <3>2, <4>1, <4>3, <4>4 DEF FillSend
    <3> QED BY <3>1, <3>2
  <2>3. {packets'[NextSlot]} \subseteq Packets(Blocks)
    BY <2>1, <2>2
  <2>4. toReceiver' \subseteq Packets(Blocks) /\ toSender' \subseteq Packets(Blocks)
    BY <1>0, <1>12, <2>3, SenderChannels DEF FillSend
  <2>5. nextseqnum' \in SeqNums
    BY <1>0, <1>12, NextType DEF FillSend, SenderTypeOK
  <2> QED BY <1>0, <1>12, <2>2, <2>4, <2>5 DEF FillSend, SenderTypeOK, SenderPlaces
<1>13. CASE RecvTimeout
  BY <1>0, <1>13, WireAssumption
  DEF RecvTimeout, TimerExpires, Bump, channels, SenderTypeOK, SenderPlaces
<1>14. CASE FinTimeout
  BY <1>0, <1>3, <1>14, SenderChannels, WireAssumption
  DEF FinTimeout, AttemptFailed, SenderTypeOK, SenderPlaces, AttemptsLeft
<1>15. CASE SenderReceive
  <2> PICK m \in toSender, intact \in Intact :
        \/ SynReceive(m, intact) \/ ConfirmReceive(m, intact)
        \/ RecvSkip(m, intact) \/ RecvStale(m, intact)
        \/ RecvCumulative(m, intact) \/ RecvSelective(m, intact)
        \/ FinReceive(m, intact)
    BY <1>15 DEF SenderReceive
  <2>0. m \in Packets(Blocks) /\ m.seq \in SeqNums /\ {} \subseteq Packets(Blocks)
    BY <1>0 DEF Packets
  <2>1. CASE SynReceive(m, intact)
    <3>1. PICK out \in SUBSET Packets(Blocks) : SenderExchange(m, out)
      BY <1>3, <2>1 DEF SynReceive
    <3>2. toReceiver' \subseteq Packets(Blocks) /\ toSender' \subseteq Packets(Blocks)
      BY <1>0, <3>1, SenderChannels
    <3>3. /\ s_pc' \in {"confirm", "synWait", "failed"}
          /\ retry' \in 0 .. MAX_RETRY
          /\ s_pc' = "synWait" => retry' < MAX_RETRY
      BY <1>0, <2>1, WireAssumption
      DEF SynReceive, AttemptFailed, SenderTypeOK, AttemptsLeft
    <3> QED BY <1>0, <2>1, <3>2, <3>3 DEF SynReceive, SenderTypeOK, SenderPlaces
  <2>2. CASE ConfirmReceive(m, intact)
    <3>1. PICK out \in SUBSET Packets(Blocks) : SenderExchange(m, out)
      BY <1>3, <2>2 DEF ConfirmReceive
    <3>2. toReceiver' \subseteq Packets(Blocks) /\ toSender' \subseteq Packets(Blocks)
      BY <1>0, <3>1, SenderChannels
    <3> QED BY <1>0, <2>2, <3>2 DEF ConfirmReceive, SenderTypeOK, SenderPlaces
  <2>3. CASE RecvSkip(m, intact)
    <3>1. SenderExchange(m, {}) /\ UNCHANGED senderVars
      BY <2>3 DEF RecvSkip
    <3>2. toReceiver' \subseteq Packets(Blocks) /\ toSender' \subseteq Packets(Blocks)
      BY <1>0, <3>1 DEF SenderExchange, Taken
    <3>3. SenderTypeOK' /\ UNCHANGED <<s_pc, retry>>
      BY <1>0, <3>1 DEF senderVars, SenderTypeOK
    <3> QED BY <1>0, <3>2, <3>3 DEF AttemptsLeft
  <2>4. \A stopped, count : /\ TimerCheck(stopped, count)
                            /\ count \in 0 .. MAX_RETRY + 1
                            /\ s_pc = "recv"
          => /\ s_pc' \in {"main", "recv"}
             /\ isTimeout' \in BOOLEAN /\ retransmit_count' \in 0 .. MAX_RETRY + 1
    <3> SUFFICES ASSUME NEW stopped, NEW count, TimerCheck(stopped, count),
                        count \in 0 .. MAX_RETRY + 1, s_pc = "recv"
                 PROVE  /\ s_pc' \in {"main", "recv"} /\ isTimeout' \in BOOLEAN
                        /\ retransmit_count' \in 0 .. MAX_RETRY + 1
      OBVIOUS
    <3>1. isTimeout \in BOOLEAN /\ Bump(count) \in 0 .. MAX_RETRY + 1
      BY <1>0, WireAssumption DEF SenderTypeOK, Bump
    <3>2. CASE TimerExpires(count)
      BY <3>1, <3>2 DEF TimerExpires
    <3>3. CASE ~TimerExpires(count)
      BY <3>1, <3>3 DEF TimerCheck
    <3> QED BY <3>2, <3>3
  <2>9. SenderExchange(m, {}) =>
            toReceiver' \subseteq Packets(Blocks) /\ toSender' \subseteq Packets(Blocks)
    BY <1>0 DEF SenderExchange, Taken
  <2>5. CASE RecvStale(m, intact)
    <3>1. /\ s_pc' \in {"main", "recv"}
          /\ isTimeout' \in BOOLEAN /\ retransmit_count' \in 0 .. MAX_RETRY + 1
      BY <1>0, <2>4, <2>5 DEF RecvStale, RecvAck, SenderTypeOK
    <3> QED BY <1>0, <2>5, <2>9, <3>1
            DEF RecvStale, RecvAck, SenderTypeOK, SenderPlaces
  <2>6. CASE RecvCumulative(m, intact)
    <3> DEFINE offset == Mask(m.seq - base_seq)
               count == IF offset > 0 THEN 0 ELSE retransmit_count
    <3>0. /\ head' = Slot(head, offset) /\ unackedCnt' = uint8(unackedCnt - offset)
          /\ base_seq' = m.seq
      BY <2>6 DEF RecvCumulative
    <3>6. offset \in Int
      BY <1>0, <2>0, MaskCases, SeqNumAssumption DEF SenderTypeOK, SeqNums
    <3>1. head' \in Slots
      BY <1>0, <3>0, <3>6, SlotType DEF SenderTypeOK
    <3>2. unackedCnt' \in 0 .. 255
      <4> HIDE DEF offset
      <4> QED BY <1>0, <3>0, <3>6 DEF SenderTypeOK, uint8
    <3>3. used' \in [Slots -> BOOLEAN]
      BY <1>0, <2>6 DEF RecvCumulative, SenderTypeOK
    <3>4. count \in 0 .. MAX_RETRY + 1 /\ Bump(count) \in 0 .. MAX_RETRY + 1
      BY <1>0, WireAssumption DEF SenderTypeOK, Bump
    <3>5. /\ s_pc' \in {"main", "recv"}
          /\ isTimeout' \in BOOLEAN /\ retransmit_count' \in 0 .. MAX_RETRY + 1
      BY <2>4, <2>6, <3>4 DEF RecvCumulative, RecvAck
    <3> QED BY <1>0, <2>0, <2>6, <2>9, <3>0, <3>1, <3>2, <3>3, <3>5
            DEF RecvCumulative, RecvAck, SenderTypeOK, SenderPlaces
  <2>7. CASE RecvSelective(m, intact)
    <3> DEFINE now == [acked EXCEPT ![AckedSlot(m.seq)] = TRUE]
               run == Run(now, head)
    <3>1. run \in 0 .. W
      BY RunType
    <3>2. head' \in Slots /\ base_seq' \in SeqNums
      BY <1>0, <2>7, <3>1, WType, SlotType, MaskCases, SeqNumAssumption
      DEF RecvSelective, SenderTypeOK, SeqNums
    <3>3. unackedCnt' \in 0 .. 255
      BY <1>0, <2>7 DEF RecvSelective, SenderTypeOK, uint8
    <3>4. used' \in [Slots -> BOOLEAN] /\ acked' \in [Slots -> BOOLEAN]
      BY <1>0, <2>7 DEF RecvSelective, SenderTypeOK
    <3>5. /\ s_pc' \in {"main", "recv"}
          /\ isTimeout' \in BOOLEAN /\ retransmit_count' \in 0 .. MAX_RETRY + 1
      BY <1>0, <2>4, <2>7, WireAssumption DEF RecvSelective, RecvAck, SenderTypeOK
    <3> QED BY <1>0, <2>7, <2>9, <3>2, <3>3, <3>4, <3>5
            DEF RecvSelective, RecvAck, SenderTypeOK, SenderPlaces
  <2>8. CASE FinReceive(m, intact)
    <3>1. PICK out \in SUBSET Packets(Blocks) : SenderExchange(m, out)
      BY <1>3, <2>0, <2>8 DEF FinReceive
    <3>2. toReceiver' \subseteq Packets(Blocks) /\ toSender' \subseteq Packets(Blocks)
      BY <1>0, <3>1, SenderChannels
    <3>3. /\ s_pc' \in {"done", "fin", "failed"}
          /\ retry' \in 0 .. MAX_RETRY
          /\ s_pc' = "fin" => retry' < MAX_RETRY
      BY <1>0, <2>8, WireAssumption
      DEF FinReceive, AttemptFailed, SenderTypeOK, AttemptsLeft
    <3> QED BY <1>0, <2>8, <3>2, <3>3 DEF FinReceive, SenderTypeOK, SenderPlaces
  <2> QED BY <2>1, <2>2, <2>3, <2>5, <2>6, <2>7, <2>8
<1> QED BY <1>4, <1>5, <1>6, <1>7, <1>8, <1>9, <1>10, <1>11, <1>12, <1>13, <1>14,
           <1>15 DEF SenderStep, SenderNext
-----------------------------------------------------------------------------
LEMMA TypeReceiverStep ==
    ASSUME TypeInv, ReceiverStep
    PROVE  TypeInv'
<1> USE DEF buffers
<1>0. /\ TypeOK /\ SenderTypeOK /\ ReceiverTypeOK /\ AttemptsLeft
      /\ toReceiver \subseteq Packets(Blocks) /\ toSender \subseteq Packets(Blocks)
  BY DEF TypeInv, TypeOK
<1>1. SenderTypeOK' /\ UNCHANGED <<s_pc, retry>>
  BY <1>0 DEF ReceiverStep, senderVars, SenderTypeOK
<1>2. SUFFICES /\ toReceiver' \subseteq Packets(Blocks)
               /\ toSender' \subseteq Packets(Blocks)
               /\ ReceiverTypeOK'
               /\ r_pc' \in {"listen", "ackWait"} => r_retry' < MAX_RETRY
  BY <1>0, <1>1 DEF TypeInv, TypeOK, AttemptsLeft
<1>3. CASE ListenTimeout
  BY <1>0, <1>3 DEF ListenTimeout, channels, ReceiverTypeOK, ReceiverPlaces
<1>4. WaitAgain /\ r_pc = "ackWait" =>
        /\ r_retry' \in 0 .. MAX_RETRY
        /\ r_pc' \in {"ackWait", "failed"}
        /\ r_pc' = "ackWait" => r_retry' < MAX_RETRY
  BY <1>0, WireAssumption DEF WaitAgain, ReceiverTypeOK, AttemptsLeft
<1>5. CASE AckWaitTimeout
  <2>1. PICK out \in SUBSET Packets(Blocks) : ReceiverSends(out)
    BY <1>0, <1>5, PacketTypes DEF AckWaitTimeout, ReceiverTypeOK
  <2>2. toReceiver' \subseteq Packets(Blocks) /\ toSender' \subseteq Packets(Blocks)
    BY <1>0, <2>1, ReceiverChannels
  <2> QED BY <1>0, <1>4, <1>5, <2>2 DEF AckWaitTimeout, ReceiverTypeOK, ReceiverPlaces
<1>6. CASE FinWaitTimeout
  BY <1>0, <1>6 DEF FinWaitTimeout, channels, ReceiverTypeOK, ReceiverPlaces
<1>7. CASE ReceiverReceive
  <2> PICK m \in toReceiver, intact \in Intact :
        \/ ListenReceive(m, intact) \/ AckWaitReceive(m, intact)
        \/ DataDrop(m, intact) \/ DataFin(m, intact)
        \/ DataInOrder(m, intact) \/ DataOutOfOrder(m, intact)
        \/ DataBuffer(m, intact) \/ DataAllocFails(m, intact)
        \/ DataReack(m, intact) \/ FinWaitReceive(m, intact)
    BY <1>7 DEF ReceiverReceive
  <2>0. /\ m \in Packets(Blocks) /\ m.seq \in SeqNums /\ m.block \in Blocks
        /\ {} \subseteq Packets(Blocks)
    BY <1>0 DEF Packets
  <2>1. SUFFICES /\ \E out \in SUBSET Packets(Blocks) : ReceiverExchange(m, out)
                 /\ ReceiverTypeOK'
                 /\ r_pc' \in {"listen", "ackWait"} => r_retry' < MAX_RETRY
    BY <1>0, ReceiverChannels
  <2>2. CASE ListenReceive(m, intact)
    <3>1. /\ seqnum_next(m.seq) \in SeqNums
          /\ SynAckPkt(seqnum_next(m.seq)) \in Packets(Blocks)
      BY <2>0, NextType, PacketTypes
    <3>2. \E out \in SUBSET Packets(Blocks) : ReceiverExchange(m, out)
      BY <2>0, <2>2, <3>1 DEF ListenReceive
    <3> QED BY <1>0, <2>2, <3>1, <3>2
            DEF ListenReceive, ReceiverTypeOK, ReceiverPlaces, AttemptsLeft
  <2>3. CASE AckWaitReceive(m, intact)
    <3>1. \E out \in SUBSET Packets(Blocks) : ReceiverExchange(m, out)
      BY <2>0, <2>3 DEF AckWaitReceive
    <3> QED BY <1>0, <1>4, <2>0, <2>3, <3>1
            DEF AckWaitReceive, ReceiverTypeOK, ReceiverPlaces
  <2>4. CASE DataDrop(m, intact)
    BY <1>0, <2>0, <2>4 DEF DataDrop, receiverVars, ReceiverTypeOK
  <2>5. CASE DataFin(m, intact)
    <3>1. FinAckPkt(m.seq) \in Packets(Blocks)
      BY <2>0, PacketTypes
    <3> QED BY <1>0, <2>0, <2>5, <3>1 DEF DataFin, ReceiverTypeOK, ReceiverPlaces
  <2>6. CASE DataInOrder(m, intact)
    <3>1. expected' \in SeqNums /\ file' \in Seq(Blocks)
      BY <1>0, <2>0, <2>6, NextType DEF DataInOrder, ReceiverTypeOK
    <3>2. AckPkt(expected') \in Packets(Blocks)
      BY <3>1, PacketTypes
    <3> QED BY <1>0, <2>6, <3>1, <3>2 DEF DataInOrder, DataPacket, ReceiverTypeOK
  <2>7. CASE DataOutOfOrder(m, intact)
    <3>1. AckPkt(expected) \in Packets(Blocks)
      BY <1>0, PacketTypes DEF ReceiverTypeOK
    <3> QED BY <1>0, <2>7, <3>1 DEF DataOutOfOrder, DataPacket, ReceiverTypeOK
  <2>8. AckPkt(m.seq) \in Packets(Blocks)
    BY <2>0, PacketTypes
  <2>9. CASE DataBuffer(m, intact)
    <3> DEFINE slot == BufferSlot(m.seq)
               filled == [received EXCEPT ![slot] = TRUE]
               buf == [payload_buf EXCEPT ![slot] = IF received[slot] THEN @ ELSE m.block]
               run == Run(filled, r_head)
               freed == Leading(r_head, run)
    <3>1. /\ ReceiverExchange(m, {AckPkt(m.seq)})
          /\ file' = file \o [k \in 1 .. run |-> buf[Slot(r_head, k - 1)]]
          /\ received' = [i \in Slots |-> filled[i] /\ i \notin freed]
          /\ payload_buf' = [i \in Slots |-> IF i \in freed THEN NoPayload ELSE buf[i]]
          /\ r_head' = Slot(r_head, run)
          /\ expected' = Mask(expected + run)
          /\ UNCHANGED <<r_pc, r_retry, reply_seq>>
      BY <2>9 DEF DataBuffer, DataPacket
    <3>2. run \in 0 .. W
      BY RunType
    <3>3. slot \in Slots
      <4>1. m.seq - expected \in Int
        BY <1>0, <2>0, SeqNumAssumption DEF ReceiverTypeOK, SeqNums
      <4>2. Mask(m.seq - expected) \in Int /\ r_head \in Slots
        BY <1>0, <4>1, MaskCases, SeqNumAssumption DEF ReceiverTypeOK, SeqNums
      <4> QED BY <4>2, SlotType DEF BufferSlot
    <3>4. buf \in [Slots -> Blocks] /\ filled \in [Slots -> BOOLEAN]
      <4> HIDE DEF slot
      <4> QED BY <1>0, <2>0, <3>3 DEF ReceiverTypeOK
    <3> HIDE DEF slot, filled, buf, run
    <3>5. r_head' \in Slots /\ expected' \in SeqNums
      <4>1. run \in Int /\ r_head \in Slots /\ expected \in SeqNums
        BY <1>0, <3>2, WType DEF ReceiverTypeOK
      <4>2. expected + run \in Int
        BY <4>1, SeqNumAssumption DEF SeqNums
      <4> QED BY <3>1, <4>1, <4>2, SlotType, MaskCases
    <3>6. received' \in [Slots -> BOOLEAN]
      BY <3>1, <3>4
    <3>7. payload_buf' \in [Slots -> Blocks]
      <4>1. NoPayload \in Blocks
        BY WireAssumption DEF NoPayload, Blocks
      <4> QED BY <3>1, <3>4, <4>1
    <3>8. file' \in Seq(Blocks)
      <4> DEFINE written == [k \in 1 .. run |-> buf[Slot(r_head, k - 1)]]
      <4>1. \A k \in 1 .. run : buf[Slot(r_head, k - 1)] \in Blocks
        BY <1>0, <3>2, <3>4, SlotType, WType DEF ReceiverTypeOK
      <4>2. run \in Nat
        BY <3>2, WType
      <4>3. written \in Seq(Blocks)
        BY <4>1, <4>2
      <4> HIDE DEF written
      <4>4. file' = file \o written
        BY <3>1 DEF written
      <4> QED BY <1>0, <4>3, <4>4 DEF ReceiverTypeOK
    <3> QED BY <1>0, <2>8, <2>9, <3>1, <3>5, <3>6, <3>7, <3>8
            DEF DataBuffer, DataPacket, ReceiverTypeOK
  <2>10. CASE DataAllocFails(m, intact)
    BY <1>0, <2>8, <2>10 DEF DataAllocFails, DataPacket, ReceiverTypeOK
  <2>11. CASE DataReack(m, intact)
    <3>1. \E out \in SUBSET Packets(Blocks) : ReceiverExchange(m, out)
      BY <2>0, <2>8, <2>11 DEF DataReack
    <3> QED BY <1>0, <2>11, <3>1 DEF DataReack, DataPacket, ReceiverTypeOK
  <2>12. CASE FinWaitReceive(m, intact)
    <3>1. FinAckPkt(reply_seq) \in Packets(Blocks)
      BY <1>0, PacketTypes DEF ReceiverTypeOK
    <3>2. \E out \in SUBSET Packets(Blocks) : ReceiverExchange(m, out)
      BY <2>0, <2>12, <3>1 DEF FinWaitReceive
    <3> QED BY <1>0, <2>12, <3>2 DEF FinWaitReceive, receiverVars, ReceiverTypeOK
  <2> QED BY <2>2, <2>3, <2>4, <2>5, <2>6, <2>7, <2>9, <2>10, <2>11, <2>12
<1> QED BY <1>3, <1>5, <1>6, <1>7 DEF ReceiverStep, ReceiverNext

LEMMA TypeStutter == TypeInv /\ UNCHANGED vars => TypeInv'
BY DEF TypeInv, TypeOK, AttemptsLeft, SenderTypeOK, ReceiverTypeOK, vars, channels,
       senderVars, receiverVars

(* In every state both programs reach, whatever the path does to their     *)
(* packets, each variable has the type of the C variable it stands for,    *)
(* the ring heads stay inside the rings and no retry loop runs past        *)
(* MAX_RETRY.                                                              *)
THEOREM TypeCorrect == Spec => []TypeOK
<1>1. Init => TypeInv
  BY TypeInit
<1>2. TypeInv /\ [Next]_vars => TypeInv'
  BY TypeSenderStep, TypeReceiverStep, TypeStutter DEF Next
<1>3. TypeInv => TypeOK
  BY DEF TypeInv
<1> QED BY <1>1, <1>2, <1>3, PTL DEF Spec
-----------------------------------------------------------------------------
(* While the sender waits for its SYN-ACK nothing else has happened: only  *)
(* SYNs and their answers are under way, and the receiver has not got      *)
(* beyond the handshake.                                                   *)
HandshakeInv ==
    /\ syn_seq \in InitialSeqs
    /\ s_pc \in {"start", "synWait"} =>
          /\ toReceiver \subseteq {SynPkt(syn_seq)}
          /\ toSender \subseteq {SynAckPkt(seqnum_next(syn_seq))}
          /\ r_pc \in {"listen", "ackWait", "failed"}
          /\ r_pc = "ackWait" => reply_seq = seqnum_next(syn_seq)

LEMMA HandshakeSenderStep ==
    ASSUME HandshakeInv, SenderStep
    PROVE  HandshakeInv'
<1>1. UNCHANGED <<syn_seq, r_pc, reply_seq>>
  <2>1. UNCHANGED <<r_pc, reply_seq>>
    BY DEF SenderStep, receiverVars
  <2>2. CASE SenderNext /\ ~SenderReceive
    <3>1. syn_seq' = syn_seq
      BY <2>2
      DEF SenderNext, SenderStart, SynTimeout, ConfirmTimeout, MainExit, MainAbort,
          MainRound, FillFull, FillEof, FillSend, RecvTimeout, FinTimeout
    <3> QED BY <2>1, <3>1
  <2>3. CASE SenderReceive
    BY <2>1, <2>3
    DEF SenderReceive, SynReceive, ConfirmReceive, RecvSkip, RecvStale, RecvAck,
        RecvCumulative, RecvSelective, FinReceive, senderVars
  <2> QED BY <2>1, <2>2, <2>3 DEF SenderStep
<1>2. SUFFICES ASSUME s_pc' \in {"start", "synWait"}
               PROVE  /\ s_pc \in {"start", "synWait"}
                      /\ toReceiver' \subseteq toReceiver \union {SynPkt(syn_seq)}
                      /\ toSender' \subseteq toSender
  BY <1>1, <1>2 DEF HandshakeInv
<1>3. CASE SenderNext /\ ~SenderReceive
  BY <1>2, <1>3
  DEF SenderNext, SenderStart, SynTimeout, ConfirmTimeout, MainExit, MainAbort,
      MainRound, FillFull, FillEof, FillSend, RecvTimeout, FinTimeout,
      AttemptFailed, TimerExpires, SenderSends, Resent
<1>4. CASE SenderReceive
  <2> PICK m \in toSender, intact \in Intact :
        \/ SynReceive(m, intact) \/ ConfirmReceive(m, intact)
        \/ RecvSkip(m, intact) \/ RecvStale(m, intact)
        \/ RecvCumulative(m, intact) \/ RecvSelective(m, intact)
        \/ FinReceive(m, intact)
    BY <1>4 DEF SenderReceive
  <2>1. CASE SynReceive(m, intact)
    BY <1>2, <2>1 DEF SynReceive, SenderExchange, Taken, AttemptFailed, Resent
  <2>2. CASE ConfirmReceive(m, intact) \/ FinReceive(m, intact)
    BY <1>2, <2>2 DEF ConfirmReceive, FinReceive, AttemptFailed
  <2>3. CASE RecvSkip(m, intact) \/ RecvStale(m, intact)
    BY <1>2, <2>3 DEF RecvSkip, RecvStale, RecvAck, TimerCheck, TimerExpires, senderVars
  <2>4. CASE RecvCumulative(m, intact) \/ RecvSelective(m, intact)
    BY <1>2, <2>4 DEF RecvCumulative, RecvSelective, RecvAck, TimerCheck, TimerExpires
  <2> QED BY <2>1, <2>2, <2>3, <2>4
<1> QED BY <1>3, <1>4 DEF SenderStep

LEMMA HandshakeReceiverStep ==
    ASSUME HandshakeInv, ReceiverStep
    PROVE  HandshakeInv'
<1>1. UNCHANGED <<s_pc, syn_seq>>
  BY DEF ReceiverStep, senderVars
<1>2. SUFFICES ASSUME s_pc \in {"start", "synWait"}
               PROVE  /\ toReceiver' \subseteq toReceiver
                      /\ toSender' \subseteq {SynAckPkt(seqnum_next(syn_seq))}
                      /\ r_pc' \in {"listen", "ackWait", "failed"}
                      /\ r_pc' = "ackWait" => reply_seq' = seqnum_next(syn_seq)
  BY <1>1, <1>2 DEF HandshakeInv
<1>3. /\ toSender \subseteq {SynAckPkt(seqnum_next(syn_seq))}
      /\ r_pc \in {"listen", "ackWait", "failed"}
      /\ r_pc = "ackWait" => reply_seq = seqnum_next(syn_seq)
      /\ \A m \in toReceiver : m.flags = {"SYN"} /\ m.seq = syn_seq
  BY <1>2 DEF HandshakeInv, SynPkt, Header
<1>4. CASE ListenTimeout \/ AckWaitTimeout \/ FinWaitTimeout
  BY <1>3, <1>4
  DEF ListenTimeout, AckWaitTimeout, FinWaitTimeout, ReceiverSends, WaitAgain,
      buffers, channels
<1>5. CASE ReceiverReceive
  <2> PICK m \in toReceiver, intact \in Intact :
        \/ ListenReceive(m, intact) \/ AckWaitReceive(m, intact)
        \/ DataDrop(m, intact) \/ DataFin(m, intact)
        \/ DataInOrder(m, intact) \/ DataOutOfOrder(m, intact)
        \/ DataBuffer(m, intact) \/ DataAllocFails(m, intact)
        \/ DataReack(m, intact) \/ FinWaitReceive(m, intact)
    BY <1>5 DEF ReceiverReceive
  <2>1. CASE ListenReceive(m, intact)
    BY <1>3, <2>1 DEF ListenReceive, ReceiverExchange, Taken
  <2>2. CASE AckWaitReceive(m, intact)
    BY <1>3, <2>2 DEF AckWaitReceive, ReceiverExchange, Taken, WaitAgain
  <2>3. CASE ~ListenReceive(m, intact) /\ ~AckWaitReceive(m, intact)
    BY <1>3, <2>3
    DEF DataDrop, DataFin, DataPacket, DataInOrder, DataOutOfOrder, DataBuffer,
        DataAllocFails, DataReack, FinWaitReceive
  <2> QED BY <2>1, <2>2, <2>3
<1> QED BY <1>4, <1>5 DEF ReceiverStep, ReceiverNext

(* A sender that waits for its SYN-ACK accepts every one that arrives,     *)
(* although it compares the number with syn_seq + 1 and not with its       *)
(* successor on the circle, unless it began with the highest number.       *)
THEOREM SynAckAccepted ==
    ASSUME SEQNUM_MAX - 1 \notin InitialSeqs
    PROVE  Spec => []SynAckConnects
<1>1. Init => HandshakeInv
  BY DEF Init, HandshakeInv, SenderInit, SenderAt, ReceiverInit, ReceiverAt
<1>2. HandshakeInv /\ [Next]_vars => HandshakeInv'
  <2>1. HandshakeInv /\ UNCHANGED vars => HandshakeInv'
    BY DEF HandshakeInv, vars, channels, senderVars, receiverVars
  <2> QED BY <2>1, HandshakeSenderStep, HandshakeReceiverStep DEF Next
<1>3. HandshakeInv => SynAckConnects
  <2> SUFFICES ASSUME HandshakeInv, s_pc = "synWait", NEW m \in toSender
               PROVE  IsSynAck(m, TRUE)
    BY DEF SynAckConnects
  <2>1. syn_seq \in SeqNums /\ syn_seq # SEQNUM_MAX - 1
    BY SenderAssumption DEF HandshakeInv
  <2>2. seqnum_next(syn_seq) = syn_seq + 1
    BY <2>1, MaskCases, SeqNumAssumption DEF seqnum_next, SeqNums
  <2>3. m = SynAckPkt(seqnum_next(syn_seq))
    BY DEF HandshakeInv
  <2> QED BY <2>2, <2>3 DEF IsSynAck, SynAckPkt, Header
<1> QED BY <1>1, <1>2, <1>3, PTL DEF Spec
-----------------------------------------------------------------------------
(* The numbers of the blocks, with the mask worked out.                    *)
LEMMA NumForm ==
    ASSUME TypeOK
    PROVE  /\ FirstSeq \in SeqNums
           /\ \A c \in 1 .. SEQNUM_MAX :
                 Num(c) = IF FirstSeq + c - 1 < SEQNUM_MAX
                          THEN FirstSeq + c - 1 ELSE FirstSeq + c - 1 - SEQNUM_MAX
<1>1. FirstSeq \in SeqNums
  BY NextType DEF TypeOK, SenderTypeOK, FirstSeq
<1>2. \A c \in 1 .. SEQNUM_MAX :
         Num(c) = IF FirstSeq + c - 1 < SEQNUM_MAX
                  THEN FirstSeq + c - 1 ELSE FirstSeq + c - 1 - SEQNUM_MAX
  BY <1>1, MaskCases, SeqNumAssumption DEF Num, SeqNums
<1> QED BY <1>1, <1>2

LEMMA NumType ==
    ASSUME TypeOK
    PROVE  \A c \in 1 .. SEQNUM_MAX : Num(c) \in SeqNums
BY NumForm, SeqNumAssumption DEF SeqNums

LEMMA NumNext ==
    ASSUME TypeOK
    PROVE  /\ Num(1) = FirstSeq
           /\ \A c \in 1 .. SEQNUM_MAX - 1 : seqnum_next(Num(c)) = Num(c + 1)
<1>1. Num(1) = FirstSeq
  BY NumForm, SeqNumAssumption DEF SeqNums
<1>2. ASSUME NEW c \in 1 .. SEQNUM_MAX - 1
      PROVE  seqnum_next(Num(c)) = Num(c + 1)
  BY NumForm, MaskCases, SeqNumAssumption DEF seqnum_next, SeqNums
<1> QED BY <1>1, <1>2

(* No two blocks of a file have the same number.                           *)
LEMMA NumInjective ==
    ASSUME TypeOK
    PROVE  \A c, d \in 1 .. SEQNUM_MAX : Num(c) = Num(d) => c = d
BY NumForm, SeqNumAssumption DEF SeqNums
-----------------------------------------------------------------------------
(* Slots by their distance from the head of a ring.                        *)
LEMMA SlotForm ==
    \A h \in Slots, k \in 0 .. W :
        Slot(h, k) = IF h + k < W THEN h + k ELSE h + k - W
BY WType DEF Slot, Slots

LEMMA DistType == \A h, i \in Slots : Dist(h, i) \in Slots
BY WType DEF Dist, Slots

LEMMA DistOfSlot ==
    /\ \A h, k \in Slots : Dist(h, Slot(h, k)) = k
    /\ \A h, i \in Slots : Slot(h, Dist(h, i)) = i
<1>1. \A h, k \in Slots : Dist(h, Slot(h, k)) = k
  BY SlotForm, WType DEF Dist, Slots
<1>2. \A h, i \in Slots : Slot(h, Dist(h, i)) = i
  BY SlotForm, WType DEF Dist, Slots
<1> QED BY <1>1, <1>2

LEMMA DistOfMoved ==
    \A h, i \in Slots, n \in 0 .. W :
        Dist(Slot(h, n), i) = IF Dist(h, i) >= n THEN Dist(h, i) - n
                                                 ELSE Dist(h, i) - n + W
BY SlotForm, WType DEF Dist, Slots

LEMMA LeadingByDist ==
    \A h \in Slots, n \in 0 .. W :
        Leading(h, n) = {i \in Slots : Dist(h, i) < n}
<1> SUFFICES ASSUME NEW h \in Slots, NEW n \in 0 .. W
             PROVE  Leading(h, n) = {i \in Slots : Dist(h, i) < n}
  OBVIOUS
<1>1. ASSUME NEW k \in 0 .. n - 1
      PROVE  Slot(h, k) \in Slots /\ Dist(h, Slot(h, k)) < n
  <2>1. k \in Slots /\ k < n /\ k \in Int
    BY WType DEF Slots
  <2> QED BY <2>1, SlotType, DistOfSlot
<1>2. ASSUME NEW i \in Slots, Dist(h, i) < n
      PROVE  i \in Leading(h, n)
  <2>1. Dist(h, i) \in 0 .. n - 1 /\ Slot(h, Dist(h, i)) = i
    BY <1>2, DistType, DistOfSlot, WType DEF Slots
  <2> QED BY <2>1 DEF Leading
<1> QED BY <1>1, <1>2 DEF Leading

LEMMA NumKept == syn_seq' = syn_seq => FirstSeq' = FirstSeq /\ \A c : Num(c)' = Num(c)
BY DEF Num, FirstSeq
-----------------------------------------------------------------------------
(* Rtp in the terms of ReliableTransfer.                                   *)
LEMMA StatusCases ==
    /\ s_pc = "done" => SenderStatus = "succeeded"
    /\ s_pc = "failed" => SenderStatus = "failed"
    /\ s_pc \notin {"done", "failed"} => SenderStatus = "running"
    /\ r_pc \in {"finWait", "done"} => ReceiverStatus = "closed"
    /\ r_pc = "failed" => ReceiverStatus = "failed"
    /\ r_pc \notin {"finWait", "done", "failed"} => ReceiverStatus = "running"
BY DEF SenderStatus, ReceiverStatus

LEMMA StatusCasesNext ==
    /\ s_pc' = "done" => SenderStatus' = "succeeded"
    /\ s_pc' = "failed" => SenderStatus' = "failed"
    /\ s_pc' \notin {"done", "failed"} => SenderStatus' = "running"
    /\ r_pc' \in {"finWait", "done"} => ReceiverStatus' = "closed"
    /\ r_pc' = "failed" => ReceiverStatus' = "failed"
    /\ r_pc' \notin {"finWait", "done", "failed"} => ReceiverStatus' = "running"
BY DEF SenderStatus, ReceiverStatus

(* A prefix of the input file, in the terms of ReliableTransfer.           *)
LEMMA PrefixIsSource ==
    ASSUME NEW f \in Seq(Blocks), Len(f) =< FileLen,
           \A i \in 1 .. Len(f) : f[i] = i
    PROVE  f = SubSeq(Transfer!Source, 1, Len(f))
<1>1. Len(f) \in 0 .. FileLen /\ FileLen \in Nat
  BY WireAssumption
<1>2. Transfer!Source \in Seq(Nat) /\ Len(Transfer!Source) = FileLen
  BY <1>1 DEF Transfer!Source
<1>3. /\ SubSeq(Transfer!Source, 1, Len(f)) \in Seq(Nat)
      /\ Len(SubSeq(Transfer!Source, 1, Len(f))) = Len(f)
      /\ \A i \in 1 .. Len(f) : SubSeq(Transfer!Source, 1, Len(f))[i] = f[i]
  BY <1>1, <1>2 DEF Transfer!Source
<1> QED BY <1>1, <1>3

LEMMA WholeIsSource ==
    ASSUME NEW f \in Seq(Blocks), Len(f) = FileLen,
           \A i \in 1 .. Len(f) : f[i] = i
    PROVE  f = Transfer!Source
<1>1. Transfer!Source \in Seq(Nat) /\ Len(Transfer!Source) = FileLen
  BY WireAssumption DEF Transfer!Source
<1>2. \A i \in 1 .. Len(f) : f[i] = Transfer!Source[i]
  BY DEF Transfer!Source
<1> QED BY <1>1, <1>2

(* A step of the sender, as ReliableTransfer sees it: it reports success   *)
(* only on a FIN of the receiver, so only after the receiver has closed.   *)
LEMMA TransferSenderStep ==
    ASSUME SenderStep,
           \A m \in toSender : "FIN" \in m.flags => r_pc \in {"finWait", "done"}
    PROVE  \/ Transfer!SenderSucceeds \/ Transfer!SenderFails
           \/ UNCHANGED Transfer!transferVars
<1>1. UNCHANGED <<file, ReceiverStatus>>
  BY DEF SenderStep, receiverVars, ReceiverStatus
<1>2. /\ s_pc \notin {"done", "failed"}
      /\ s_pc' = "done" => r_pc \in {"finWait", "done"}
  <2>1. CASE SenderNext /\ ~SenderReceive
    BY <2>1
    DEF SenderNext, SenderStart, SynTimeout, ConfirmTimeout, MainExit, MainAbort,
        MainRound, FillFull, FillEof, FillSend, RecvTimeout, FinTimeout,
        AttemptFailed, TimerExpires
  <2>2. CASE SenderReceive
    <3>1. PICK m \in toSender, intact \in Intact :
            \/ SynReceive(m, intact) \/ ConfirmReceive(m, intact)
            \/ RecvSkip(m, intact) \/ RecvStale(m, intact)
            \/ RecvCumulative(m, intact) \/ RecvSelective(m, intact)
            \/ FinReceive(m, intact)
      BY <2>2 DEF SenderReceive
    <3>2. CASE FinReceive(m, intact)
      BY <3>2 DEF FinReceive, AttemptFailed
    <3>3. CASE RecvCumulative(m, intact) \/ RecvSelective(m, intact)
      BY <3>3 DEF RecvCumulative, RecvSelective, RecvAck, TimerCheck, TimerExpires
    <3>4. CASE RecvStale(m, intact) \/ RecvSkip(m, intact)
      BY <3>4 DEF RecvStale, RecvSkip, RecvAck, TimerCheck, TimerExpires, senderVars
    <3>5. CASE SynReceive(m, intact) \/ ConfirmReceive(m, intact)
      BY <3>5 DEF SynReceive, ConfirmReceive, AttemptFailed
    <3> QED BY <3>1, <3>2, <3>3, <3>4, <3>5
  <2> QED BY <2>1, <2>2 DEF SenderStep
<1>3. SenderStatus = "running"
  BY <1>2, StatusCases
<1>4. CASE s_pc' = "done"
  BY <1>1, <1>2, <1>3, <1>4, StatusCases, StatusCasesNext DEF Transfer!SenderSucceeds
<1>5. CASE s_pc' = "failed"
  BY <1>1, <1>3, <1>5, StatusCasesNext DEF Transfer!SenderFails
<1>6. CASE s_pc' \notin {"done", "failed"}
  BY <1>1, <1>3, <1>6, StatusCasesNext DEF Transfer!transferVars
<1> QED BY <1>4, <1>5, <1>6
=============================================================================
