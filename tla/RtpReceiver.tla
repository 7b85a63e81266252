----------------------------- MODULE RtpReceiver -----------------------------
(***************************************************************************)
(* The receiver program (receiver.c).  As for the sender, r_pc says which  *)
(* recvfrom the single thread is at.  The timeout of the data loop's       *)
(* recvfrom only goes around that loop again and so is not an action.      *)
(***************************************************************************)
EXTENDS RtpWire, Sequences

CONSTANT AllocFails      \* whether malloc of a payload buffer may fail

ASSUME ReceiverAssumption == AllocFails \in BOOLEAN

VARIABLES r_pc, r_retry,
          reply_seq,     \* the number in the prepared SYN|ACK or FIN|ACK
          expected, r_head, received, payload_buf,
          file           \* the blocks written to the output file so far

receiverVars == <<r_pc, r_retry, reply_seq, expected, r_head, received,
                  payload_buf, file>>
buffers == <<expected, r_head, received, payload_buf, file>>

NoPayload == 0

ReceiverPlaces == {"listen", "ackWait", "data", "finWait", "done", "failed"}

(* The types of the receiver's variables, with the bound of its counter.   *)
ReceiverTypeOK ==
    /\ r_pc \in ReceiverPlaces
    /\ r_retry \in 0 .. MAX_RETRY
    /\ reply_seq \in SeqNums /\ expected \in SeqNums
    /\ r_head \in Slots
    /\ received \in [Slots -> BOOLEAN]
    /\ payload_buf \in [Slots -> Blocks]
    /\ file \in Seq(Blocks)

ReceiverAt(place, number) ==
    /\ r_pc = place
    /\ r_retry = 0
    /\ reply_seq = number
    /\ expected = number
    /\ r_head = 0
    /\ received = [i \in Slots |-> FALSE]
    /\ payload_buf = [i \in Slots |-> NoPayload]
    /\ file = <<>>

ReceiverInit == ReceiverAt("listen", 0)
-----------------------------------------------------------------------------
(* rtp_handshake_receiver: the one recvfrom that waits for the SYN         *)
ListenTimeout == /\ r_pc = "listen"
                 /\ r_pc' = "failed"
                 /\ UNCHANGED <<channels, r_retry, reply_seq, buffers>>

ListenReceive(m, intact) ==
    /\ r_pc = "listen"
    /\ IF m.flags = {"SYN"} /\ intact
       THEN /\ ReceiverExchange(m, {SynAckPkt(seqnum_next(m.seq))})
            /\ reply_seq' = seqnum_next(m.seq)
            /\ r_pc' = "ackWait"
       ELSE /\ ReceiverExchange(m, {})
            /\ r_pc' = "failed"
            /\ UNCHANGED reply_seq
    /\ UNCHANGED <<r_retry, buffers>>

(* The loop that waits for the third packet of the handshake               *)
WaitAgain == /\ r_retry' = r_retry + 1
             /\ r_pc' = IF r_retry' = MAX_RETRY THEN "failed" ELSE r_pc

AckWaitTimeout == /\ r_pc = "ackWait"
                  /\ ReceiverSends({SynAckPkt(reply_seq)})
                  /\ WaitAgain
                  /\ UNCHANGED <<reply_seq, buffers>>

AckWaitReceive(m, intact) ==
    /\ r_pc = "ackWait"
    /\ ReceiverExchange(m, {})
    /\ IF m.flags = {"ACK"} /\ m.seq = reply_seq /\ intact
       THEN /\ expected' = m.seq
            /\ r_pc' = "data"
            /\ UNCHANGED r_retry
       ELSE WaitAgain /\ UNCHANGED expected
    /\ UNCHANGED <<reply_seq, r_head, received, payload_buf, file>>
-----------------------------------------------------------------------------
(* rtp_data_receiver: packets that are dropped, or are the FIN             *)
DataDrop(m, intact) ==
    /\ r_pc = "data"
    /\ ~intact \/ ("FIN" \notin m.flags /\ m.flags # {})
    /\ ReceiverExchange(m, {})
    /\ UNCHANGED receiverVars

DataFin(m, intact) ==
    /\ r_pc = "data"
    /\ intact /\ "FIN" \in m.flags
    /\ ReceiverExchange(m, {FinAckPkt(m.seq)})
    /\ reply_seq' = m.seq
    /\ r_pc' = "finWait"
    /\ UNCHANGED <<r_retry, buffers>>

DataPacket(m, intact) == /\ r_pc = "data"
                         /\ intact /\ m.flags = {}
                         /\ UNCHANGED <<r_pc, r_retry, reply_seq>>

(* Go-Back-N: only the expected packet is written; every packet is         *)
(* answered with the number expected next.                                 *)
DataInOrder(m, intact) ==
    /\ Mode = 0
    /\ DataPacket(m, intact)
    /\ seqnum_equal(m.seq, expected)
    /\ file' = Append(file, m.block)
    /\ expected' = seqnum_next(expected)
    /\ ReceiverExchange(m, {AckPkt(expected')})
    /\ UNCHANGED <<r_head, received, payload_buf>>

(* Mutant: the packet that is dropped is acknowledged.                     *)
DataDroppedAcked(m, intact) ==
    /\ Mode = 0
    /\ DataPacket(m, intact)
    /\ ~seqnum_equal(m.seq, expected)
    /\ ReceiverExchange(m, {AckPkt(seqnum_next(m.seq))})
    /\ UNCHANGED buffers

DataOutOfOrder(m, intact) ==
    /\ Mode = 0
    /\ DataPacket(m, intact)
    /\ ~seqnum_equal(m.seq, expected)
    /\ ReceiverExchange(m, {AckPkt(expected)})
    /\ UNCHANGED buffers

(* Selective repeat                                                        *)
InReceiveWindow(seq) ==
    seqnum_in_range(seq, expected, Mask(expected + W - 1))
(* Mutant: the oldest number is left out.                                  *)
InShortReackWindow(seq) ==
    seqnum_in_range(seq, Mask(expected - W + 1), Mask(expected - 1))
InReackWindow(seq) ==
    seqnum_in_range(seq, Mask(expected - W), Mask(expected - 1))

(* Mutant: the head of the ring is not added.                              *)
UnrotatedSlot(seq) == Slot(0, Mask(seq - expected))
BufferSlot(seq) == Slot(r_head, Mask(seq - expected))

(* A packet of the window is buffered unless it already is, acknowledged,  *)
(* and the filled slots at the head are written out and freed.             *)
DataBuffer(m, intact) ==
    LET slot   == BufferSlot(m.seq)
        filled == [received EXCEPT ![slot] = TRUE]
        buf    == [payload_buf EXCEPT ![slot] = IF received[slot] THEN @ ELSE m.block]
        run    == Run(filled, r_head)
        freed  == Leading(r_head, run)
    IN  /\ Mode = 1
        /\ DataPacket(m, intact)
        /\ InReceiveWindow(m.seq)
        /\ ReceiverExchange(m, {AckPkt(m.seq)})
        /\ file' = file \o [k \in 1 .. run |-> buf[Slot(r_head, k - 1)]]
        /\ received' = [i \in Slots |-> filled[i] /\ i \notin freed]
        /\ payload_buf' = [i \in Slots |-> IF i \in freed THEN NoPayload ELSE buf[i]]
        /\ r_head' = Slot(r_head, run)
        /\ expected' = Mask(expected + run)

(* malloc has failed: the packet is acknowledged all the same.             *)
(* Mutant: the slot is marked as filled all the same.                      *)
DataMarkedUnstored(m, intact) ==
    /\ Mode = 1 /\ AllocFails
    /\ DataPacket(m, intact)
    /\ InReceiveWindow(m.seq)
    /\ ~received[BufferSlot(m.seq)]
    /\ ReceiverExchange(m, {AckPkt(m.seq)})
    /\ received' = [received EXCEPT ![BufferSlot(m.seq)] = TRUE]
    /\ UNCHANGED <<expected, r_head, payload_buf, file>>

DataAllocFails(m, intact) ==
    /\ Mode = 1 /\ AllocFails
    /\ DataPacket(m, intact)
    /\ InReceiveWindow(m.seq)
    /\ ~received[BufferSlot(m.seq)]
    /\ ReceiverExchange(m, {AckPkt(m.seq)})
    /\ UNCHANGED buffers

DataReack(m, intact) ==
    /\ Mode = 1
    /\ DataPacket(m, intact)
    /\ ~InReceiveWindow(m.seq)
    /\ ReceiverExchange(m, IF InReackWindow(m.seq) THEN {AckPkt(m.seq)} ELSE {})
    /\ UNCHANGED buffers
-----------------------------------------------------------------------------
(* rtp_handle_fin: packets are not verified here, so a corrupted one may   *)
(* or may not look like a FIN.                                             *)
FinWaitReceive(m, intact) ==
    /\ r_pc = "finWait"
    /\ \E isFin \in IF intact THEN {"FIN" \in m.flags} ELSE BOOLEAN :
          ReceiverExchange(m, IF isFin THEN {FinAckPkt(reply_seq)} ELSE {})
    /\ UNCHANGED receiverVars

(* Mutant: the quiet period answers the FIN again and goes on waiting.     *)
FinWaitForever == /\ r_pc = "finWait"
                  /\ ReceiverSends({FinAckPkt(reply_seq)})
                  /\ UNCHANGED receiverVars

FinWaitTimeout == /\ r_pc = "finWait"
                  /\ r_pc' = "done"
                  /\ UNCHANGED <<channels, r_retry, reply_seq, buffers>>
-----------------------------------------------------------------------------
ReceiverReceive ==
    \E m \in toReceiver, intact \in Intact :
        \/ ListenReceive(m, intact)
        \/ AckWaitReceive(m, intact)
        \/ DataDrop(m, intact)
        \/ DataFin(m, intact)
        \/ DataInOrder(m, intact)
        \/ DataOutOfOrder(m, intact)
        \/ DataBuffer(m, intact)
        \/ DataAllocFails(m, intact)
        \/ DataReack(m, intact)
        \/ FinWaitReceive(m, intact)

ReceiverNext ==
    \/ ListenTimeout \/ AckWaitTimeout \/ FinWaitTimeout
    \/ ReceiverReceive
=============================================================================
