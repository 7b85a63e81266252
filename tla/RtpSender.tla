------------------------------ MODULE RtpSender ------------------------------
(***************************************************************************)
(* The sender program (sender.c).  s_pc says which recvfrom or which loop  *)
(* the single thread is at; an action is what it does from there to the    *)
(* next such place.  The locals of sender_send_data are read only from     *)
(* s_pc = "main" on, and have from the start the values it gives them.     *)
(***************************************************************************)
EXTENDS RtpWire, FiniteSets

CONSTANT InitialSeqs     \* the values seqnum_init_random may return

ASSUME SenderAssumption == InitialSeqs \subseteq SeqNums

VARIABLES s_pc, syn_seq,
          retry,             \* the counter of the handshake and FIN loops
          base_seq, nextseqnum, head,
          acked, used, packets,
          pos,               \* blocks fread has returned so far
          isReadOver, isTimeout, unackedCnt, retransmit_count

senderVars == <<s_pc, syn_seq, retry, base_seq, nextseqnum, head, acked, used,
                packets, pos, isReadOver, isTimeout, unackedCnt, retransmit_count>>
\* What only the data phase changes, and what only the handshake and FIN loops do.
ring == <<head, acked, used, packets, base_seq, nextseqnum, unackedCnt, pos>>
loop == <<isReadOver, isTimeout, retransmit_count>>

InFlight == Mask(nextseqnum - base_seq)
uint8(n) == n % 256
(* retransmit_count is only compared with MAX_RETRY: beyond, all is one.   *)
Bump(n) == IF n > MAX_RETRY THEN n ELSE n + 1

SenderPlaces == {"start", "synWait", "confirm", "main", "fill", "recv", "fin",
                 "done", "failed"}

(* The types of the sender's variables, with the bounds of its counters.   *)
SenderTypeOK ==
    /\ s_pc \in SenderPlaces
    /\ syn_seq \in SeqNums /\ base_seq \in SeqNums /\ nextseqnum \in SeqNums
    /\ retry \in 0 .. MAX_RETRY
    /\ head \in Slots
    /\ acked \in [Slots -> BOOLEAN] /\ used \in [Slots -> BOOLEAN]
    /\ packets \in [Slots -> Packets(Blocks)]
    /\ pos \in Blocks
    /\ isReadOver \in BOOLEAN /\ isTimeout \in BOOLEAN
    /\ unackedCnt \in 0 .. 255
    /\ retransmit_count \in 0 .. MAX_RETRY + 1

(* The two handshake loops and the data phase start from these values.     *)
SenderAt(place) ==
    /\ s_pc = place
    /\ syn_seq \in InitialSeqs
    /\ retry = 0
    /\ base_seq = seqnum_next(syn_seq)
    /\ nextseqnum = base_seq
    /\ head = 0
    /\ acked = [i \in Slots |-> FALSE]
    /\ used = [i \in Slots |-> FALSE]
    /\ packets = [i \in Slots |-> DataPkt(0, 0)]
    /\ pos = 0
    /\ isReadOver = FALSE
    /\ isTimeout = FALSE
    /\ unackedCnt = 0
    /\ retransmit_count = 0

SenderInit == SenderAt("start")
-----------------------------------------------------------------------------
(* rtp_handshake_sender                                                    *)
SenderStart == /\ s_pc = "start"
               /\ SenderSends({SynPkt(syn_seq)})
               /\ s_pc' = "synWait"
               /\ UNCHANGED <<syn_seq, retry, ring, loop>>

(* One more failed attempt of a loop bounded by MAX_RETRY: the packet is   *)
(* sent again at the top of the loop, or the program gives up.             *)
AttemptFailed == /\ retry' = retry + 1
                 /\ s_pc' = IF retry' = MAX_RETRY THEN "failed" ELSE s_pc
Resent(pkt) == IF retry + 1 = MAX_RETRY THEN {} ELSE {pkt}

SynTimeout == /\ s_pc = "synWait"
              /\ AttemptFailed
              /\ SenderSends(Resent(SynPkt(syn_seq)))
              /\ UNCHANGED <<syn_seq, ring, loop>>

(* The expected number is compared as seq_num + 1, without the mask.       *)
(* Mutant: the SYN's own number is expected back.                          *)
EchoesSyn(m, intact) == m.flags = {"SYN", "ACK"} /\ m.seq = syn_seq /\ intact
IsSynAck(m, intact) == m.flags = {"SYN", "ACK"} /\ m.seq = syn_seq + 1 /\ intact

SynReceive(m, intact) ==
    /\ s_pc = "synWait"
    /\ IF IsSynAck(m, intact)
       THEN /\ SenderExchange(m, {AckPkt(seqnum_next(syn_seq))})
            /\ s_pc' = "confirm"
            /\ retry' = 0
       ELSE /\ SenderExchange(m, Resent(SynPkt(syn_seq)))
            /\ AttemptFailed
    /\ UNCHANGED <<syn_seq, ring, loop>>

(* The one recvfrom of up to two seconds after the final ACK.              *)
ConfirmTimeout == /\ s_pc = "confirm"
                  /\ s_pc' = "main"
                  /\ UNCHANGED <<channels, syn_seq, retry, ring, loop>>

ConfirmReceive(m, intact) ==
    /\ s_pc = "confirm"
    /\ SenderExchange(m, IF IsSynAck(m, intact) THEN {AckPkt(seqnum_next(syn_seq))}
                                                ELSE {})
    /\ s_pc' = "main"
    /\ UNCHANGED <<syn_seq, retry, ring, loop>>
-----------------------------------------------------------------------------
(* sender_send_data: the top of the main loop                              *)
(* Mutant: the end of the file is enough.                                  *)
AllRead == isReadOver
AllSent == isReadOver /\ unackedCnt = 0

(* *syn_seq is set back to the last data number before it is advanced.     *)
FinSeq == seqnum_next(Mask(nextseqnum - 1))

MainExit == /\ s_pc = "main" /\ AllSent
            /\ SenderSends({FinPkt(FinSeq)})
            /\ s_pc' = "fin"
            /\ retry' = 0
            /\ UNCHANGED <<syn_seq, ring, loop>>

MainAbort == /\ s_pc = "main" /\ ~AllSent
             /\ retransmit_count > MAX_RETRY
             /\ s_pc' = "failed"
             /\ UNCHANGED <<channels, syn_seq, retry, ring, loop>>

(* Go-Back-N sends every packet of the window again, selective repeat the  *)
(* ones not acknowledged.                                                  *)
Retransmitted ==
    {packets[i] : i \in {j \in Leading(head, InFlight) : Mode = 0 \/ ~acked[j]}}

MainRound == /\ s_pc = "main" /\ ~AllSent
             /\ retransmit_count =< MAX_RETRY
             /\ SenderSends(IF isTimeout THEN Retransmitted ELSE {})
             /\ isTimeout' = FALSE
             /\ s_pc' = "fill"
             /\ UNCHANGED <<syn_seq, retry, ring, isReadOver, retransmit_count>>
-----------------------------------------------------------------------------
(* The loop that fills the window, one iteration a step.  An iteration     *)
(* that finds the next slot acknowledged changes nothing, for ever.        *)
(* Mutant: one packet too many.                                            *)
WindowOverfull == nextseqnum = Mask(base_seq + W + 1)
WindowFull == nextseqnum = Mask(base_seq + W)
NextSlot == Slot(head, InFlight)

FillFull == /\ s_pc = "fill" /\ WindowFull
            /\ s_pc' = "recv"
            /\ UNCHANGED <<channels, syn_seq, retry, ring, loop>>

FillEof == /\ s_pc = "fill" /\ ~WindowFull
           /\ ~acked[NextSlot] /\ ~used[NextSlot]
           /\ pos = FileLen
           /\ isReadOver' = TRUE
           /\ s_pc' = "recv"
           /\ UNCHANGED <<channels, syn_seq, retry, ring, isTimeout, retransmit_count>>

FillSend ==
    /\ s_pc = "fill" /\ ~WindowFull
    /\ ~acked[NextSlot]
    /\ IF used[NextSlot]
       THEN UNCHANGED <<packets, used, unackedCnt, pos>>
       ELSE /\ pos < FileLen
            /\ pos' = pos + 1
            /\ packets' = [packets EXCEPT ![NextSlot] = DataPkt(nextseqnum, pos + 1)]
            /\ used' = [used EXCEPT ![NextSlot] = TRUE]
            /\ unackedCnt' = uint8(unackedCnt + 1)
    /\ SenderSends({packets'[NextSlot]})
    /\ nextseqnum' = seqnum_next(nextseqnum)
    /\ UNCHANGED <<s_pc, syn_seq, retry, base_seq, head, acked, loop>>
-----------------------------------------------------------------------------
(* The receive loop.  After every packet that passes the checks it looks   *)
(* at the timer; the time that has passed is not modelled.                 *)
(* Mutants: a timeout is counted twice, or not at all.                     *)
TimerCountsTwice(count) == /\ s_pc' = "main"
                           /\ isTimeout' = TRUE
                           /\ retransmit_count' = Bump(Bump(count))
TimerDoesNotCount(count) == /\ s_pc' = "main"
                            /\ isTimeout' = TRUE
                            /\ retransmit_count' = count
TimerExpires(count) == /\ s_pc' = "main"
                       /\ isTimeout' = TRUE
                       /\ retransmit_count' = Bump(count)

TimerCheck(stopped, count) ==
    \/ /\ stopped
       /\ s_pc' = "main"
       /\ retransmit_count' = count
       /\ UNCHANGED isTimeout
    \/ /\ ~stopped
       /\ retransmit_count' = count
       /\ UNCHANGED <<s_pc, isTimeout>>
    \/ ~stopped /\ TimerExpires(count)

RecvTimeout == /\ s_pc = "recv"
               /\ TimerExpires(retransmit_count)
               /\ UNCHANGED <<channels, syn_seq, retry, ring, isReadOver>>

(* A packet that is corrupted or carries no ACK flag: on to the next one.  *)
RecvSkip(m, intact) ==
    /\ s_pc = "recv"
    /\ ~intact \/ "ACK" \notin m.flags
    /\ SenderExchange(m, {})
    /\ UNCHANGED senderVars

RecvAck(m, intact) == /\ s_pc = "recv"
                      /\ intact /\ "ACK" \in m.flags
                      /\ SenderExchange(m, {})
                      /\ UNCHANGED <<syn_seq, retry, packets, nextseqnum, pos, isReadOver>>

(* Mutant: no acknowledgement is too old.                                  *)
NeverStale(seq) == FALSE
StaleAck(seq) == IF Mode = 0 THEN seqnum_before(seq, base_seq)
                             ELSE ~seq_in_window(seq, base_seq, W)

RecvStale(m, intact) ==
    /\ RecvAck(m, intact)
    /\ StaleAck(m.seq)
    /\ TimerCheck(FALSE, retransmit_count)
    /\ UNCHANGED <<base_seq, head, acked, used, unackedCnt>>

(* Go-Back-N: m.seq is the number the receiver expects next.               *)
RecvCumulative(m, intact) ==
    LET offset  == Mask(m.seq - base_seq)
        stopped == m.seq = nextseqnum
        count   == IF offset > 0 THEN 0 ELSE retransmit_count
    IN  /\ Mode = 0
        /\ RecvAck(m, intact)
        /\ ~StaleAck(m.seq)
        /\ used' = [i \in Slots |-> used[i] /\ i \notin Leading(head, offset)]
        /\ unackedCnt' = uint8(unackedCnt - offset)
        /\ head' = Slot(head, offset)
        /\ base_seq' = m.seq
        /\ TimerCheck(stopped, IF stopped THEN count ELSE Bump(count))
        /\ UNCHANGED acked

(* Mutant: the number is read as the next one expected.                    *)
PrecedingSlot(seq) == Slot(head, Mask(seq - base_seq - 1))
AckedSlot(seq) == Slot(head, Mask(seq - base_seq))

(* Selective repeat: m.seq is the number of the packet acknowledged.       *)
RecvSelective(m, intact) ==
    LET slot == AckedSlot(m.seq)
        now  == [acked EXCEPT ![slot] = TRUE]
        run  == Run(now, head)
    IN  /\ Mode = 1
        /\ RecvAck(m, intact)
        /\ ~StaleAck(m.seq)
        /\ unackedCnt' = IF acked[slot] THEN unackedCnt ELSE uint8(unackedCnt - 1)
        /\ acked' = [i \in Slots |-> now[i] /\ i \notin Leading(head, run)]
        /\ used' = [i \in Slots |-> used[i] /\ i \notin Leading(head, run)]
        /\ head' = Slot(head, run)
        /\ base_seq' = Mask(base_seq + run)
        /\ TimerCheck(base_seq' = nextseqnum, IF run > 0 THEN 0 ELSE retransmit_count)
-----------------------------------------------------------------------------
(* sender_send_fin                                                         *)
FinTimeout == /\ s_pc = "fin"
              /\ AttemptFailed
              /\ SenderSends(Resent(FinPkt(FinSeq)))
              /\ UNCHANGED <<syn_seq, ring, loop>>

FinReceive(m, intact) ==
    /\ s_pc = "fin"
    /\ IF intact /\ {"FIN", "ACK"} \subseteq m.flags /\ m.seq = FinSeq
       THEN /\ SenderExchange(m, {})
            /\ s_pc' = "done"
            /\ UNCHANGED retry
       ELSE /\ SenderExchange(m, Resent(FinPkt(FinSeq)))
            /\ AttemptFailed
    /\ UNCHANGED <<syn_seq, ring, loop>>
-----------------------------------------------------------------------------
SenderReceive ==
    \E m \in toSender, intact \in Intact :
        \/ SynReceive(m, intact)
        \/ ConfirmReceive(m, intact)
        \/ RecvSkip(m, intact)
        \/ RecvStale(m, intact)
        \/ RecvCumulative(m, intact)
        \/ RecvSelective(m, intact)
        \/ FinReceive(m, intact)

SenderNext ==
    \/ SenderStart \/ SynTimeout \/ ConfirmTimeout
    \/ MainExit \/ MainAbort \/ MainRound
    \/ FillFull \/ FillEof \/ FillSend
    \/ RecvTimeout \/ FinTimeout
    \/ SenderReceive
=============================================================================
