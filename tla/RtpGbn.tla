-------------------------------- MODULE RtpGbn --------------------------------
(***************************************************************************)
(* Why Go-Back-N works: the inductive invariant of Rtp for Mode = 0 and a  *)
(* file of fewer than SEQNUM_MAX blocks (in the code, 1.5 TB).             *)
(*                                                                         *)
(* The sender's base is the number of block BaseBlock, which in this mode  *)
(* is never masked: after the wrap every acknowledgement counts as old and *)
(* the base stays.                                                         *)
(***************************************************************************)
EXTENDS RtpBlocks

BaseBlock == base_seq - FirstSeq + 1
Flight == pos + 1 - BaseBlock

(* The base has not passed a block that was not sent, nor one that the     *)
(* receiver has not written; the window is no larger than the ring.        *)
SenderWindow == /\ FirstSeq =< base_seq
                /\ Flight \in 0 .. W
                /\ BaseBlock =< Len(file) + 1
                /\ nextseqnum = Num(pos + 1)

(* The ring holds the packets in flight and nothing else.                  *)
SenderRing == /\ \A i \in Slots : ~acked[i] /\ (used[i] <=> Dist(head, i) < Flight)
              /\ \A i \in Slots : Dist(head, i) < Flight =>
                    packets[i] = DataPkt(Num(BaseBlock + Dist(head, i)),
                                         BaseBlock + Dist(head, i))
              /\ unackedCnt = Flight
              /\ isReadOver => pos = FileLen
              /\ s_pc \in {"fin", "done"} => Closed

(* What is on the path, as far as somebody still acts on it.               *)
SentPackets == \A m \in toReceiver :
                  /\ m.flags = {} => m.block \in 1 .. pos /\ m.seq = Num(m.block)
                  /\ m.flags = {"SYN"} => m.seq = syn_seq
                  /\ "FIN" \in m.flags => Closed
SentAcks == \A m \in toSender :
               /\ "FIN" \notin m.flags =>
                     \E j \in 1 .. Len(file) + 1 : m.seq = Num(j)
               /\ "FIN" \in m.flags => Closed /\ r_pc \in {"finWait", "done"}

ReceiverState == /\ PrefixDelivered /\ Len(file) =< pos
                 /\ r_pc \in {"listen", "ackWait", "failed"} => file = <<>>
                 /\ r_pc = "ackWait" => reply_seq = Num(1)
                 /\ r_pc = "data" => expected = Num(Len(file) + 1)
                 /\ r_pc \in {"finWait", "done"} => Closed

(* The base of the sender never outruns the receiver, the receiver never   *)
(* outruns what was sent, and every packet and acknowledgement on the path *)
(* agrees with both: why a Go-Back-N transfer cannot lose a block.         *)
GbnInv == SenderWindow /\ SenderRing /\ SentPackets /\ SentAcks /\ ReceiverState
=============================================================================
