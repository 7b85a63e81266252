-------------------------------- MODULE RtpSr --------------------------------
(***************************************************************************)
(* Why selective repeat works: the inductive invariants of Rtp for         *)
(* Mode = 1 and a file that, with a window, fits into the circle of        *)
(* sequence numbers.  SrInv holds whatever the path and malloc do; it says *)
(* that nothing wrong is written.  SrArrival says besides that nothing is  *)
(* given up too early, which takes a handshake that leaves no packet       *)
(* behind and a malloc that does not fail.                                 *)
(***************************************************************************)
EXTENDS RtpBlocks

(* The block at the base of the sender's window, and the one the receiver  *)
(* writes next.                                                            *)
BaseBlock == pos + 1 - InFlight
NextBlock == Len(file) + 1

SenderWindow == /\ InFlight =< W /\ InFlight =< pos
                /\ nextseqnum = Num(pos + 1)
                /\ base_seq = Num(BaseBlock)

(* The ring holds the packets in flight and nothing else, the first of     *)
(* them waits for its acknowledgement, and the counter is right.           *)
SenderRing == /\ \A i \in Slots : /\ used[i] <=> Dist(head, i) < InFlight
                                  /\ acked[i] => used[i]
              /\ \A i \in Slots : Dist(head, i) < InFlight =>
                    packets[i] = DataPkt(Num(BaseBlock + Dist(head, i)),
                                         BaseBlock + Dist(head, i))
              /\ InFlight > 0 => ~acked[head]
              /\ UnackedCountExact

(* The loop that receives acknowledgements is entered with a window.       *)
SenderPlace == /\ isReadOver => pos = FileLen
               /\ s_pc = "recv" => pos > 0
               /\ s_pc \in {"fin", "done"} => Closed

(* What is on the path, as far as somebody still acts on it.  The number   *)
(* of a SYN-ACK is that of the first block.                                *)
SentPackets == \A m \in toReceiver :
                  /\ m.flags = {} => m.block \in 1 .. pos /\ m.seq = Num(m.block)
                  /\ m.flags = {"SYN"} => m.seq = syn_seq
                  /\ "FIN" \in m.flags => Closed
SentAcks == \A m \in toSender :
               /\ "FIN" \notin m.flags =>
                     m.seq = Num(1) \/ \E j \in 1 .. pos : m.seq = Num(j)
               /\ "FIN" \in m.flags => Closed /\ r_pc \in {"finWait", "done"}

ReceiverState == /\ PrefixDelivered /\ Len(file) =< pos
                 /\ r_pc \in {"listen", "ackWait", "failed"} => file = <<>>
                 /\ r_pc = "ackWait" => reply_seq = Num(1)
                 /\ r_pc = "data" => expected = Num(NextBlock)
                 /\ r_pc \in {"finWait", "done"} => Closed

(* A filled slot holds the block that belongs at its place, and the block  *)
(* to be written next is not there yet.                                    *)
ReceiverRing == /\ ~received[r_head]
                /\ \A i \in Slots : received[i] =>
                      /\ payload_buf[i] = NextBlock + Dist(r_head, i)
                      /\ payload_buf[i] =< pos

SrInv == /\ SenderWindow /\ SenderRing /\ SenderPlace
         /\ SentPackets /\ SentAcks
         /\ ReceiverState /\ ReceiverRing

(* The receiver has every block that an acknowledgement on the path names, *)
(* that is marked in the sender's ring or that its base has passed.        *)
SrArrival ==
    /\ s_pc \notin {"start", "synWait", "confirm"}
    /\ r_pc \in {"data", "finWait", "done"}
    /\ \A m \in toSender :
          "FIN" \notin m.flags => \E j \in 1 .. pos \intersect Arrived : m.seq = Num(j)
    /\ \A i \in Slots : acked[i] => BaseBlock + Dist(head, i) \in Arrived
    /\ 1 .. BaseBlock - 1 \subseteq Arrived
=============================================================================
