--------------------------------- MODULE Rtp ---------------------------------
(***************************************************************************)
(* A sender and a receiver connected by the two channels.                  *)
(***************************************************************************)
EXTENDS RtpSender, RtpReceiver

vars == <<channels, senderVars, receiverVars>>

Init == /\ SenderInit
        /\ ReceiverInit
        /\ toReceiver = {}
        /\ toSender = {}

(* The handshake has gone through with no packet repeated: what the        *)
(* programs reach when no timeout and no delay disturbs it.                *)
InitEstablished == /\ SenderAt("main")
                   /\ ReceiverAt("data", seqnum_next(syn_seq))
                   /\ toReceiver = {}
                   /\ toSender = {}

SenderStep == SenderNext /\ UNCHANGED receiverVars
ReceiverStep == ReceiverNext /\ UNCHANGED senderVars

Next == SenderStep \/ ReceiverStep

Spec == Init /\ [][Next]_vars
SpecEstablished == InitEstablished /\ [][Next]_vars

(* Each program keeps running: recvfrom returns, with a packet or with a   *)
(* timeout.  Nothing is assumed of the network.                            *)
FairSpec == Spec /\ WF_vars(SenderStep) /\ WF_vars(ReceiverStep)
-----------------------------------------------------------------------------
(* The packets on the path are packets the programs build, and each        *)
(* variable keeps to the type of the C variable it stands for.             *)
TypeOK == /\ toReceiver \subseteq Packets(Blocks)
          /\ toSender \subseteq Packets(Blocks)
          /\ SenderTypeOK
          /\ ReceiverTypeOK
-----------------------------------------------------------------------------
(* The output file is, at every moment, a prefix of the input file: no     *)
(* block lost, repeated or out of order whatever the channels do.          *)
PrefixDelivered == /\ Len(file) =< FileLen
                   /\ \A i \in 1 .. Len(file) : file[i] = i

Outstanding == {i \in Slots : used[i] /\ ~acked[i]}
Arrived == {file[i] : i \in 1 .. Len(file)}
               \union {payload_buf[i] : i \in {j \in Slots : received[j]}}

(* What the sender has stopped retransmitting the receiver has, written or *)
(* buffered: an acknowledgement never outruns the data it stands for.      *)
AckedHasArrived == 1 .. pos \ {packets[i].block : i \in Outstanding} \subseteq Arrived

Closing == s_pc \in {"fin", "done"} \/ r_pc \in {"finWait", "done"}

(* Neither side starts to close before the whole file is written ("sender  *)
(* sends FIN only when everything is acknowledged").                       *)
CompleteOnClose == Closing => Len(file) = FileLen

(* The 8-bit counter that decides when the sender is done counts exactly   *)
(* the packets in its ring that wait for an acknowledgement.               *)
UnackedCountExact == unackedCnt = Cardinality(Outstanding)

(* The sender's ring: from the head on, the packets in flight with         *)
(* consecutive numbers and blocks; every other slot is free, so that the   *)
(* loop that fills the window neither overwrites a packet nor spins.       *)
RingCoherent ==
    /\ InFlight =< W
    /\ \A k \in 0 .. InFlight - 1 :
          /\ used[Slot(head, k)]
          /\ packets[Slot(head, k)] = DataPkt(Mask(base_seq + k), pos - InFlight + k + 1)
    /\ \A k \in InFlight .. W - 1 : ~used[Slot(head, k)] /\ ~acked[Slot(head, k)]
    /\ s_pc \in {"main", "fill", "recv"} /\ InFlight > 0 => ~acked[head]

(* The SR receiver's ring: a filled slot holds the block that belongs at   *)
(* its place after what is already written, and the head slot is free.     *)
ReceiverRingCoherent ==
    /\ ~received[r_head]
    /\ \A k \in 0 .. W - 1 :
          received[Slot(r_head, k)] => payload_buf[Slot(r_head, k)] = Len(file) + k + 1

(* The two windows stay in step: whatever the sender may retransmit, the   *)
(* receiver still answers with an acknowledgement the sender can use.      *)
WindowsInStep ==
    s_pc \in {"main", "fill", "recv"} /\ r_pc = "data" =>
        IF Mode = 0
        THEN Mask(expected - base_seq) =< InFlight
        ELSE \A i \in Outstanding : \/ InReceiveWindow(packets[i].seq)
                                     \/ InReackWindow(packets[i].seq)

(* Every SYN-ACK on its way to a waiting sender is one it will accept.     *)
SynAckConnects ==
    s_pc = "synWait" => \A m \in toSender : IsSynAck(m, TRUE)

(* The sender's window moves forward only, and never over a packet that    *)
(* was not sent, whatever acknowledgement arrives.                         *)
BaseWithinFlight == [][Mask(base_seq' - base_seq) =< InFlight]_vars

(* The sender program ends, with success or not, whatever the channels     *)
(* lose: its loops are all bounded.                                        *)
SenderTerminates == <>(s_pc \in {"done", "failed"})

(* After a successful sender the receiver ends too.                        *)
ReceiverFollows == s_pc = "done" ~> r_pc = "done"
-----------------------------------------------------------------------------
(* What becomes of the two programs, as ReliableTransfer sees it.          *)
SenderStatus == CASE s_pc = "done" -> "succeeded"
                  [] s_pc = "failed" -> "failed"
                  [] OTHER -> "running"
ReceiverStatus == CASE r_pc \in {"finWait", "done"} -> "closed"
                    [] r_pc = "failed" -> "failed"
                    [] OTHER -> "running"

Transfer == INSTANCE ReliableTransfer WITH
    delivered <- file, sender <- SenderStatus, receiver <- ReceiverStatus

(* The programs implement the transfer they promise.                       *)
TransferSpec == Transfer!Spec
=============================================================================
