------------------------------- MODULE RtpWire -------------------------------
(***************************************************************************)
(* RTP packets and the UDP path between the two programs.  A packet is its *)
(* set of flags, its sequence number and, for a data packet, the number of *)
(* the file block it carries (0 for the header-only packets).              *)
(*                                                                         *)
(* A channel is the set of packets that may still arrive.  Packets are     *)
(* taken out in any order; one that never is taken out is lost.  When      *)
(* Duplication holds a packet that was taken out may arrive again, when    *)
(* Corruption holds it may arrive with a checksum that does not match.     *)
(*                                                                         *)
(* Also here: the arguments both programs are started with, and the slots  *)
(* of the ring each of them keeps for its window.                          *)
(***************************************************************************)
EXTENDS SeqNum

CONSTANTS Duplication, Corruption,
          Mode,          \* 0: Go-Back-N, 1: selective repeat
          WindowSize,    \* the command-line argument, before the clamp
          FileLen,       \* blocks of PAYLOAD_LIMIT bytes in the file
          MAX_RETRY

ASSUME WireAssumption == /\ Duplication \in BOOLEAN
                         /\ Corruption \in BOOLEAN
                         /\ Mode \in {0, 1}
                         /\ WindowSize \in Nat \ {0}
                         /\ FileLen \in Nat
                         /\ MAX_RETRY \in Nat \ {0}

VARIABLES toReceiver,    \* packets under way from the sender to the receiver
          toSender       \* packets under way from the receiver to the sender

channels == <<toReceiver, toSender>>

Flags == {"SYN", "ACK", "FIN"}

(* rtp_packet_t, with its header rtp_header_t                              *)
Packets(blocks) == [flags : SUBSET Flags, seq : SeqNums, block : blocks]

Header(flags, seq) == [flags |-> flags, seq |-> seq, block |-> 0]

SynPkt(seq)    == Header({"SYN"}, seq)
SynAckPkt(seq) == Header({"SYN", "ACK"}, seq)
AckPkt(seq)    == Header({"ACK"}, seq)
FinPkt(seq)    == Header({"FIN"}, seq)
FinAckPkt(seq) == Header({"FIN", "ACK"}, seq)

(* RTP_DAT is the absence of flags.                                        *)
DataPkt(seq, block) == [flags |-> {}, seq |-> seq, block |-> block]

(* What is left of a channel once recvfrom has returned m.                 *)
Taken(channel, m) == IF Duplication THEN channel ELSE channel \ {m}

(* Whether the checksum of a received packet can match: it always does on  *)
(* a path that corrupts nothing.                                           *)
Intact == IF Corruption THEN BOOLEAN ELSE {TRUE}

(* The receiver's and the sender's half of one datagram exchange: m is     *)
(* taken from the one channel, the packets of out are sent on the other.   *)
SenderExchange(m, out) == /\ toSender' = Taken(toSender, m)
                          /\ toReceiver' = toReceiver \union out
ReceiverExchange(m, out) == /\ toReceiver' = Taken(toReceiver, m)
                            /\ toSender' = toSender \union out

SenderSends(out) == /\ toReceiver' = toReceiver \union out
                    /\ UNCHANGED toSender
ReceiverSends(out) == /\ toSender' = toSender \union out
                      /\ UNCHANGED toReceiver
-----------------------------------------------------------------------------
W == IF WindowSize > 128 THEN 128 ELSE WindowSize
Slots == 0 .. W - 1
Blocks == 0 .. FileLen

Slot(h, offset) == (h + offset) % W

(* The slots of the first n packets of a window whose head is slot h.      *)
(* Mutant: one slot too many.                                              *)
OneMore(h, n) == {Slot(h, k) : k \in 0 .. n}
Leading(h, n) == {Slot(h, k) : k \in 0 .. n - 1}

(* How many slots, from slot h on, hold: the while loops that slide an SR  *)
(* window stop at the first that does not, or when they meet one of the    *)
(* slots they have themselves cleared.                                     *)
Run(holds, h) == CHOOSE n \in 0 .. W :
                    /\ \A k \in 0 .. n - 1 : holds[Slot(h, k)]
                    /\ n < W => ~holds[Slot(h, n)]
=============================================================================
