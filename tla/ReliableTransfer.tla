-------------------------- MODULE ReliableTransfer --------------------------
(***************************************************************************)
(* What the RTP programs promise together, with no packets in sight: the   *)
(* output file only ever grows along the input file, the receiver closes   *)
(* when it holds all of it, and the sender reports success only after the  *)
(* receiver has closed.  Either may give up before that.                   *)
(***************************************************************************)
EXTENDS Naturals, Sequences

CONSTANT FileLen

VARIABLES delivered,   \* the blocks in the output file
          sender,      \* "running", "succeeded" or "failed"
          receiver     \* "running", "closed" or "failed"

transferVars == <<delivered, sender, receiver>>

Source == [i \in 1 .. FileLen |-> i]

Init == delivered = <<>> /\ sender = "running" /\ receiver = "running"

Deliver == /\ receiver = "running"
           /\ \E n \in Len(delivered) + 1 .. FileLen :
                 delivered' = SubSeq(Source, 1, n)
           /\ UNCHANGED <<sender, receiver>>

ReceiverCloses == /\ receiver = "running"
                  /\ delivered = Source
                  /\ receiver' = "closed"
                  /\ UNCHANGED <<delivered, sender>>

SenderSucceeds == /\ sender = "running"
                  /\ receiver = "closed"
                  /\ sender' = "succeeded"
                  /\ UNCHANGED <<delivered, receiver>>

SenderFails == /\ sender = "running"
               /\ sender' = "failed"
               /\ UNCHANGED <<delivered, receiver>>

ReceiverFails == /\ receiver = "running"
                 /\ delivered = <<>>
                 /\ receiver' = "failed"
                 /\ UNCHANGED <<delivered, sender>>

Next == \/ Deliver \/ ReceiverCloses \/ SenderSucceeds
        \/ SenderFails \/ ReceiverFails

Spec == Init /\ [][Next]_transferVars
=============================================================================
