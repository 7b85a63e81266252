----------------------------- MODULE MCRtpRetry -----------------------------
(***************************************************************************)
(* Rtp with a history variable: the number of timeouts the sender's data   *)
(* phase has seen since its window last moved.  It stops at ManyTimeouts,  *)
(* the first number that is more than MAX_RETRY.                           *)
(***************************************************************************)
EXTENDS Rtp

VARIABLE timeouts

TimedOut == isTimeout' /\ ~isTimeout

RetryInit == Init /\ timeouts = 0

ManyTimeouts == MAX_RETRY + 1

RetryNext ==
    /\ Next
    /\ LET before == IF base_seq' # base_seq THEN 0 ELSE timeouts
       IN  timeouts' = IF TimedOut /\ before < ManyTimeouts THEN before + 1 ELSE before

RetrySpec == RetryInit /\ [][RetryNext]_<<vars, timeouts>>

FairRetrySpec == RetrySpec /\ WF_vars(SenderStep) /\ WF_vars(ReceiverStep)

(* The sender failed in its data phase, not in the handshake or with FIN.  *)
GaveUp == s_pc = "failed" /\ pos > 0 /\ ~AllSent

(* The sender gives up its transfer only when it has timed out, and so     *)
(* retransmitted its window, more than MAX_RETRY times without its window  *)
(* moving: what retransmit_count, "the counter of retransmissions", is     *)
(* said to count.                                                          *)
GivesUpAfterRetries == GaveUp => timeouts > MAX_RETRY
=============================================================================
