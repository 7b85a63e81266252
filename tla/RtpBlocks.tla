------------------------------ MODULE RtpBlocks ------------------------------
(***************************************************************************)
(* How the blocks of the file, the numbers they travel under and the slots *)
(* they are kept in belong together: what the inductive invariants of the  *)
(* two modes are stated with.  Block c travels under the number Num(c).    *)
(***************************************************************************)
EXTENDS Rtp

FirstSeq == seqnum_next(syn_seq)
Num(c) == Mask(FirstSeq + c - 1)

(* How far slot i of a ring is from its head h.                            *)
Dist(h, i) == IF i >= h THEN i - h ELSE i - h + W

(* The sender has sent everything and stopped sending data for good.       *)
Closed == s_pc \in {"fin", "done", "failed"} /\ AllSent
=============================================================================
