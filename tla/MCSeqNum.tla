------------------------------ MODULE MCSeqNum ------------------------------
(***************************************************************************)
(* A window of sequence numbers rolled around the number ring.  The        *)
(* numbers seq and base only ever advance by seqnum_next, as the sender's  *)
(* nextseqnum and base_seq do; nseq and nbase count those advances without *)
(* wrapping and are the reference the operators of SeqNum are checked      *)
(* against.                                                                *)
(***************************************************************************)
EXTENDS SeqNum

CONSTANTS MaxWin,      \* the largest window tried
          MaxApart,    \* how far the two positions may drift apart
          MaxLaps      \* how many times they go around the ring

(* A window and the drift together stay short of the whole ring, as the    *)
(* programs' do: at most 128 and 128 of 2^30 numbers.                      *)
ASSUME WindowAssumption == /\ MaxWin \in Nat /\ MaxApart \in Nat /\ MaxLaps \in Nat
                           /\ MaxWin + MaxApart < SEQNUM_MAX

VARIABLES seq, base, nseq, nbase, win
vars == <<seq, base, nseq, nbase, win>>

Init == /\ seq = 0 /\ base = 0 /\ nseq = 0 /\ nbase = 0
        /\ win \in 1 .. MaxWin

AdvanceSeq == /\ nseq < MaxLaps * SEQNUM_MAX
              /\ nseq - nbase < MaxApart
              /\ seq' = seqnum_next(seq)
              /\ nseq' = nseq + 1
              /\ UNCHANGED <<base, nbase, win>>

AdvanceBase == /\ nbase < MaxLaps * SEQNUM_MAX
               /\ nbase - nseq < MaxApart
               /\ base' = seqnum_next(base)
               /\ nbase' = nbase + 1
               /\ UNCHANGED <<seq, nseq, win>>

Next == AdvanceSeq \/ AdvanceBase
Spec == Init /\ [][Next]_vars
-----------------------------------------------------------------------------
Ahead == nseq - nbase

(* seq_in_window tells, across any wrap, exactly the win positions that    *)
(* start at base: the sender's test of an SR acknowledgement.              *)
WindowIsCircular == seq_in_window(seq, base, win) <=> Ahead \in 0 .. win - 1

(* seqnum_in_range, called with the bounds the SR receiver computes, tells *)
(* exactly its receive window and, behind it, its re-acknowledge window,   *)
(* whichever of the two bounds has wrapped.                                *)
RangesAreCircular ==
    /\ seqnum_in_range(seq, base, Mask(base + win - 1)) <=> Ahead \in 0 .. win - 1
    /\ seqnum_in_range(seq, Mask(base - win), Mask(base - 1)) <=> Ahead \in -win .. -1

(* As long as both numbers are in the same lap of the ring, seqnum_before  *)
(* orders them as they were issued.                                        *)
BeforeWithinLap ==
    nseq \div SEQNUM_MAX = nbase \div SEQNUM_MAX
        => (seqnum_before(seq, base) <=> nseq < nbase)
=============================================================================
