------------------------------- MODULE SeqNum -------------------------------
(***************************************************************************)
(* Sequence-number arithmetic of the RTP library (seqnum.h): 30-bit        *)
(* numbers kept in 32-bit unsigned words.  SEQNUM_MAX is 2^30 in the code; *)
(* it is a parameter here, and a word always holds four times as many      *)
(* values, so that the signed comparison below keeps its shape.            *)
(***************************************************************************)
EXTENDS Integers

CONSTANT SEQNUM_MAX

ASSUME SeqNumAssumption == SEQNUM_MAX \in Nat /\ SEQNUM_MAX >= 2

SeqNums == 0 .. SEQNUM_MAX - 1

(* x & SEQNUM_MASK, for the result x of a 32-bit addition or subtraction.  *)
Mask(x) == x % SEQNUM_MAX

(* Arithmetic on uint32_t, and the cast of such a word to int32_t.         *)
Word == 4 * SEQNUM_MAX
Int32(w) == IF w < 2 * SEQNUM_MAX THEN w ELSE w - Word

(* Mutant: the number is not masked.                                       *)
NextUnmasked(seq) == seq + 1
seqnum_next(seq) == Mask(seq + 1)

(* Mutant: equal numbers count as ordered.                                 *)
BeforeOrEqual(seq1, seq2) == Int32((seq1 - seq2) % Word) <= 0
seqnum_before(seq1, seq2) == Int32((seq1 - seq2) % Word) < 0

(* Mutant: any later number will do.                                       *)
EqualOrAfter(seq1, seq2) == ~seqnum_before(seq1, seq2)
seqnum_equal(seq1, seq2) == seq1 = seq2

(* Mutant: the upper end is taken in.                                      *)
InClosedWindow(seq, base, win) == Mask(seq - base) <= win
seq_in_window(seq, base, win) == Mask(seq - base) < win

(* Mutant: the wrapped case is forgotten.                                  *)
InRangeNoWrap(seq, start, end) == start <= seq /\ seq <= end
seqnum_in_range(seq, start, end) ==
    IF start <= end THEN start <= seq /\ seq <= end
                    ELSE start <= seq \/ seq <= end
=============================================================================
