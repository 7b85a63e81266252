---------------------------- MODULE SeqNumProofs ----------------------------
(***************************************************************************)
(* Facts about the operators of SeqNum, whatever SEQNUM_MAX is.            *)
(***************************************************************************)
EXTENDS SeqNum, TLAPS

(* Masking is the identity on sequence numbers and takes off one lap       *)
(* beyond them; the result of an addition or subtraction of two sequence   *)
(* numbers needs no more.                                                  *)
LEMMA MaskCases ==
    /\ \A x \in Int : Mask(x) \in SeqNums
    /\ \A x \in SeqNums : Mask(x) = x
    /\ \A x \in SEQNUM_MAX .. 2 * SEQNUM_MAX - 1 : Mask(x) = x - SEQNUM_MAX
    /\ \A x \in -SEQNUM_MAX .. -1 : Mask(x) = x + SEQNUM_MAX
<1>1. \A x \in Int : Mask(x) \in SeqNums
  BY SeqNumAssumption DEF SeqNums, Mask
<1>2. \A x \in SeqNums : Mask(x) = x
  BY SeqNumAssumption DEF SeqNums, Mask
<1>3. \A x \in SEQNUM_MAX .. 2 * SEQNUM_MAX - 1 : Mask(x) = x - SEQNUM_MAX
  BY SeqNumAssumption DEF Mask
<1>4. \A x \in -SEQNUM_MAX .. -1 : Mask(x) = x + SEQNUM_MAX
  BY SeqNumAssumption DEF Mask
<1> QED BY <1>1, <1>2, <1>3, <1>4

LEMMA NextType == \A x \in SeqNums : seqnum_next(x) \in SeqNums
BY MaskCases, SeqNumAssumption DEF seqnum_next, SeqNums

(* seqnum_before is plain < on masked numbers: the signed comparison never *)
(* takes the wrap-around into account.                                     *)
THEOREM BeforeIsLess ==
    \A a, b \in SeqNums : seqnum_before(a, b) <=> a < b
BY SeqNumAssumption DEF SeqNums, seqnum_before, Int32, Word

(* A range of n numbers after the first one, across the wrap or not.       *)
LEMMA RangeForm ==
    \A x, s \in SeqNums, n \in 0 .. SEQNUM_MAX - 1 :
        seqnum_in_range(x, s, Mask(s + n)) <=> Mask(x - s) =< n
<1> SUFFICES ASSUME NEW x \in SeqNums, NEW s \in SeqNums, NEW n \in 0 .. SEQNUM_MAX - 1
             PROVE  seqnum_in_range(x, s, Mask(s + n)) <=> Mask(x - s) =< n
  OBVIOUS
<1>1. Mask(s + n) = IF s + n < SEQNUM_MAX THEN s + n ELSE s + n - SEQNUM_MAX
  BY MaskCases, SeqNumAssumption DEF SeqNums
<1>2. Mask(x - s) = IF x >= s THEN x - s ELSE x - s + SEQNUM_MAX
  BY MaskCases, SeqNumAssumption DEF SeqNums
<1> QED BY <1>1, <1>2, SeqNumAssumption DEF seqnum_in_range, SeqNums

(* Going the distance between two numbers leads from one to the other.     *)
LEMMA MaskBack ==
    \A a, b \in SeqNums : Mask(b + Mask(a - b)) = a
<1> SUFFICES ASSUME NEW a \in SeqNums, NEW b \in SeqNums
             PROVE  Mask(b + Mask(a - b)) = a
  OBVIOUS
<1>1. Mask(a - b) = IF a >= b THEN a - b ELSE a - b + SEQNUM_MAX
  BY MaskCases, SeqNumAssumption DEF SeqNums
<1>2. b + Mask(a - b) = IF a >= b THEN a ELSE a + SEQNUM_MAX
  BY <1>1, SeqNumAssumption DEF SeqNums
<1> QED BY <1>2, MaskCases, SeqNumAssumption DEF SeqNums

LEMMA MaskOnward ==
    \A b \in SeqNums, n \in 1 .. SEQNUM_MAX - 1 : Mask(b + n) # Mask(b + 0)
<1> SUFFICES ASSUME NEW b \in SeqNums, NEW n \in 1 .. SEQNUM_MAX - 1
             PROVE  Mask(b + n) # Mask(b + 0)
  OBVIOUS
<1>1. b \in 0 .. SEQNUM_MAX - 1 /\ SEQNUM_MAX \in Nat /\ n \in 1 .. SEQNUM_MAX - 1
  BY SeqNumAssumption DEF SeqNums
<1> DEFINE x == b + n
           z == b + 0
<1>2. x \in b + 1 .. b + SEQNUM_MAX - 1 /\ x \in 0 .. 2 * SEQNUM_MAX - 1 /\ z = b
  BY <1>1
<1> HIDE DEF x, z
<1>3. Mask(x) \in {x, x - SEQNUM_MAX}
  <2>1. x \in SeqNums \/ x \in SEQNUM_MAX .. 2 * SEQNUM_MAX - 1
    BY <1>1, <1>2 DEF SeqNums
  <2> QED BY <2>1, MaskCases
<1>4. Mask(z) = b
  BY <1>2, MaskCases
<1>5. Mask(x) # Mask(z)
  BY <1>1, <1>2, <1>3, <1>4
<1> QED BY <1>5 DEF x, z

(* What a range test needs of its upper end when the range ends before s.  *)
LEMMA RangeBefore ==
    \A x, s \in SeqNums, n \in 1 .. SEQNUM_MAX - 1 :
        seqnum_in_range(x, Mask(s - n), Mask(s - 1)) <=> Mask(x - s) >= SEQNUM_MAX - n
<1> SUFFICES ASSUME NEW x \in SeqNums, NEW s \in SeqNums, NEW n \in 1 .. SEQNUM_MAX - 1
             PROVE  seqnum_in_range(x, Mask(s - n), Mask(s - 1))
                        <=> Mask(x - s) >= SEQNUM_MAX - n
  OBVIOUS
<1>1. \A k \in 1 .. SEQNUM_MAX - 1 :
         Mask(s - k) = IF s >= k THEN s - k ELSE s - k + SEQNUM_MAX
  BY MaskCases, SeqNumAssumption DEF SeqNums
<1>2. /\ Mask(s - n) = IF s >= n THEN s - n ELSE s - n + SEQNUM_MAX
      /\ Mask(s - 1) = IF s >= 1 THEN s - 1 ELSE s - 1 + SEQNUM_MAX
  BY <1>1, SeqNumAssumption
<1>3. Mask(x - s) = IF x >= s THEN x - s ELSE x - s + SEQNUM_MAX
  BY MaskCases, SeqNumAssumption DEF SeqNums
<1> QED BY <1>2, <1>3, SeqNumAssumption DEF seqnum_in_range, SeqNums
=============================================================================
