--------------------------- MODULE MCSeqNumProofs ---------------------------
(***************************************************************************)
(* The window and range tests of seqnum.h are right wherever the two       *)
(* numbers are on the ring, and the order test is within a lap, for every  *)
(* size of the ring and of the window.                                     *)
(***************************************************************************)
EXTENDS MCSeqNum, SeqNumProofs

(* The difference of the two numbers is that of the positions, give or     *)
(* take a lap; a number is its position with the laps taken off.           *)
RingInv == /\ seq \in SeqNums /\ base \in SeqNums
           /\ nseq \in Nat /\ nbase \in Nat
           /\ win \in 1 .. MaxWin
           /\ Ahead \in -MaxApart .. MaxApart
           /\ seq - base \in {Ahead, Ahead + SEQNUM_MAX, Ahead - SEQNUM_MAX}
           /\ \E q \in Nat : nseq = SEQNUM_MAX * q + seq
           /\ \E q \in Nat : nbase = SEQNUM_MAX * q + base

LEMMA NextForm ==
    \A x \in SeqNums : seqnum_next(x) = IF x = SEQNUM_MAX - 1 THEN 0 ELSE x + 1
BY MaskCases, SeqNumAssumption DEF seqnum_next, SeqNums

(* One advance of a number and of its position.                            *)
LEMMA LapsFollow ==
    ASSUME NEW x \in SeqNums, NEW n \in Nat, \E q \in Nat : n = SEQNUM_MAX * q + x
    PROVE  \E q \in Nat : n + 1 = SEQNUM_MAX * q + seqnum_next(x)
<1>1. PICK q \in Nat : n = SEQNUM_MAX * q + x
  OBVIOUS
<1>2. CASE x = SEQNUM_MAX - 1
  <2>1. n + 1 = SEQNUM_MAX * (q + 1) + 0
    BY <1>1, <1>2, SeqNumAssumption
  <2> QED BY <1>2, <2>1, NextForm
<1>3. CASE x # SEQNUM_MAX - 1
  <2>1. SEQNUM_MAX * q \in Int /\ x \in Int
    BY SeqNumAssumption DEF SeqNums
  <2>2. n + 1 = SEQNUM_MAX * q + (x + 1)
    BY <1>1, <2>1
  <2> QED BY <1>3, <2>2, NextForm
<1> QED BY <1>2, <1>3

LEMMA RingStep ==
    ASSUME RingInv, Next
    PROVE  RingInv'
<1>0. /\ seq \in 0 .. SEQNUM_MAX - 1 /\ base \in 0 .. SEQNUM_MAX - 1
      /\ nseq \in Nat /\ nbase \in Nat /\ SEQNUM_MAX \in Nat /\ SEQNUM_MAX >= 2
      /\ MaxApart \in Nat /\ MaxApart < SEQNUM_MAX
      /\ win \in 1 .. MaxWin
      /\ nseq - nbase \in -MaxApart .. MaxApart
      /\ seq - base \in {nseq - nbase, nseq - nbase + SEQNUM_MAX,
                         nseq - nbase - SEQNUM_MAX}
  BY SeqNumAssumption, WindowAssumption DEF RingInv, Ahead, SeqNums
<1>1. CASE AdvanceSeq
  <2>1. /\ nseq - nbase < MaxApart /\ nseq' = nseq + 1
        /\ base' = base /\ nbase' = nbase /\ win' = win
        /\ seq' = IF seq = SEQNUM_MAX - 1 THEN 0 ELSE seq + 1
    BY <1>1, NextForm DEF AdvanceSeq, RingInv
  <2>2. /\ seq' \in SeqNums /\ nseq' \in Nat
        /\ nseq' - nbase' \in -MaxApart .. MaxApart
        /\ seq' - base' \in {nseq' - nbase', nseq' - nbase' + SEQNUM_MAX,
                             nseq' - nbase' - SEQNUM_MAX}
    BY <1>0, <2>1 DEF SeqNums
  <2>3. \E q \in Nat : nseq' = SEQNUM_MAX * q + seq'
    <3>1. \E q \in Nat : nseq + 1 = SEQNUM_MAX * q + seqnum_next(seq)
      BY LapsFollow DEF RingInv
    <3>2. nseq' = nseq + 1 /\ seq' = seqnum_next(seq)
      BY <1>1 DEF AdvanceSeq
    <3> QED BY <3>1, <3>2
  <2> QED BY <2>1, <2>2, <2>3 DEF RingInv, Ahead
<1>2. CASE AdvanceBase
  <2>1. /\ nbase - nseq < MaxApart /\ nbase' = nbase + 1
        /\ seq' = seq /\ nseq' = nseq /\ win' = win
        /\ base' = IF base = SEQNUM_MAX - 1 THEN 0 ELSE base + 1
    BY <1>2, NextForm DEF AdvanceBase, RingInv
  <2>2. /\ base' \in SeqNums /\ nbase' \in Nat
        /\ nseq' - nbase' \in -MaxApart .. MaxApart
        /\ seq' - base' \in {nseq' - nbase', nseq' - nbase' + SEQNUM_MAX,
                             nseq' - nbase' - SEQNUM_MAX}
    BY <1>0, <2>1 DEF SeqNums
  <2>3. \E q \in Nat : nbase' = SEQNUM_MAX * q + base'
    <3>1. \E q \in Nat : nbase + 1 = SEQNUM_MAX * q + seqnum_next(base)
      BY LapsFollow DEF RingInv
    <3>2. nbase' = nbase + 1 /\ base' = seqnum_next(base)
      BY <1>2 DEF AdvanceBase
    <3> QED BY <3>1, <3>2
  <2> QED BY <2>1, <2>2, <2>3 DEF RingInv, Ahead
<1> QED BY <1>1, <1>2 DEF Next

LEMMA RingInvariant == Spec => []RingInv
<1>1. Init => RingInv
  <2> SUFFICES ASSUME Init PROVE RingInv
    OBVIOUS
  <2>1. 0 = SEQNUM_MAX * 0 + 0 /\ 0 - 0 = 0 /\ 0 \in SeqNums /\ 0 \in -MaxApart .. MaxApart
    BY SeqNumAssumption, WindowAssumption DEF SeqNums
  <2> QED BY <2>1 DEF Init, RingInv, Ahead
<1>2. RingInv /\ [Next]_vars => RingInv'
  <2>1. RingInv /\ UNCHANGED vars => RingInv'
    BY DEF RingInv, Ahead, vars
  <2> QED BY <2>1, RingStep
<1> QED BY <1>1, <1>2, PTL DEF Spec

(* The circular distance, by where the two positions are.                  *)
LEMMA DistanceForm ==
    ASSUME RingInv
    PROVE  /\ Ahead \in 0 .. MaxApart => Mask(seq - base) = Ahead
           /\ Ahead \in -MaxApart .. -1 => Mask(seq - base) = Ahead + SEQNUM_MAX
<1>1. /\ seq \in 0 .. SEQNUM_MAX - 1 /\ base \in 0 .. SEQNUM_MAX - 1
      /\ SEQNUM_MAX \in Nat /\ MaxApart \in Nat /\ MaxApart < SEQNUM_MAX
      /\ Ahead \in -MaxApart .. MaxApart
      /\ seq - base \in {Ahead, Ahead + SEQNUM_MAX, Ahead - SEQNUM_MAX}
  BY SeqNumAssumption, WindowAssumption DEF RingInv, SeqNums
<1>2. Mask(seq - base) = IF seq >= base THEN seq - base ELSE seq - base + SEQNUM_MAX
  BY <1>1, MaskCases, SeqNumAssumption DEF SeqNums
<1> HIDE DEF Ahead
<1> QED BY <1>1, <1>2

LEMMA RingBounds ==
    ASSUME RingInv
    PROVE  /\ SEQNUM_MAX \in Nat /\ MaxApart \in Nat /\ win \in Nat
           /\ 1 =< win /\ win + MaxApart < SEQNUM_MAX
           /\ Ahead \in -MaxApart .. MaxApart
           /\ win \in 1 .. SEQNUM_MAX - 1 /\ win - 1 \in 0 .. SEQNUM_MAX - 1
<1>1. /\ SEQNUM_MAX \in Nat /\ MaxApart \in Nat /\ MaxWin \in Nat
      /\ MaxWin + MaxApart < SEQNUM_MAX /\ win \in 1 .. MaxWin
      /\ Ahead \in -MaxApart .. MaxApart
  BY SeqNumAssumption, WindowAssumption DEF RingInv
<1> HIDE DEF Ahead
<1> QED BY <1>1

(* The window test of an acknowledgement tells the numbers of the window   *)
(* from all others, wherever the window lies on the ring.                  *)
THEOREM WindowTest == Spec => []WindowIsCircular
<1>1. RingInv => WindowIsCircular
  <2> SUFFICES ASSUME RingInv
               PROVE  Mask(seq - base) < win <=> Ahead \in 0 .. win - 1
    BY DEF WindowIsCircular, seq_in_window
  <2> HIDE DEF Ahead
  <2> QED BY RingBounds, DistanceForm
<1> QED BY <1>1, RingInvariant, PTL

(* So do the receiver's tests of its receive window and of the window      *)
(* behind it.                                                              *)
THEOREM RangeTests == Spec => []RangesAreCircular
<1>1. RingInv => RangesAreCircular
  <2> SUFFICES ASSUME RingInv PROVE RangesAreCircular
    OBVIOUS
  <2>1. seq \in SeqNums /\ base \in SeqNums /\ base + win - 1 = base + (win - 1)
    BY RingBounds, SeqNumAssumption DEF RingInv, SeqNums
  <2>2. seqnum_in_range(seq, base, Mask(base + win - 1)) <=> Mask(seq - base) =< win - 1
    BY <2>1, RingBounds, RangeForm
  <2>3. seqnum_in_range(seq, Mask(base - win), Mask(base - 1))
            <=> Mask(seq - base) >= SEQNUM_MAX - win
    BY <2>1, RingBounds, RangeBefore
  <2> HIDE DEF Ahead
  <2>4. Mask(seq - base) =< win - 1 <=> Ahead \in 0 .. win - 1
    BY RingBounds, DistanceForm
  <2>5. Mask(seq - base) >= SEQNUM_MAX - win <=> Ahead \in -win .. -1
    BY RingBounds, DistanceForm
  <2> QED BY <2>2, <2>3, <2>4, <2>5 DEF RangesAreCircular
<1> QED BY <1>1, RingInvariant, PTL

(* A position is its lap and its number.                                   *)
LEMMA LapOf ==
    ASSUME NEW x \in SeqNums, NEW q \in Nat
    PROVE  (SEQNUM_MAX * q + x) \div SEQNUM_MAX = q
<1> DEFINE n == SEQNUM_MAX * q + x
           d == n \div SEQNUM_MAX
<1>1. n \in Nat /\ d \in Nat /\ SEQNUM_MAX * d =< n /\ n < SEQNUM_MAX * d + SEQNUM_MAX
  BY SeqNumAssumption DEF SeqNums
<1>2. x \in Nat /\ x < SEQNUM_MAX
  BY SeqNumAssumption DEF SeqNums
<1>3. \A a, b \in Nat : a < b => SEQNUM_MAX * a + SEQNUM_MAX =< SEQNUM_MAX * b
  BY SeqNumAssumption
<1>4. SEQNUM_MAX * q \in Nat /\ SEQNUM_MAX * d \in Nat /\ SEQNUM_MAX \in Nat
  BY <1>1, SeqNumAssumption
<1> HIDE DEF d
<1>5. ~(d < q)
  BY <1>1, <1>2, <1>3, <1>4
<1>6. ~(q < d)
  BY <1>1, <1>2, <1>3, <1>4
<1> QED BY <1>1, <1>5, <1>6 DEF d

(* Within a lap seqnum_before orders the numbers as they were issued.      *)
THEOREM BeforeTest == Spec => []BeforeWithinLap
<1>1. RingInv => BeforeWithinLap
  <2> SUFFICES ASSUME RingInv, nseq \div SEQNUM_MAX = nbase \div SEQNUM_MAX
               PROVE  seqnum_before(seq, base) <=> nseq < nbase
    BY DEF BeforeWithinLap
  <2>1. seq \in SeqNums /\ base \in SeqNums
    BY DEF RingInv
  <2>2. PICK q \in Nat : nseq = SEQNUM_MAX * q + seq
    BY DEF RingInv
  <2>3. PICK p \in Nat : nbase = SEQNUM_MAX * p + base
    BY DEF RingInv
  <2>4. p = q
    BY <2>1, <2>2, <2>3, LapOf
  <2>5. SEQNUM_MAX * q \in Int /\ seq \in Int /\ base \in Int
    BY <2>1, SeqNumAssumption DEF SeqNums
  <2>6. nseq < nbase <=> seq < base
    BY <2>2, <2>3, <2>4, <2>5
  <2> QED BY <2>1, <2>6, BeforeIsLess
<1> QED BY <1>1, RingInvariant, PTL
=============================================================================
