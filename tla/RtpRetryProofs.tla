--------------------------- MODULE RtpRetryProofs ---------------------------
(***************************************************************************)
(* Selective repeat gives a transfer up only after MAX_RETRY + 1 timeouts  *)
(* without progress.  (Go-Back-N does not: run gbn_retry.)                 *)
(***************************************************************************)
EXTENDS MCRtpRetry, RtpProofs

(* retransmit_count never runs ahead of the timeouts seen since the window *)
(* moved; the timer is off when it is looked at; and the places where the  *)
(* program may fail for another reason are the handshake, where no block   *)
(* has been read, and the FIN loop, where all are acknowledged.            *)
RetryInv == /\ timeouts \in 0 .. ManyTimeouts
            /\ retransmit_count =< timeouts
            /\ s_pc \in {"fill", "recv"} => ~isTimeout
            /\ s_pc \in {"start", "synWait", "confirm"} => pos = 0
            /\ s_pc = "fin" => AllSent
            /\ GivesUpAfterRetries

(* How timeouts follows a step.                                            *)
LEMMA TimeoutsFollow ==
    ASSUME TypeOK, RetryInv, RetryNext
    PROVE  /\ timeouts' \in 0 .. ManyTimeouts
           /\ base_seq' = base_seq => retransmit_count =< timeouts'
           /\ base_seq' = base_seq /\ TimedOut => Bump(retransmit_count) =< timeouts'
           /\ TimedOut => Bump(0) =< timeouts'
<1>1. /\ timeouts \in 0 .. MAX_RETRY + 1 /\ MAX_RETRY \in Nat \ {0}
      /\ retransmit_count \in 0 .. MAX_RETRY + 1 /\ retransmit_count =< timeouts
  BY WireAssumption DEF TypeOK, SenderTypeOK, RetryInv, ManyTimeouts
<1>2. CASE base_seq' = base_seq
  <2>1. timeouts' = IF TimedOut /\ timeouts < MAX_RETRY + 1 THEN timeouts + 1
                                                            ELSE timeouts
    BY <1>2 DEF RetryNext, ManyTimeouts
  <2> HIDE DEF TimedOut
  <2> QED BY <1>1, <1>2, <2>1 DEF Bump, ManyTimeouts
<1>3. CASE base_seq' # base_seq
  <2>1. timeouts' = IF TimedOut /\ 0 < MAX_RETRY + 1 THEN 0 + 1 ELSE 0
    BY <1>3 DEF RetryNext, ManyTimeouts
  <2> QED BY <1>1, <1>3, <2>1 DEF Bump, ManyTimeouts
<1> QED BY <1>2, <1>3

(* The actions of the sender that leave its counter of retransmissions and *)
(* its base alone.                                                         *)
LEMMA QuietKeepsCount ==
    ASSUME SenderNext, ~RecvTimeout, ~SenderReceive
    PROVE  UNCHANGED <<base_seq, retransmit_count>>
BY DEF SenderNext, SenderStart, SynTimeout, ConfirmTimeout, MainExit, MainAbort,
       MainRound, FillFull, FillEof, FillSend, FinTimeout, ring, loop

(* When the run of acknowledged slots is empty the base stays.             *)
LEMMA SelectiveCount ==
    ASSUME TypeOK, NEW m, NEW intact, RecvSelective(m, intact)
    PROVE  \/ /\ base_seq' = base_seq
              /\ TimerCheck(base_seq' = nextseqnum, retransmit_count)
           \/ TimerCheck(base_seq' = nextseqnum, 0)
<1> DEFINE run == Run([acked EXCEPT ![AckedSlot(m.seq)] = TRUE], head)
<1>1. /\ base_seq' = Mask(base_seq + run)
      /\ TimerCheck(base_seq' = nextseqnum, IF run > 0 THEN 0 ELSE retransmit_count)
  BY DEF RecvSelective
<1>2. run \in 0 .. W /\ W \in Nat
  BY RunType, WType
<1> HIDE DEF run
<1>3. CASE run = 0
  <2>1. base_seq + 0 = base_seq /\ base_seq \in SeqNums
    BY SeqNumAssumption DEF TypeOK, SenderTypeOK, SeqNums
  <2> QED BY <1>1, <1>3, <2>1, MaskCases
<1>4. CASE run # 0
  BY <1>1, <1>2, <1>4
<1> QED BY <1>3, <1>4

LEMMA CountFollows ==
    ASSUME Mode = 1, TypeOK, RetryInv, RetryNext
    PROVE  retransmit_count' =< timeouts'
<1> USE DEF ring, loop
<1>1. /\ timeouts' \in 0 .. ManyTimeouts
      /\ base_seq' = base_seq => retransmit_count =< timeouts'
      /\ base_seq' = base_seq /\ TimedOut => Bump(retransmit_count) =< timeouts'
      /\ TimedOut => Bump(0) =< timeouts'
      /\ 0 =< timeouts'
  <2>1. timeouts' \in 0 .. ManyTimeouts => 0 =< timeouts'
    BY WireAssumption DEF ManyTimeouts
  <2> QED BY <2>1, TimeoutsFollow
<1>2. s_pc = "recv" => ~isTimeout
  BY DEF RetryInv
<1>3. ASSUME NEW stopped, NEW count, TimerCheck(stopped, count), s_pc = "recv"
      PROVE  retransmit_count' = count \/ (retransmit_count' = Bump(count) /\ TimedOut)
  BY <1>2, <1>3 DEF TimerCheck, TimerExpires, TimedOut
<1>4. CASE UNCHANGED <<base_seq, retransmit_count>>
  BY <1>1, <1>4
<1>5. CASE RecvTimeout
  BY <1>1, <1>2, <1>5 DEF RecvTimeout, TimerExpires, TimedOut
<1>6. CASE SenderReceive
  <2> PICK m \in toSender, intact \in Intact :
        \/ SynReceive(m, intact) \/ ConfirmReceive(m, intact)
        \/ RecvSkip(m, intact) \/ RecvStale(m, intact)
        \/ RecvCumulative(m, intact) \/ RecvSelective(m, intact)
        \/ FinReceive(m, intact)
    BY <1>6 DEF SenderReceive
  <2>1. CASE SynReceive(m, intact) \/ ConfirmReceive(m, intact)
               \/ RecvSkip(m, intact) \/ FinReceive(m, intact)
    <3>1. UNCHANGED <<base_seq, retransmit_count>>
      BY <2>1 DEF SynReceive, ConfirmReceive, RecvSkip, FinReceive, senderVars
    <3> QED BY <3>1, <1>4
  <2>2. CASE RecvStale(m, intact)
    <3>1. /\ base_seq' = base_seq /\ s_pc = "recv"
          /\ TimerCheck(FALSE, retransmit_count)
      BY <2>2 DEF RecvStale, RecvAck
    <3> QED BY <1>1, <1>3, <3>1
  <2>3. CASE RecvCumulative(m, intact)
    BY <2>3 DEF RecvCumulative
  <2>4. CASE RecvSelective(m, intact)
    <3>1. s_pc = "recv"
      BY <2>4 DEF RecvSelective, RecvAck
    <3>2. CASE TimerCheck(base_seq' = nextseqnum, 0)
      BY <1>1, <1>3, <3>1, <3>2
    <3>3. CASE /\ base_seq' = base_seq
               /\ TimerCheck(base_seq' = nextseqnum, retransmit_count)
      BY <1>1, <1>3, <3>1, <3>3
    <3> QED BY <2>4, <3>2, <3>3, SelectiveCount
  <2> QED BY <2>1, <2>2, <2>3, <2>4
<1>7. CASE ReceiverStep
  BY <1>4, <1>7 DEF ReceiverStep, senderVars
<1> QED BY <1>4, <1>5, <1>6, <1>7, QuietKeepsCount DEF RetryNext, Next, SenderStep

(* What else RetryInv says: it is plain at each action.                    *)
LEMMA PlacesFollow ==
    ASSUME RetryInv, Next
    PROVE  /\ s_pc' \in {"fill", "recv"} => ~isTimeout'
           /\ s_pc' \in {"start", "synWait", "confirm"} => pos' = 0
           /\ s_pc' = "fin" => AllSent'
           /\ GaveUp' => retransmit_count' > MAX_RETRY \/ (GaveUp /\ UNCHANGED senderVars)
<1> USE DEF ring, loop, AllSent, GaveUp, RetryInv
<1>1. CASE SenderNext /\ ~SenderReceive
  BY <1>1
  DEF SenderNext, SenderStart, SynTimeout, ConfirmTimeout, MainExit, MainAbort,
      MainRound, FillFull, FillEof, FillSend, RecvTimeout, FinTimeout,
      AttemptFailed, TimerExpires
<1>2. CASE SenderReceive
  <2> PICK m \in toSender, intact \in Intact :
        \/ SynReceive(m, intact) \/ ConfirmReceive(m, intact)
        \/ RecvSkip(m, intact) \/ RecvStale(m, intact)
        \/ RecvCumulative(m, intact) \/ RecvSelective(m, intact)
        \/ FinReceive(m, intact)
    BY <1>2 DEF SenderReceive
  <2>1. CASE SynReceive(m, intact)
    BY <2>1 DEF SynReceive, AttemptFailed
  <2>2. CASE ConfirmReceive(m, intact)
    BY <2>2 DEF ConfirmReceive
  <2>3. CASE RecvSkip(m, intact)
    BY <2>3 DEF RecvSkip, senderVars
  <2>4. CASE RecvStale(m, intact)
    BY <2>4 DEF RecvStale, RecvAck, TimerCheck, TimerExpires
  <2>5. CASE RecvCumulative(m, intact)
    BY <2>5 DEF RecvCumulative, RecvAck, TimerCheck, TimerExpires
  <2>6. CASE RecvSelective(m, intact)
    BY <2>6 DEF RecvSelective, RecvAck, TimerCheck, TimerExpires
  <2>7. CASE FinReceive(m, intact)
    BY <2>7 DEF FinReceive, AttemptFailed
  <2> QED BY <2>1, <2>2, <2>3, <2>4, <2>5, <2>6, <2>7
<1>3. CASE ReceiverStep
  BY <1>3 DEF ReceiverStep, senderVars
<1> QED BY <1>1, <1>2, <1>3 DEF Next, SenderStep

LEMMA RetryStep ==
    ASSUME Mode = 1, TypeOK, TypeOK', RetryInv, RetryNext
    PROVE  RetryInv'
<1>1. retransmit_count' =< timeouts' /\ timeouts' \in 0 .. ManyTimeouts
  BY CountFollows, TimeoutsFollow
<1>2. /\ s_pc' \in {"fill", "recv"} => ~isTimeout'
      /\ s_pc' \in {"start", "synWait", "confirm"} => pos' = 0
      /\ s_pc' = "fin" => AllSent'
      /\ GaveUp' => retransmit_count' > MAX_RETRY \/ (GaveUp /\ UNCHANGED senderVars)
  BY PlacesFollow DEF RetryNext
<1>3. GivesUpAfterRetries'
  <2>1. CASE retransmit_count' > MAX_RETRY
    <3>1. /\ retransmit_count' \in 0 .. MAX_RETRY + 1 /\ MAX_RETRY \in Nat
          /\ timeouts' \in 0 .. MAX_RETRY + 1
      BY <1>1, WireAssumption DEF TypeOK, SenderTypeOK, ManyTimeouts
    <3> QED BY <1>1, <2>1, <3>1 DEF GivesUpAfterRetries
  <2>2. CASE GaveUp /\ UNCHANGED senderVars
    <3>1. timeouts > MAX_RETRY
      BY <2>2 DEF RetryInv, GivesUpAfterRetries
    <3>2. timeouts' = timeouts
      BY <2>2, <3>1 DEF RetryNext, TimedOut, senderVars
    <3> QED BY <3>1, <3>2 DEF GivesUpAfterRetries
  <2> QED BY <1>2, <2>1, <2>2 DEF GivesUpAfterRetries
<1> QED BY <1>1, <1>2, <1>3 DEF RetryInv

(* In selective repeat the sender gives a transfer up only when it has     *)
(* timed out more than MAX_RETRY times since its window last moved,        *)
(* whatever the path and the receiver do and whatever the window.          *)
THEOREM SrGivesUpAfterRetries ==
    ASSUME Mode = 1
    PROVE  RetrySpec => []GivesUpAfterRetries
<1>1. RetryInit => TypeInv /\ RetryInv
  <2> SUFFICES ASSUME RetryInit PROVE RetryInv
    BY TypeInit DEF RetryInit
  <2>1. /\ s_pc = "start" /\ pos = 0 /\ retransmit_count = 0 /\ timeouts = 0
    BY DEF RetryInit, Init, SenderInit, SenderAt
  <2> QED BY <2>1, WireAssumption DEF RetryInv, GivesUpAfterRetries, GaveUp, ManyTimeouts
<1>2. TypeInv /\ RetryInv /\ [RetryNext]_<<vars, timeouts>> => (TypeInv /\ RetryInv)'
  <2>1. ASSUME TypeInv, RetryInv, RetryNext
        PROVE  (TypeInv /\ RetryInv)'
    <3>1. TypeInv'
      BY <2>1, TypeSenderStep, TypeReceiverStep DEF RetryNext, Next
    <3> QED BY <2>1, <3>1, RetryStep DEF TypeInv
  <2>2. ASSUME TypeInv, RetryInv, UNCHANGED <<vars, timeouts>>
        PROVE  (TypeInv /\ RetryInv)'
    <3>1. TypeInv'
      BY <2>2, TypeStutter
    <3> QED BY <2>2, <3>1 DEF RetryInv, GivesUpAfterRetries, GaveUp, AllSent, vars,
                              senderVars
  <2> QED BY <2>1, <2>2
<1>3. RetryInv => GivesUpAfterRetries
  BY DEF RetryInv
<1> QED BY <1>1, <1>2, <1>3, PTL DEF RetrySpec
=============================================================================
