--------------------------- MODULE FtpFramesProofs ---------------------------
(***************************************************************************)
(* No descriptor of the server is lost: EveryDescriptorServed holds for    *)
(* any clients, number of connections and descriptors, commands, files     *)
(* and faults.  And no session disturbs another: OwnDescriptor,            *)
(* ServerSurvives and BytesInPlace of Ftp, and the types of its variables, *)
(* for any number of clients, connections, descriptors, commands and       *)
(* files, as long as no client is lost.                                    *)
(***************************************************************************)
EXTENDS FtpFrames, TLAPS, SequenceTheorems
-----------------------------------------------------------------------------
(* EveryDescriptorServed is not inductive: that accept starts a thread     *)
(* that was not running, and that a thread inside read is at a place of    *)
(* safe_recv, is in DescriptorInv.                                         *)

(* The places of a thread that is running.                                 *)
Busy == ServerPlaces \ {"idle", "ended"}

ControlTypeOK == /\ t_pc \in [Conns -> ServerPlaces]
                 /\ t_fd \in [Conns -> Fds \union {0}]
                 /\ fds \in [Fds -> Conns \union {NoConn}]
                 /\ reading \in [Conns -> Conns \union {NoConn}]
                 /\ made \in 0 .. MaxConns
                 /\ accepted \in 0 .. made

ReadersReceive == \A t \in Conns : reading[t] # NoConn => t_pc[t] \in RecvPlaces

BusyHasNumber == \A t \in Conns : t_pc[t] \in Busy => t_fd[t] \in Fds

IdleBeforeAccept == listening => \A t \in Conns : t > accepted => t_pc[t] = "idle"

DescriptorInv == /\ ControlTypeOK
                 /\ ReadersReceive
                 /\ BusyHasNumber
                 /\ IdleBeforeAccept
                 /\ EveryDescriptorServed

(* What the steps of a running thread have in common, all but its last: it *)
(* goes on, and the one descriptor it may close is its own number.         *)
GoesOn(t) == /\ t_pc[t] \in Busy
             /\ \E place \in Busy, k \in Conns \union {NoConn} :
                   /\ t_pc' = [t_pc EXCEPT ![t] = place]
                   /\ reading' = [reading EXCEPT ![t] = k]
                   /\ k # NoConn => place \in RecvPlaces
             /\ fds' = fds \/ fds' = Closed(t)
             /\ UNCHANGED <<made, accepted, listening, t_fd>>
-----------------------------------------------------------------------------
(* The constants that matter here are numbers.                             *)
LEMMA Numbers == /\ MaxConns \in Nat /\ MaxFds \in Nat
                 /\ NoConn \notin Conns
BY FtpWireAssumption DEF NoConn, Conns

(* DescriptorInv holds before the first connection.                        *)
LEMMA DescriptorInit == Init => DescriptorInv
<1> SUFFICES ASSUME Init PROVE DescriptorInv
  OBVIOUS
<1>1. ControlTypeOK
  BY Numbers DEF Init, WireInit, ServerInit, ControlTypeOK, ServerPlaces
<1>2. ReadersReceive
  BY DEF Init, WireInit, ReadersReceive
<1>3. IdleBeforeAccept
  BY DEF Init, ServerInit, IdleBeforeAccept
<1>4. EveryDescriptorServed
  BY DEF Init, WireInit, EveryDescriptorServed
<1>5. BusyHasNumber
  BY DEF Init, ServerInit, BusyHasNumber, Busy
<1> QED
  BY <1>1, <1>2, <1>3, <1>4, <1>5 DEF DescriptorInv

(* A thread that goes on still serves what it served.                      *)
LEMMA GoesOnServes ==
    ASSUME DescriptorInv, NEW t \in Conns, GoesOn(t)
    PROVE  DescriptorInv'
<1> USE DEF DescriptorInv
<1>1. PICK place \in Busy, k \in Conns \union {NoConn} :
          /\ t_pc' = [t_pc EXCEPT ![t] = place]
          /\ reading' = [reading EXCEPT ![t] = k]
          /\ k # NoConn => place \in RecvPlaces
  BY DEF GoesOn
<1>2. /\ fds' \in [Fds -> Conns \union {NoConn}]
      /\ \A f \in Fds : fds'[f] = fds[f] \/ fds'[f] = NoConn
  BY DEF GoesOn, Closed, ControlTypeOK
<1>3. UNCHANGED <<made, accepted, listening, t_fd>> /\ t_pc[t] \in Busy
  BY DEF GoesOn
<1>4. ControlTypeOK'
  BY <1>1, <1>2, <1>3 DEF ControlTypeOK, Busy
<1>5. ReadersReceive'
  BY <1>1, <1>3 DEF ReadersReceive, ControlTypeOK
<1>6. IdleBeforeAccept'
  BY <1>1, <1>3 DEF IdleBeforeAccept, ControlTypeOK, Busy
<1>7. EveryDescriptorServed'
  <2> SUFFICES ASSUME NEW f \in Fds, fds'[f] # NoConn
               PROVE  Running(fds[f])' /\ t_fd'[fds'[f]] = f
    BY DEF EveryDescriptorServed
  <2>1. fds'[f] = fds[f] /\ fds[f] \in Conns
    BY <1>2 DEF ControlTypeOK
  <2>2. Running(fds[f]) /\ t_fd[fds[f]] = f
    BY <2>1, Numbers DEF EveryDescriptorServed
  <2>3. t_pc'[fds[f]] \notin {"idle", "ended"}
    BY <1>1, <2>1, <2>2 DEF Running, Busy, ControlTypeOK
  <2> QED
    BY <1>3, <2>1, <2>2, <2>3 DEF Running
<1>8. BusyHasNumber'
  BY <1>1, <1>3 DEF BusyHasNumber, ControlTypeOK
<1> QED
  BY <1>4, <1>5, <1>6, <1>7, <1>8
-----------------------------------------------------------------------------
(* A thread that sends goes on, whether the call fails or not.             *)
LEMMA SendGoesOn ==
    ASSUME DescriptorInv, NEW t \in Conns, t_pc[t] \in SendPlaces,
           NEW units, NEW ok \in Busy, NEW bad \in Busy, NEW closes,
           ServerSends(t, units, ok, bad, closes)
    PROVE  GoesOn(t)
<1>1. /\ t_pc' = [t_pc EXCEPT ![t] = ok] \/ t_pc' = [t_pc EXCEPT ![t] = bad]
      /\ fds' = fds \/ fds' = Closed(t)
      /\ UNCHANGED <<made, accepted, reading, listening, t_fd>>
  BY DEF ServerSends, Jump
<1>2. t_pc[t] \in Busy /\ t_pc[t] \notin RecvPlaces
  BY DEF SendPlaces, Busy, RecvPlaces, ServerPlaces
<1>3. reading[t] = NoConn /\ reading' = [reading EXCEPT ![t] = NoConn]
  BY <1>1, <1>2 DEF DescriptorInv, ReadersReceive, ControlTypeOK
<1> QED
  BY <1>1, <1>2, <1>3 DEF GoesOn

(* So does one that calls no more than the file system.                    *)
LEMMA FileStepGoesOn ==
    ASSUME DescriptorInv, NEW t \in Conns, t_pc[t] \in Busy \ RecvPlaces,
           NEW place \in Busy, t_pc' = [t_pc EXCEPT ![t] = place],
           UNCHANGED <<wire, t_fd>>
    PROVE  GoesOn(t)
<1>1. reading' = [reading EXCEPT ![t] = NoConn]
  BY DEF DescriptorInv, ReadersReceive, ControlTypeOK, wire
<1> QED
  BY <1>1 DEF GoesOn, wire

(* And one whose read has returned, with place as where it goes on.        *)
LEMMA ReadGoesOn ==
    ASSUME DescriptorInv, NEW t \in Conns, t_pc[t] \in RecvPlaces,
           NEW place \in Busy, t_pc' = [t_pc EXCEPT ![t] = place],
           reading' = [reading EXCEPT ![t] = NoConn],
           fds' = fds \/ fds' = Closed(t),
           UNCHANGED <<made, accepted, listening, t_fd>>
    PROVE  GoesOn(t)
BY DEF GoesOn, RecvPlaces, Busy, ServerPlaces
-----------------------------------------------------------------------------
(* The reads of safe_recv.                                                 *)
LEMMA ReadsGoOn ==
    ASSUME DescriptorInv, NEW t \in Conns
    PROVE  EnterRead(t) \/ ReadClosedFd(t) \/ ReadReset(t) \/ ReadEof(t) \/ ReadPart(t)
               => GoesOn(t)
<1>1. RecvPlaces \subseteq Busy /\ AfterShortRead(t) \in Busy
  BY DEF RecvPlaces, Busy, ServerPlaces, AfterShortRead
<1>2. reading[t] # NoConn => t_pc[t] \in RecvPlaces
  BY DEF DescriptorInv, ReadersReceive
<1>3. t_pc = [t_pc EXCEPT ![t] = t_pc[t]]
  BY DEF DescriptorInv, ControlTypeOK
<1>4. ASSUME EnterRead(t) PROVE GoesOn(t)
  <2>1. /\ t_pc[t] \in RecvPlaces
        /\ fds[t_fd[t]] \in Conns \union {NoConn}
        /\ reading' = [reading EXCEPT ![t] = fds[t_fd[t]]]
    <3>1. t_pc[t] \in RecvPlaces /\ t_fd[t] \in Fds
      BY <1>1, <1>4 DEF EnterRead, DescriptorInv, BusyHasNumber
    <3> QED
      BY <1>4, <3>1 DEF EnterRead, DescriptorInv, ControlTypeOK
  <2> QED
    BY <1>1, <1>3, <1>4, <2>1 DEF EnterRead, GoesOn, clientSide
<1>5. ASSUME ReadClosedFd(t) PROVE GoesOn(t)
  BY <1>1, <1>5, ReadGoesOn DEF ReadClosedFd, ShortRead, Jump, clientSide
<1>6. ASSUME ReadReset(t) PROVE GoesOn(t)
  BY <1>1, <1>2, <1>6, ReadGoesOn DEF ReadReset, ShortRead, Jump, clientSide
<1>7. ASSUME ReadEof(t) PROVE GoesOn(t)
  BY <1>1, <1>2, <1>7, ReadGoesOn DEF ReadEof, ShortRead, Jump, clientSide
<1>8. ASSUME ReadPart(t) PROVE GoesOn(t)
  <2>1. /\ t_pc' = t_pc /\ t_pc[t] \in RecvPlaces
        /\ reading' = [reading EXCEPT ![t] = NoConn]
        /\ UNCHANGED <<made, accepted, fds, listening, t_fd>>
    BY <1>2, <1>8 DEF ReadPart, Takes
  <2> QED
    BY <1>1, <1>3, <2>1 DEF GoesOn
<1> QED
  BY <1>4, <1>5, <1>6, <1>7, <1>8

(* Where a whole message has been read.                                    *)
LEMMA MessagesGoOn ==
    ASSUME DescriptorInv, NEW t \in Conns
    PROVE  ReadRequest(t) \/ ReadPayload(t) \/ ReadPutHeader(t) \/ ReadPutBody(t)
               => GoesOn(t)
<1>1. ASSUME NEW place \in RecvPlaces, ReadAll(t, place)
      PROVE  /\ t_pc[t] \in RecvPlaces
             /\ reading' = [reading EXCEPT ![t] = NoConn]
             /\ UNCHANGED <<made, accepted, fds, listening, t_fd>>
  BY <1>1 DEF ReadAll, Takes
<1>2. {"request", "payload", "putHeader", "putBody"} = RecvPlaces
  BY DEF RecvPlaces
<1>3. {"request", "payload", "putHeader", "putBody", "reply", "close", "putOpen"} \subseteq Busy
  BY DEF Busy, ServerPlaces, RecvPlaces, SendPlaces
<1>4. ASSUME ReadRequest(t) PROVE GoesOn(t)
  <2>1. \E place \in Busy : t_pc' = [t_pc EXCEPT ![t] = place]
    BY <1>3, <1>4 DEF ReadRequest, Jump
  <2> QED
    BY <1>1, <1>2, <1>4, <2>1, ReadGoesOn DEF ReadRequest
<1>5. ASSUME ReadPayload(t) PROVE GoesOn(t)
  BY <1>1, <1>2, <1>3, <1>5, ReadGoesOn DEF ReadPayload, Jump
<1>6. ASSUME ReadPutHeader(t) PROVE GoesOn(t)
  <2>1. \E place \in Busy : t_pc' = [t_pc EXCEPT ![t] = place]
    BY <1>3, <1>6 DEF ReadPutHeader, Jump
  <2> QED
    BY <1>1, <1>2, <1>6, <2>1, ReadGoesOn DEF ReadPutHeader
<1>7. ASSUME ReadPutBody(t) PROVE GoesOn(t)
  BY <1>1, <1>2, <1>3, <1>7, ReadGoesOn DEF ReadPutBody, Jump
<1> QED
  BY <1>4, <1>5, <1>6, <1>7

(* The handlers, at their reply.                                           *)
LEMMA HandlersGoOn ==
    ASSUME DescriptorInv, NEW t \in Conns
    PROVE  \/ handle_open_conn_request(t) \/ handle_quit_request(t)
           \/ handle_ls_request(t) \/ LsFails(t) \/ handle_cd_request(t)
           \/ handle_get(t) \/ handle_put(t) \/ handle_sha256(t)
           => GoesOn(t)
<1>1. {"request", "close", "listing", "readFile", "putHeader"} \subseteq Busy
  BY DEF Busy, ServerPlaces, RecvPlaces, SendPlaces
<1>2. ASSUME NEW request, NEW header, NEW ok \in Busy, NEW bad \in Busy,
             Replies(t, request, header, ok, bad)
      PROVE  GoesOn(t)
  BY <1>2, SendGoesOn DEF Replies, SendPlaces
<1>3. ASSUME handle_open_conn_request(t) PROVE GoesOn(t)
  BY <1>1, <1>2, <1>3 DEF handle_open_conn_request
<1>4. ASSUME handle_quit_request(t) PROVE GoesOn(t)
  BY <1>1, <1>2, <1>4 DEF handle_quit_request, AfterQuit
<1>5. ASSUME handle_ls_request(t) PROVE GoesOn(t)
  BY <1>1, <1>2, <1>5 DEF handle_ls_request
<1>6. ASSUME LsFails(t) PROVE GoesOn(t)
  <2>1. t_pc[t] \in Busy \ RecvPlaces
    BY <1>6 DEF LsFails, Busy, RecvPlaces, SendPlaces, ServerPlaces
  <2> QED
    BY <1>1, <1>6, <2>1, FileStepGoesOn DEF LsFails, Jump
<1>7. ASSUME handle_cd_request(t) PROVE GoesOn(t)
  BY <1>1, <1>2, <1>7 DEF handle_cd_request
<1>8. ASSUME handle_get(t) PROVE GoesOn(t)
  <2>1. (IF FileThere(t) THEN "readFile" ELSE "request") \in Busy
    BY <1>1
  <2> QED
    BY <1>1, <1>2, <1>8, <2>1 DEF handle_get
<1>9. ASSUME handle_put(t) PROVE GoesOn(t)
  BY <1>1, <1>2, <1>9 DEF handle_put
<1>10. ASSUME handle_sha256(t) PROVE GoesOn(t)
  <2>1. (IF FileThere(t) THEN "readFile" ELSE "request") \in Busy
    BY <1>1
  <2> QED
    BY <1>1, <1>2, <1>10, <2>1 DEF handle_sha256
<1> QED
  BY <1>3, <1>4, <1>5, <1>6, <1>7, <1>8, <1>9, <1>10
(* The files, and the messages sent from them.                             *)
LEMMA TransfersGoOn ==
    ASSUME DescriptorInv, NEW t \in Conns
    PROVE  \/ ReadFile(t) \/ Sha256Sum(t) \/ ReadFileFails(t)
           \/ SendDataHeader(t) \/ SendDataBody(t) \/ SendListing(t)
           \/ PutOpen(t) \/ PutWrite(t)
           => GoesOn(t)
<1>1. /\ {"request", "close", "dataHeader", "dataBody", "putWrite"} \subseteq Busy
      /\ {"readFile", "putOpen", "putWrite"} \subseteq Busy \ RecvPlaces
      /\ {"dataHeader", "dataBody", "listing"} = SendPlaces \ {"reply"}
  BY DEF Busy, ServerPlaces, RecvPlaces, SendPlaces
<1>2. t_pc = [t_pc EXCEPT ![t] = t_pc[t]]
  BY DEF DescriptorInv, ControlTypeOK
<1>3. ASSUME NEW place \in {"readFile", "putOpen", "putWrite"}, WithFile(t, place),
             \E next \in Busy : t_pc' = [t_pc EXCEPT ![t] = next]
      PROVE  GoesOn(t)
  <2>1. t_pc[t] \in Busy \ RecvPlaces /\ UNCHANGED <<wire, t_fd>>
    BY <1>1, <1>3 DEF WithFile
  <2> QED
    BY <1>3, <2>1, FileStepGoesOn
<1>4. ASSUME ReadFile(t) PROVE GoesOn(t)
  <2>1. WithFile(t, "readFile") /\ t_pc[t] = "readFile"
    BY <1>4 DEF ReadFile, WithFile
  <2>2. t_pc' = t_pc \/ t_pc' = [t_pc EXCEPT ![t] = "dataHeader"]
    BY <1>4 DEF ReadFile, Jump
  <2> QED
    BY <1>1, <1>2, <1>3, <2>1, <2>2
<1>5. ASSUME Sha256Sum(t) PROVE GoesOn(t)
  BY <1>1, <1>3, <1>5 DEF Sha256Sum, Jump
<1>6. ASSUME ReadFileFails(t) PROVE GoesOn(t)
  BY <1>1, <1>3, <1>6 DEF ReadFileFails, Jump
<1>7. Then(t) \in Busy
  BY <1>1 DEF Then
<1>8. ASSUME SendDataHeader(t) PROVE GoesOn(t)
  <2>1. (IF t_buf[t] = <<>> THEN "request" ELSE "dataBody") \in Busy
    BY <1>1
  <2> QED
    BY <1>1, <1>7, <1>8, <2>1, SendGoesOn DEF SendDataHeader
<1>9. ASSUME SendDataBody(t) PROVE GoesOn(t)
  BY <1>1, <1>7, <1>9, SendGoesOn DEF SendDataBody
<1>10. ASSUME SendListing(t) PROVE GoesOn(t)
  BY <1>1, <1>10, SendGoesOn DEF SendListing
<1>11. ASSUME PutOpen(t) PROVE GoesOn(t)
  <2>1. WithFile(t, "putOpen")
    BY <1>11 DEF PutOpen
  <2>2. \/ t_pc' = [t_pc EXCEPT ![t] = "request"]
        \/ t_pc' = [t_pc EXCEPT ![t] = "putWrite"]
    BY <1>11 DEF PutOpen, Jump
  <2> QED
    BY <1>1, <1>3, <2>1, <2>2
<1>12. ASSUME PutWrite(t) PROVE GoesOn(t)
  BY <1>1, <1>3, <1>12 DEF PutWrite, Jump
<1> QED
  BY <1>4, <1>5, <1>6, <1>8, <1>9, <1>10, <1>11, <1>12
-----------------------------------------------------------------------------
(* The end of a thread: the number it closes is the only one that can      *)
(* stand for its connection.                                               *)
LEMMA CloseServes ==
    ASSUME DescriptorInv, NEW t \in Conns, CloseFd(t)
    PROVE  DescriptorInv'
<1>1. /\ t_pc[t] = "close" /\ t_pc' = [t_pc EXCEPT ![t] = "ended"]
      /\ fds' = [fds EXCEPT ![t_fd[t]] = NoConn]
      /\ UNCHANGED <<made, accepted, reading, listening, t_fd>>
  BY DEF CloseFd, Closed, Jump, clientSide
<1>2. ControlTypeOK'
  BY <1>1 DEF DescriptorInv, ControlTypeOK, ServerPlaces
<1>3. ReadersReceive'
  BY <1>1 DEF DescriptorInv, ControlTypeOK, ReadersReceive, RecvPlaces
<1>4. BusyHasNumber'
  BY <1>1 DEF DescriptorInv, ControlTypeOK, BusyHasNumber, Busy
<1>5. IdleBeforeAccept'
  BY <1>1 DEF DescriptorInv, ControlTypeOK, IdleBeforeAccept
<1>6. EveryDescriptorServed'
  <2> SUFFICES ASSUME NEW f \in Fds, fds'[f] # NoConn
               PROVE  Running(fds[f])' /\ t_fd'[fds'[f]] = f
    BY DEF EveryDescriptorServed
  <2>1. f # t_fd[t] /\ fds'[f] = fds[f] /\ fds[f] \in Conns
    BY <1>1 DEF DescriptorInv, ControlTypeOK
  <2>2. Running(fds[f]) /\ t_fd[fds[f]] = f
    BY <2>1, Numbers DEF DescriptorInv, EveryDescriptorServed
  <2> QED
    BY <1>1, <2>1, <2>2 DEF Running, DescriptorInv, ControlTypeOK
<1> QED
  BY <1>2, <1>3, <1>4, <1>5, <1>6 DEF DescriptorInv

(* The accept loop gives a free number to a thread that was not running.   *)
LEMMA AcceptServes ==
    ASSUME DescriptorInv, Accept
    PROVE  DescriptorInv'
<1> DEFINE new == accepted + 1
<1>1. PICK f \in Fds : /\ fds[f] = NoConn
                       /\ fds' = [fds EXCEPT ![f] = new]
                       /\ t_fd' = [t_fd EXCEPT ![new] = f]
  BY DEF Accept
<1>2. /\ accepted' = new /\ listening
      /\ t_pc' = [t_pc EXCEPT ![new] = "request"]
      /\ UNCHANGED <<made, reading, listening>>
  BY DEF Accept, Jump, clientSide
<1>3. new \in Conns /\ new \in 0 .. made
  BY Numbers DEF Accept, Queued, DescriptorInv, ControlTypeOK, Conns
<1>4. t_pc[new] = "idle"
  BY <1>2, <1>3 DEF DescriptorInv, ControlTypeOK, IdleBeforeAccept
<1>5. ControlTypeOK'
  BY <1>1, <1>2, <1>3 DEF DescriptorInv, ControlTypeOK, ServerPlaces, RecvPlaces
<1>6. ReadersReceive'
  BY <1>2, <1>3 DEF DescriptorInv, ControlTypeOK, ReadersReceive, RecvPlaces
<1>7. BusyHasNumber'
  BY <1>1, <1>2, <1>3 DEF DescriptorInv, ControlTypeOK, BusyHasNumber
<1>8. IdleBeforeAccept'
  BY <1>2, <1>3 DEF DescriptorInv, ControlTypeOK, IdleBeforeAccept, Conns
<1>9. EveryDescriptorServed'
  <2> SUFFICES ASSUME NEW g \in Fds, fds'[g] # NoConn
               PROVE  Running(fds[g])' /\ t_fd'[fds'[g]] = g
    BY DEF EveryDescriptorServed
  <2>1. CASE g = f
    BY <1>1, <1>2, <1>3, <2>1 DEF DescriptorInv, ControlTypeOK, Running
  <2>2. CASE g # f
    <3>1. fds'[g] = fds[g] /\ fds[g] \in Conns
      BY <1>1, <2>2 DEF DescriptorInv, ControlTypeOK
    <3>2. Running(fds[g]) /\ t_fd[fds[g]] = g
      BY <3>1, Numbers DEF DescriptorInv, EveryDescriptorServed
    <3>3. fds[g] # new
      BY <1>4, <3>2 DEF Running
    <3> QED
      BY <1>1, <1>2, <3>1, <3>2, <3>3 DEF DescriptorInv, ControlTypeOK, Running
  <2> QED
    BY <2>1, <2>2
<1> QED
  BY <1>5, <1>6, <1>7, <1>8, <1>9 DEF DescriptorInv

(* With the process all its descriptors are gone.                          *)
LEMMA BrokenPipeServes ==
    ASSUME DescriptorInv, NEW t \in Conns, BrokenPipe(t)
    PROVE  DescriptorInv'
<1>1. /\ listening' = FALSE /\ accepted' = made
      /\ fds' = [f \in Fds |-> NoConn]
      /\ reading' = [r \in Conns |-> NoConn]
      /\ t_pc' = [r \in Conns |-> "ended"]
      /\ UNCHANGED <<made, t_fd>>
  BY DEF BrokenPipe, clientSide
<1>2. ControlTypeOK'
  BY <1>1, Numbers DEF DescriptorInv, ControlTypeOK, ServerPlaces
<1> QED
  BY <1>1, <1>2 DEF DescriptorInv, ReadersReceive, BusyHasNumber, Busy, IdleBeforeAccept,
                    EveryDescriptorServed
-----------------------------------------------------------------------------
(* What a client does to the server's side of the wire: it may connect.    *)
Connects == /\ UNCHANGED <<accepted, fds, reading, listening>>
            /\ made' = made \/ (made < MaxConns /\ made' = made + 1)

LEMMA ProgramConnects ==
    ASSUME NEW c \in Clients, ProgramStep(c)
    PROVE  Connects
<1> USE DEF Connects, serverSide
<1>1. CASE SendName(c)
  BY <1>1 DEF SendName
<1>2. CASE \/ OpenReply(c) \/ QuitReply(c) \/ LsReply(c) \/ CdReply(c)
           \/ GetReply(c) \/ PutReply(c) \/ ShaReply(c)
           \/ GetHeader(c) \/ ShaHeader(c)
           \/ GetBody(c) \/ LsBody(c) \/ ShaBody(c)
  <2>1. \E place, cmd : Awaits(c, place, cmd)
    BY <1>2 DEF OpenReply, QuitReply, LsReply, CdReply, GetReply, PutReply, ShaReply,
                GetHeader, ShaHeader, GetBody, LsBody, ShaBody
  <2> QED
    BY <2>1 DEF Awaits
<1>3. CASE FileHeader(c) \/ FileBody(c)
  BY <1>3 DEF FileHeader, FileBody
<1> QED
  BY <1>1, <1>2, <1>3 DEF ProgramStep

LEMMA UserConnects ==
    ASSUME NEW c \in Clients, UserStep(c)
    PROVE  Connects
<1> USE DEF Connects, serverSide
<1>1. CASE Open(c)
  BY <1>1 DEF Open
<1>2. CASE OpenRefused(c) \/ PutMissing(c)
  BY <1>2 DEF OpenRefused, PutMissing, wire
<1>3. CASE Exit(c) \/ Killed(c)
  BY <1>3 DEF Exit, Killed, Gone
<1>4. CASE Quit(c) \/ Ls(c) \/ Cd(c) \/ Get(c) \/ Put(c) \/ Sha256(c)
  <2>1. \E cmd, units : Command(c, cmd, units)
    BY <1>4 DEF Quit, Ls, Cd, Get, Put, Sha256, NamesFile
  <2> QED
    BY <2>1 DEF Command
<1> QED
  BY <1>1, <1>2, <1>3, <1>4 DEF UserStep

LEMMA ConnectServes ==
    ASSUME DescriptorInv, Connects, UNCHANGED serverVars
    PROVE  DescriptorInv'
<1>1. UNCHANGED <<t_pc, t_fd, accepted, fds, reading, listening>>
  BY DEF Connects, serverVars
<1>2. ControlTypeOK'
  BY <1>1, Numbers DEF DescriptorInv, ControlTypeOK, Connects
<1> QED
  BY <1>1, <1>2 DEF DescriptorInv, ReadersReceive, BusyHasNumber, IdleBeforeAccept,
                    EveryDescriptorServed, Running

(* Every step of the system keeps DescriptorInv.                           *)
LEMMA DescriptorNext == DescriptorInv /\ [Next]_vars => DescriptorInv'
<1> SUFFICES ASSUME DescriptorInv, [Next]_vars PROVE DescriptorInv'
  OBVIOUS
<1>1. CASE AcceptStep
  BY <1>1, AcceptServes DEF AcceptStep
<1>2. ASSUME NEW c \in Clients, ClientStep(c) PROVE DescriptorInv'
  BY <1>2, ProgramConnects, ConnectServes DEF ClientStep
<1>3. ASSUME NEW c \in Clients, UserStep(c), UNCHANGED serverVars PROVE DescriptorInv'
  BY <1>3, UserConnects, ConnectServes
<1>4. ASSUME NEW t \in Conns, ServerStep(t) PROVE DescriptorInv'
  <2>1. CASE CloseFd(t)
    BY <2>1, CloseServes
  <2>2. CASE ~CloseFd(t)
    <3>1. GoesOn(t)
      BY <1>4, <2>2, ReadsGoOn, MessagesGoOn, HandlersGoOn, TransfersGoOn
         DEF ServerStep, ThreadStep
    <3> QED
      BY <3>1, GoesOnServes
  <2> QED
    BY <2>1, <2>2
<1>5. ASSUME NEW t \in Conns, BrokenPipe(t) PROVE DescriptorInv'
  BY <1>5, BrokenPipeServes
<1>6. CASE UNCHANGED vars
  <2>1. Connects /\ UNCHANGED serverVars
    BY <1>6 DEF vars, wire, serverVars, Connects
  <2> QED
    BY <2>1, ConnectServes
<1> QED
  BY <1>1, <1>2, <1>3, <1>4, <1>5, <1>6 DEF Next

(* Behind every descriptor of the server there is a running thread that    *)
(* holds its number and closes it when it ends: whatever clients do, how   *)
(* often safe_recv, safe_send and other threads close the number, and      *)
(* which handler fails, no descriptor leaks.                               *)
THEOREM DescriptorsServed == Spec => []EveryDescriptorServed
<1>1. DescriptorInv => EveryDescriptorServed
  BY DEF DescriptorInv
<1> QED
  BY <1>1, DescriptorInit, DescriptorNext, PTL DEF Spec
-----------------------------------------------------------------------------
(* Streams.  The units of a file are no heads, those of a header are units *)
LEMMA RawUnits == Raw \subseteq Units /\ \A u \in Raw, i \in {1, 2} : ~IsPart(u, i)
<1>1. \A u \in Raw : DOMAIN u = {"byte"}
  BY DEF Raw
<1> QED BY <1>1 DEF Raw, Units, IsPart

LEMMA ShortUnits ==
    ASSUME NEW b \in Short
    PROVE  b \in Seq(Raw) /\ b \in Seq(Units) /\ Len(b) \in 0 .. Longest
<1>1. b \in Seq(Raw) /\ Len(b) =< Longest
  BY DEF Short
<1>2. b \in Seq(Units)
  BY <1>1, RawUnits, SeqMonotonic
<1>3. Len(b) \in Nat /\ Longest \in Int
  BY <1>1, FtpWireAssumption DEF Longest, HeaderLen
<1> QED BY <1>1, <1>2, <1>3

LEMMA MixedShort == Mixed \subseteq Short
BY DEF Mixed

LEMMA EmptyMixed == 0 =< Longest => <<>> \in Mixed
BY EmptySeq DEF Short, Mixed

LEMMA DataRaw == \A b \in Bytes \union Dirs \union FileNames \union {"digest", "NUL"} : Data(b) \in Raw
BY DEF Data, Raw

(* What a header says.                                                     *)
LEMMA LengthKept ==
    ASSUME NEW n \in 0 .. Longest
    PROVE  htonl(HeaderLen + n) \in Nat /\ ntohl(htonl(HeaderLen + n)) - HeaderLen = n
<1> DEFINE m == HeaderLen + n
           q == m \div Radix
           r == m % Radix
           x == r * Radix + q
<1>1. Radix \in Nat /\ Radix > 0
  BY FtpWireAssumption
<1>2. m \in Nat /\ m < Radix * Radix /\ Radix * Radix \in Nat
  <2>1. Radix * Radix \in Nat /\ n \in Nat /\ n =< Radix * Radix - 2 - 1
    BY <1>1 DEF Longest, HeaderLen
  <2> QED BY <2>1 DEF HeaderLen
<1> HIDE DEF m
<1>3. q \in Nat /\ r \in Nat /\ r < Radix /\ m = Radix * q + r
  BY <1>1, <1>2
<1>4. q < Radix
  <2>1. \A a \in Nat : a >= Radix => Radix * a >= Radix * Radix
    BY <1>1
  <2>2. Radix * q \in Nat
    BY <1>1, <1>3
  <2> QED BY <1>1, <1>2, <1>3, <2>1, <2>2
<1>5. x \in Nat
  BY <1>1, <1>3
<1> HIDE DEF q, r
<1>6. x \div Radix = r /\ x % Radix = q
  BY <1>1, <1>3, <1>4
<1>7. htonl(m) = x /\ ntohl(x) = q * Radix + r
  BY <1>6 DEF htonl, ntohl, q, r
<1> QED BY <1>1, <1>2, <1>3, <1>5, <1>7 DEF m, HeaderLen

LEMMA HeaderUnits ==
    ASSUME NEW type \in Types, NEW status \in Statuses, NEW n \in 0 .. Longest
    PROVE  LET m == Header(type, status, n)
           IN  /\ m \in Seq(Units) /\ Len(m) = 2
               /\ ~IsHead(m[1]) /\ IsHead(m[2])
               /\ m[2].hdr.type = type /\ m[2].hdr.status = status
               /\ PayloadLen(m[2].hdr) = n
               /\ MagicOk(m) /\ HeaderIn(m) = m[2].hdr
<1> DEFINE h == [type |-> type, status |-> status, length |-> htonl(HeaderLen + n)]
           m == Header(type, status, n)
           p == [hdr |-> h, part |-> 1]
           u == [hdr |-> h, part |-> 2]
<1>1. h \in [type : Types, status : Statuses, length : Nat]
  BY LengthKept
<1>2. p \in Units /\ u \in Units
  BY <1>1 DEF Units
<1>3. m = <<p, u>>
  BY DEF Header
<1>4. IsPart(p, 1) /\ ~IsPart(p, 2) /\ IsPart(u, 2)
  BY DEF IsPart
<1>5. u.hdr.type = type /\ u.hdr.status = status /\ PayloadLen(u.hdr) = n
  BY LengthKept DEF PayloadLen
<1> HIDE DEF m, p, u
<1>6. m \in Seq(Units) /\ Len(m) = 2 /\ m[1] = p /\ m[2] = u /\ m # <<>>
  BY <1>2, <1>3
<1> QED BY <1>4, <1>5, <1>6 DEF m, IsHead, MagicOk, HeaderIn, HeaderLen
-----------------------------------------------------------------------------
(* What is read and what is left                                           *)
LEMMA Split ==
    ASSUME NEW S, NEW s \in Seq(S), NEW n \in 0 .. Len(s)
    PROVE  /\ First(s, n) \in Seq(S) /\ Len(First(s, n)) = n
           /\ After(s, n) \in Seq(S) /\ Len(After(s, n)) = Len(s) - n
           /\ First(s, n) \o After(s, n) = s
<1>1. Len(s) \in Nat /\ n \in Nat /\ n =< Len(s)
  BY LenProperties
<1>2. \A i \in 1 .. Len(s) : s[i] \in S
  BY ElementOfSeq
<1>3. First(s, n) \in Seq(S) /\ Len(First(s, n)) = n
  <2>1. \A i \in 1 .. n : s[i] \in S
    BY <1>1, <1>2
  <2>2. /\ SubSeq(s, 1, n) \in Seq(S)
        /\ Len(SubSeq(s, 1, n)) = IF 1 =< n THEN n - 1 + 1 ELSE 0
    BY <1>1, <2>1, SubSeqProperties
  <2> QED BY <1>1, <2>2 DEF First
<1>4. After(s, n) \in Seq(S) /\ Len(After(s, n)) = Len(s) - n
  <2>1. \A i \in n + 1 .. Len(s) : s[i] \in S
    BY <1>1, <1>2
  <2>2. /\ SubSeq(s, n + 1, Len(s)) \in Seq(S)
        /\ Len(SubSeq(s, n + 1, Len(s)))
             = IF n + 1 =< Len(s) THEN Len(s) - (n + 1) + 1 ELSE 0
    BY <1>1, <2>1, SubSeqProperties
  <2> QED BY <1>1, <2>2 DEF After
<1>5. First(s, n) \o After(s, n) = s
  <2>1. SubSeq(s, 1, n) \o SubSeq(s, n + 1, Len(s)) = SubSeq(s, 1, Len(s))
    <3>1. 1 \in 1 .. Len(s) + 1 /\ n \in 1 - 1 .. Len(s) /\ Len(s) \in n .. Len(s)
      BY <1>1
    <3> QED BY <3>1, ConcatAdjacentSubSeq
  <2> QED BY <2>1, SubSeqFull DEF First, After
<1> QED BY <1>3, <1>4, <1>5

(* Two streams one behind the other                                        *)
LEMMA Joined ==
    ASSUME NEW S, NEW s \in Seq(S), NEW u \in Seq(S)
    PROVE  /\ s \o u \in Seq(S)
           /\ Len(s \o u) = Len(s) + Len(u)
           /\ Len(s) \in Nat /\ Len(u) \in Nat
           /\ DOMAIN s = 1 .. Len(s) /\ DOMAIN u = 1 .. Len(u)
           /\ DOMAIN (s \o u) = 1 .. Len(s) + Len(u)
           /\ \A i \in 1 .. Len(s) : (s \o u)[i] = s[i]
           /\ \A i \in 1 .. Len(u) : (s \o u)[Len(s) + i] = u[i]
<1>1. /\ s \o u \in Seq(S)
      /\ Len(s \o u) = Len(s) + Len(u)
      /\ \A i \in 1 .. Len(s) + Len(u) :
            (s \o u)[i] = IF i <= Len(s) THEN s[i] ELSE u[i - Len(s)]
  BY ConcatProperties
<1>2. Len(s) \in Nat /\ Len(u) \in Nat /\ DOMAIN s = 1 .. Len(s) /\ DOMAIN u = 1 .. Len(u)
  BY LenProperties
<1>3. DOMAIN (s \o u) = 1 .. Len(s) + Len(u)
  BY <1>1, LenProperties
<1>4. \A i \in 1 .. Len(s) : (s \o u)[i] = s[i]
  BY <1>1, <1>2
<1>5. \A i \in 1 .. Len(u) : (s \o u)[Len(s) + i] = u[i]
  BY <1>1, <1>2
<1> QED BY <1>1, <1>2, <1>3, <1>4, <1>5

LEMMA Chained ==
    \A x, y, z \in Seq(Units) : (x \o y) \o z = x \o (y \o z)
BY ConcatAssociative

LEMMA Chains ==
    \A x, y \in Seq(Units) : x \o y \in Seq(Units) /\ x \o <<>> = x
<1>1. \A x, y \in Seq(Units) : x \o y \in Seq(Units)
  BY Joined
<1>2. \A x \in Seq(Units) : x \o <<>> = x
  BY ConcatEmptySeq
<1> QED BY <1>1, <1>2

LEMMA FileKept ==
    ASSUME NEW s \in Seq(Units), NEW u \in Seq(Units), NEW i \in Nat, NEW n, FileAt(s, i, n)
    PROVE  FileAt(s \o u, i, n)
<1>1. n \in Int /\ n >= 0 /\ i + n =< Len(s) /\ Len(s) \in Nat /\ Len(u) \in Nat
      /\ Len(s \o u) = Len(s) + Len(u)
  BY Joined, FtpWireAssumption DEF FileAt, Longest, HeaderLen
<1>2. \A j \in i + 1 .. i + n : j \in 1 .. Len(s) /\ s[j] \in UnitsAt(j - i)
  BY <1>1 DEF FileAt
<1>3. \A j \in i + 1 .. i + n : (s \o u)[j] \in UnitsAt(j - i)
  BY <1>2, Joined
<1>4. i + n =< Len(s \o u)
  BY <1>1
<1> QED BY <1>3, <1>4 DEF FileAt

LEMMA FileMoved ==
    ASSUME NEW s \in Seq(Units), NEW u \in Seq(Units), NEW i \in Nat, NEW n,
           n \in 0 .. Longest
    PROVE  FileAt(s \o u, Len(s) + i, n) <=> FileAt(u, i, n)
<1>1. /\ n \in Nat /\ Len(s) \in Nat /\ Len(u) \in Nat /\ Len(s \o u) = Len(s) + Len(u)
      /\ Len(s) + i + n =< Len(s \o u) <=> i + n =< Len(u)
  BY Joined, FtpWireAssumption DEF Longest, HeaderLen
<1>2. ASSUME i + n =< Len(u)
      PROVE  (\A j \in Len(s) + i + 1 .. Len(s) + i + n : (s \o u)[j] \in UnitsAt(j - (Len(s) + i)))
                <=> (\A j \in i + 1 .. i + n : u[j] \in UnitsAt(j - i))
  <2>1. \A j \in i + 1 .. i + n : j \in 1 .. Len(u) /\ Len(s) + j \in Len(s) + i + 1 .. Len(s) + i + n
    BY <1>1, <1>2
  <2>2. \A j \in Len(s) + i + 1 .. Len(s) + i + n :
           /\ j - Len(s) \in i + 1 .. i + n /\ j = Len(s) + (j - Len(s))
           /\ j - (Len(s) + i) = (j - Len(s)) - i
    BY <1>1
  <2>3. \A j \in i + 1 .. i + n : (s \o u)[Len(s) + j] = u[j] /\ (Len(s) + j) - (Len(s) + i) = j - i
    BY <1>1, <2>1, Joined
  <2> QED BY <2>1, <2>2, <2>3
<1> QED BY <1>1, <1>2 DEF FileAt

LEMMA FileTaken ==
    ASSUME NEW s \in Seq(Units), NEW u \in Seq(Units), FileAt(s \o u, 0, Len(s))
    PROVE  s \in Mixed
<1>1. Len(s) \in Nat /\ Len(s) =< Longest /\ DOMAIN s = 1 .. Len(s) /\ s \in [1 .. Len(s) -> Units]
  BY LenProperties, FtpWireAssumption DEF FileAt, Longest, HeaderLen
<1>2. \A j \in 1 .. Len(s) : s[j] \in UnitsAt(j)
  <2>1. \A j \in 0 + 1 .. 0 + Len(s) : (s \o u)[j] \in UnitsAt(j - 0)
    BY DEF FileAt
  <2>2. \A j \in 1 .. Len(s) : j - 0 = j /\ j \in 0 + 1 .. 0 + Len(s)
    BY <1>1
  <2> QED BY <1>1, <2>1, <2>2, Joined
<1>3. s \in [1 .. Len(s) -> Raw]
  BY <1>1, <1>2 DEF UnitsAt
<1> QED BY <1>1, <1>2, <1>3, SeqDef DEF Short, Mixed
-----------------------------------------------------------------------------
(* Framing.  It holds of what is left of a stream.                         *)
LEMMA FramedTail ==
    ASSUME NEW s \in Seq(Units), NEW u \in Seq(Units), Framed(s \o u)
    PROVE  Framed(u)
<1> SUFFICES ASSUME NEW i \in 1 .. Len(u), IsHead(u[i])
             PROVE  /\ Sane(u[i].hdr)
                    /\ u[i].hdr.type = "FILE_DATA" => FileAt(u, i, PayloadLen(u[i].hdr))
  BY Joined DEF Framed
<1>1. /\ Len(s) \in Nat /\ Len(u) \in Nat
      /\ Len(s) + i \in DOMAIN (s \o u) /\ (s \o u)[Len(s) + i] = u[i] /\ i \in Nat
  BY Joined
<1>2. /\ Sane(u[i].hdr)
      /\ u[i].hdr.type = "FILE_DATA" => FileAt(s \o u, Len(s) + i, PayloadLen(u[i].hdr))
  BY <1>1 DEF Framed
<1> QED BY <1>1, <1>2, FileMoved DEF Sane

LEMMA FramedJoin ==
    ASSUME NEW s \in Seq(Units), NEW u \in Seq(Units), Framed(s), Framed(u)
    PROVE  Framed(s \o u)
<1> DEFINE v == s \o u
<1> SUFFICES ASSUME NEW i \in 1 .. Len(s) + Len(u), IsHead(v[i])
             PROVE  /\ Sane(v[i].hdr)
                    /\ v[i].hdr.type = "FILE_DATA" => FileAt(v, i, PayloadLen(v[i].hdr))
  BY Joined DEF Framed
<1>1. Len(s) \in Nat /\ Len(u) \in Nat
  BY Joined
<1>2. CASE i =< Len(s)
  <2>1. i \in DOMAIN s /\ v[i] = s[i] /\ i \in Nat
    BY <1>1, <1>2, Joined
  <2>2. /\ Sane(s[i].hdr)
        /\ s[i].hdr.type = "FILE_DATA" => FileAt(s, i, PayloadLen(s[i].hdr))
    BY <2>1 DEF Framed
  <2> QED BY <2>1, <2>2, FileKept
<1>3. CASE i > Len(s)
  <2> DEFINE j == i - Len(s)
  <2>1. j \in 1 .. Len(u) /\ i = Len(s) + j /\ j \in Nat
    BY <1>1, <1>3
  <2> HIDE DEF j
  <2>2. j \in DOMAIN u /\ v[i] = u[j]
    BY <2>1, Joined
  <2>3. /\ Sane(u[j].hdr)
        /\ u[j].hdr.type = "FILE_DATA" => FileAt(u, j, PayloadLen(u[j].hdr))
    BY <2>2 DEF Framed
  <2> QED BY <2>1, <2>2, <2>3, FileMoved DEF Sane
<1> QED BY <1>1, <1>2, <1>3

LEMMA FramedRaw == ASSUME NEW b \in Short PROVE Framed(b)
<1>1. \A i \in DOMAIN b : b[i] \in Raw
  BY ShortUnits, LenProperties, ElementOfSeq
<1> QED BY <1>1, RawUnits DEF Framed, IsHead

LEMMA FramedFile == ASSUME NEW b \in Mixed PROVE Framed(b) /\ FileAt(b, 0, Len(b))
<1>1. b \in Seq(Raw) /\ Len(b) \in 0 .. Longest /\ Len(b) \in Nat
  BY MixedShort, ShortUnits, LenProperties
<1>2. \A i \in 1 .. Len(b) : b[i] \in UnitsAt(i)
  BY <1>1, LenProperties DEF Mixed
<1>3. Framed(b)
  BY MixedShort, FramedRaw
<1>4. \A j \in 0 + 1 .. 0 + Len(b) : j \in 1 .. Len(b) /\ j - 0 = j
  BY <1>1
<1> QED BY <1>1, <1>2, <1>3, <1>4 DEF FileAt

LEMMA FramedHeader ==
    ASSUME NEW type \in Types \ {"FILE_DATA"}, NEW status \in Statuses, NEW n \in 0 .. Longest,
           type = "SHA_REQUEST" => DigestsAsked
    PROVE  Framed(Header(type, status, n))
<1> DEFINE m == Header(type, status, n)
<1>1. /\ m \in Seq(Units) /\ Len(m) = 2 /\ ~IsHead(m[1]) /\ IsHead(m[2])
      /\ m[2].hdr.type = type /\ PayloadLen(m[2].hdr) = n
  BY HeaderUnits
<1>2. \A i \in DOMAIN m : i = 1 \/ i = 2
  BY <1>1, LenProperties
<1> QED BY <1>1, <1>2 DEF Framed, Sane

LEMMA JoinedHeader ==
    ASSUME NEW m \in Seq(Units), NEW u \in Seq(Units), Len(m) = 2
    PROVE  /\ DOMAIN (m \o u) = 1 .. 2 + Len(u) /\ Len(u) \in Nat
           /\ (m \o u)[1] = m[1] /\ (m \o u)[2] = m[2]
           /\ \A i \in 1 .. Len(u) : (m \o u)[2 + i] = u[i]
<1>1. \A s, v \in Seq(Units) :
         /\ DOMAIN (s \o v) = 1 .. Len(s) + Len(v) /\ Len(v) \in Nat
         /\ \A i \in 1 .. Len(s) : (s \o v)[i] = s[i]
         /\ \A i \in 1 .. Len(v) : (s \o v)[Len(s) + i] = v[i]
  BY Joined
<1>2. 1 \in 1 .. Len(m) /\ 2 \in 1 .. Len(m)
  OBVIOUS
<1> QED BY <1>1, <1>2

LEMMA FramedMessage ==
    ASSUME NEW b \in Mixed
    PROVE  /\ Header("FILE_DATA", "STATUS_UNUSED", Len(b)) \in Seq(Units)
           /\ Framed(Header("FILE_DATA", "STATUS_UNUSED", Len(b)) \o b)
<1> DEFINE m == Header("FILE_DATA", "STATUS_UNUSED", Len(b))
           v == m \o b
<1>0. b \in Short /\ b \in Seq(Units) /\ Len(b) \in 0 .. Longest /\ Len(b) \in Nat
  BY MixedShort, ShortUnits, LenProperties
<1>1. /\ m \in Seq(Units) /\ Len(m) = 2 /\ ~IsHead(m[1]) /\ IsHead(m[2])
      /\ m[2].hdr.type = "FILE_DATA" /\ PayloadLen(m[2].hdr) = Len(b)
  BY <1>0, HeaderUnits DEF Types, Statuses
<1> HIDE DEF m
<1>2. Framed(b) /\ FileAt(b, 0, Len(b))
  BY FramedFile
<1>3. FileAt(v, Len(m) + 0, Len(b))
  BY <1>0, <1>1, <1>2, FileMoved
<1>4. FileAt(v, 2, Len(b))
  BY <1>1, <1>3
<1>5. /\ v[1] = m[1] /\ v[2] = m[2] /\ DOMAIN v = 1 .. 2 + Len(b)
      /\ \A i \in 1 .. Len(b) : v[2 + i] = b[i]
  BY <1>0, <1>1, JoinedHeader
<1>6. \A i \in DOMAIN v : IsHead(v[i]) => i = 2
  <2> SUFFICES ASSUME NEW i \in 1 .. 2 + Len(b), i # 2
               PROVE  ~IsHead(v[i])
    BY <1>5
  <2>0. i = 1 \/ i - 2 \in 1 .. Len(b)
    BY <1>0
  <2>1. CASE i = 1
    BY <2>1, <1>1, <1>5
  <2>2. CASE i - 2 \in 1 .. Len(b)
    <3>1. v[i] = b[i - 2] /\ b[i - 2] \in Raw
      BY <1>0, <1>5, <2>2, ShortUnits, ElementOfSeq
    <3> QED BY <3>1, RawUnits DEF IsHead
  <2> QED BY <2>0, <2>1, <2>2
<1>7. Framed(v)
  BY <1>0, <1>1, <1>4, <1>5, <1>6 DEF Framed, Sane
<1> QED BY <1>1, <1>7 DEF m

(* The head of a message that has been read tells what follows.            *)
LEMMA HeadTaken ==
    ASSUME NEW s \in Seq(Units), NEW u \in Seq(Units), Framed(s \o u), Len(s) = 2,
           IsHead(s[2])
    PROVE  /\ Sane(s[2].hdr)
           /\ s[2].hdr.type = "FILE_DATA" => FileAt(u, 0, PayloadLen(s[2].hdr))
<1> DEFINE v == s \o u
<1>1. 2 \in DOMAIN v /\ v[2] = s[2]
  BY JoinedHeader
<1>2. /\ Sane(s[2].hdr)
      /\ s[2].hdr.type = "FILE_DATA" => FileAt(v, 2, PayloadLen(s[2].hdr))
  BY <1>1 DEF Framed
<1>3. s[2].hdr.type = "FILE_DATA" => FileAt(v, Len(s) + 0, PayloadLen(s[2].hdr))
  BY <1>2
<1> HIDE DEF v
<1> QED BY <1>2, <1>3, FileMoved DEF v, Sane
-----------------------------------------------------------------------------
(* No client vanishes or opens twice, and no file is longer than the       *)
(* length in a header tells.                                               *)
Orderly == /\ ~Vanish /\ ~Reopen
           /\ Longest >= 2
           /\ \A x \in Files : ServerFiles[x] # NoFile => Len(ServerFiles[x]) =< Longest
           /\ \A c \in Clients, n \in FileNames :
                 LocalFiles[c][n] # NoFile => Len(LocalFiles[c][n]) =< Longest

OrderlyInv == TypeOK /\ DescriptorInv /\ FramesInv

LEMMA OrderlyInit == Orderly /\ Init => OrderlyInv
<1> SUFFICES ASSUME Orderly, Init PROVE OrderlyInv
  OBVIOUS
<1>1. \A s \in Originals \ {NoFile} : s \in Contents /\ Len(s) =< Longest => s \in Mixed
  <2> SUFFICES ASSUME NEW s \in Originals \ {NoFile}, s \in Contents, Len(s) =< Longest
               PROVE  s \in Mixed
    OBVIOUS
  <2>1. [byte : Bytes] \subseteq Raw
    BY DEF Raw
  <2>2. s \in Seq(Raw)
    BY <2>1, SeqMonotonic DEF Contents
  <2>3. \A p \in DOMAIN s : s[p] \in Raw
    BY <2>2, LenProperties, ElementOfSeq
  <2>4. \A p \in DOMAIN s : s[p] \in UnitsAt(p)
    BY <2>3 DEF UnitsAt
  <2> QED BY <2>2, <2>4 DEF Short, Mixed
<1>2. 0 =< Longest /\ <<>> \in Mixed /\ Mixed \subseteq Short
  BY EmptyMixed, MixedShort, FtpWireAssumption DEF Orderly, Longest, HeaderLen
<1>3. FilesAreRaw
  <2>1. ServerFiles \in [Files -> {NoFile} \union Mixed]
    BY <1>1, FtpServerAssumption DEF Orderly, Originals
  <2>2. LocalFiles \in [Clients -> [FileNames -> {NoFile} \union Mixed]]
    BY <1>1, FtpClientAssumption DEF Orderly, Originals
  <2> QED BY <1>2, <2>1, <2>2 DEF Init, ServerInit, ClientInit, FilesAreRaw
<1>4. Short \subseteq Seq(Units) /\ <<>> \in Seq(Units)
  BY ShortUnits, EmptySeq
<1>5. WireTypeOK
  BY <1>4, Numbers DEF Init, WireInit, WireTypeOK
<1>6. ClientTypeOK
  BY <1>2, <1>3, <1>4 DEF Init, ClientInit, ClientTypeOK, ClientPlaces, FilesAreRaw
<1>7. ServerTypeOK
  BY <1>2, <1>3, <1>4, FtpWireAssumption DEF Init, ServerInit, ServerTypeOK, ServerPlaces, FilesAreRaw
<1>8. ASSUME NEW k \in Conns PROVE ThreadInv(k)
  <2>1. /\ c2s[k] = <<>> /\ s2c[k] = <<>> /\ t_got[k] = <<>> /\ t_pc[k] = "idle"
        /\ owner[k] = "nobody" /\ reading[k] = NoConn /\ accepted = 0 /\ made = 0
        /\ clientEnds = {} /\ t_len[k] = 0
    BY DEF Init, WireInit, ServerInit, ClientInit
  <2>2. \A c \in Clients : c_pc[c] = "prompt"
    BY DEF Init, ClientInit
  <2>3. ~Uploads(k) /\ Upload(k) = <<>> /\ Download(k) = <<>> /\ ~Over(k)
    BY <2>1, <2>2 DEF Uploads, Upload, Download, Over
  <2>4. ToClient(k) = <<>> /\ ToThread(k) = <<>>
    BY <2>1, <2>3, <1>4, ConcatEmptySeq DEF ToClient, ToThread
  <2>5. StreamsFramed(k)
    BY <1>2, <2>4, FramedFile DEF StreamsFramed
  <2>6. ThreadInPlace(k)
    BY <2>1 DEF ThreadInPlace, RecvPlaces, Init, ServerInit
  <2>7. HasOwn(k)
    BY <2>1, Numbers DEF HasOwn, Running, Conns
  <2>8. QuitLast(k)
    BY <2>1, Numbers, <1>4 DEF QuitLast, Conns
  <2> QED BY <2>5, <2>6, <2>7, <2>8 DEF ThreadInv
<1>9. ASSUME NEW c \in Clients PROVE SessionInv(c)
  BY DEF SessionInv, OneSocket, ClientInPlace, Opening, Init, ClientInit, WireInit, NoConn
<1> QED
  BY <1>3, <1>5, <1>6, <1>7, <1>8, <1>9, DescriptorInit
     DEF OrderlyInv, TypeOK, FramesInv, Init, WireInit
-----------------------------------------------------------------------------
(* A thread that is running has its descriptor, and its client as long as  *)
(* it has not come to its end.                                             *)
LEMMA ThreadStands ==
    ASSUME OrderlyInv, NEW t \in Conns
    PROVE  /\ Running(t) => /\ t_fd[t] \in Fds /\ fds[t_fd[t]] = t /\ t # NoConn
                            /\ ServerEnd(t) /\ t =< accepted /\ t =< made
           /\ t_pc[t] \notin {"idle", "close", "ended"} => t \in clientEnds /\ ~Reset(t)
           /\ t =< made /\ ~ServerEnd(t) => t_pc[t] = "ended"
           /\ t_pc[t] = "idle" => t > accepted
<1>1. /\ t \in Int /\ accepted \in Int /\ made \in Int /\ accepted =< made /\ t # NoConn
      /\ t_pc[t] \in ServerPlaces
  BY Numbers DEF OrderlyInv, DescriptorInv, ControlTypeOK, Conns
<1>2. HasOwn(t) /\ QuitLast(t)
  BY DEF OrderlyInv, FramesInv, ThreadInv
<1>3. Running(t) => t_fd[t] \in Fds
  BY <1>1 DEF OrderlyInv, DescriptorInv, BusyHasNumber, Busy, Running
<1>4. Running(t) => fds[t_fd[t]] = t /\ ServerEnd(t) /\ t =< accepted /\ t =< made
  BY <1>1, <1>2, <1>3 DEF HasOwn, ServerEnd, Running
<1>5. t_pc[t] \notin {"idle", "close", "ended"} => t \in clientEnds /\ ~Reset(t)
  BY <1>2, <1>4 DEF QuitLast, Over, Reset, Running
<1>6. t =< made /\ ~ServerEnd(t) => t_pc[t] = "ended"
  BY <1>1, <1>2, <1>4 DEF HasOwn, ServerEnd, Queued, Running
<1>7. t_pc[t] = "idle" => t > accepted
  BY <1>2 DEF HasOwn
<1> QED BY <1>1, <1>3, <1>4, <1>5, <1>6, <1>7
-----------------------------------------------------------------------------
(* Frame conditions.  The types that neither FramesInv nor ControlTypeOK   *)
(* tells.                                                                  *)
Streams == /\ c2s \in [Conns -> Seq(Units)]
           /\ s2c \in [Conns -> Seq(Units)]
           /\ t_got \in [Conns -> Seq(Units)]
Handlers == /\ t_cmd \in [Conns -> Types \union {"none"}]
            /\ t_dir \in [Conns -> Dirs]
            /\ t_name \in [Conns -> FileNames \union Dirs \union {"none"}]
            /\ t_len \in [Conns -> Nat]

LEMMA TypesOf == OrderlyInv => Streams /\ Handlers /\ ClientTypeOK /\ clientEnds \subseteq Conns
BY DEF OrderlyInv, TypeOK, WireTypeOK, ServerTypeOK, Streams, Handlers

(* What the step of a thread leaves alone: all that belongs to other       *)
(* threads and to clients.                                                 *)
ThreadOnly(t) ==
    /\ UNCHANGED <<clientVars, clientEnds, made, listening>>
    /\ \A k \in Conns \ {t} :
          /\ c2s'[k] = c2s[k] /\ s2c'[k] = s2c[k] /\ reading'[k] = reading[k]
          /\ t_pc'[k] = t_pc[k] /\ t_dir'[k] = t_dir[k] /\ t_name'[k] = t_name[k]
          /\ t_len'[k] = t_len[k] /\ t_got'[k] = t_got[k] /\ t_buf'[k] = t_buf[k]
          /\ t_cmd'[k] = t_cmd[k]
    /\ \A x \in Files : files[x] \in Mixed => files'[x] \in Mixed

(* What its client waits for stays as it is.                               *)
ClientKept(t) == /\ \A n \in 0 .. Longest : FileAt(ToClient(t), 0, n) => FileAt(ToClient(t), 0, n)'
                 /\ OpenGoesWell(t) => OpenGoesWell(t)'

LEMMA OthersKept ==
    ASSUME OrderlyInv, NEW t \in Conns, ThreadOnly(t), NEW k \in Conns \ {t}, HasOwn(k)'
    PROVE  ThreadInv(k)' /\ ToClient(k)' = ToClient(k) /\ (OpenGoesWell(k) => OpenGoesWell(k)')
<1>1. /\ c2s'[k] = c2s[k] /\ s2c'[k] = s2c[k] /\ t_cmd'[k] = t_cmd[k]
      /\ t_pc'[k] = t_pc[k] /\ t_dir'[k] = t_dir[k] /\ t_name'[k] = t_name[k]
      /\ t_len'[k] = t_len[k] /\ t_got'[k] = t_got[k] /\ t_buf'[k] = t_buf[k]
      /\ clientEnds' = clientEnds /\ made' = made
      /\ c_sock' = c_sock /\ c_pc' = c_pc /\ c_files' = c_files /\ c_arg' = c_arg
      /\ owner' = owner
  BY DEF ThreadOnly, clientVars
<1>2. /\ ToClient(k)' = ToClient(k) /\ ToThread(k)' = ToThread(k)
      /\ Over(k)' = Over(k) /\ Needed(k)' = Needed(k) /\ FileOf(k)' = FileOf(k)
  BY <1>1 DEF ToClient, Download, ToThread, Upload, Uploads, Over, Needed, FileOf
<1>3. StreamsFramed(k) /\ ThreadInPlace(k) /\ QuitLast(k)
  BY DEF OrderlyInv, FramesInv, ThreadInv
<1>4. StreamsFramed(k)'
  BY <1>2, <1>3 DEF StreamsFramed
<1>5. ThreadInPlace(k)'
  BY <1>1, <1>2, <1>3 DEF ThreadInPlace, ThreadOnly
<1>6. QuitLast(k)'
  BY <1>1, <1>2, <1>3 DEF QuitLast
<1> QED BY <1>1, <1>2, <1>4, <1>5, <1>6 DEF ThreadInv, OpenGoesWell

LEMMA ThreadFrame ==
    ASSUME OrderlyInv, NEW t \in Conns, ThreadOnly(t),
           DescriptorInv', Streams', Handlers',
           files' \in [Files -> {NoFile} \union Mixed], t_buf' \in [Conns -> Short],
           \A k \in Conns : HasOwn(k)',
           StreamsFramed(t)', ThreadInPlace(t)', QuitLast(t)', ClientKept(t)
    PROVE  OrderlyInv'
<1>1. UNCHANGED <<clientVars, clientEnds, made, listening>> /\ listening
  BY DEF ThreadOnly, OrderlyInv, FramesInv
<1>2. FilesAreRaw'
  <2>1. c_files' \in [Clients -> [FileNames -> {NoFile} \union Mixed]]
    BY <1>1 DEF OrderlyInv, FramesInv, FilesAreRaw, clientVars
  <2> QED BY <2>1 DEF FilesAreRaw
<1>3. TypeOK'
  <2>1. Short \subseteq Seq(Units)
    BY ShortUnits
  <2>2. /\ files' \in [Files -> {NoFile} \union Seq(Units)]
        /\ t_buf' \in [Conns -> Seq(Units)]
    BY <2>1, MixedShort
  <2>3. ClientTypeOK'
    BY <1>1, TypesOf DEF ClientTypeOK, clientVars
  <2>4. listening' \in BOOLEAN /\ clientEnds' \subseteq Conns
    BY <1>1, TypesOf
  <2>5. /\ t_pc' \in [Conns -> ServerPlaces]
        /\ t_fd' \in [Conns -> Fds \union {0}]
        /\ fds' \in [Fds -> Conns \union {NoConn}]
        /\ reading' \in [Conns -> Conns \union {NoConn}]
        /\ made' \in 0 .. MaxConns
        /\ accepted' \in 0 .. made'
    BY DEF DescriptorInv, ControlTypeOK
  <2> QED BY <2>2, <2>3, <2>4, <2>5
          DEF TypeOK, WireTypeOK, ServerTypeOK, Streams, Handlers
<1>4. \A k \in Conns : ThreadInv(k)'
  BY OthersKept DEF ThreadInv
<1>7. ASSUME NEW k \in Conns
      PROVE  /\ \A n \in 0 .. Longest : FileAt(ToClient(k), 0, n) => FileAt(ToClient(k)', 0, n)
             /\ OpenGoesWell(k) => OpenGoesWell(k)'
  <2>1. CASE k = t
    BY <2>1 DEF ClientKept
  <2>2. CASE k # t
    BY <2>2, OthersKept
  <2> QED BY <2>1, <2>2
<1>5. ASSUME NEW c \in Clients PROVE SessionInv(c)'
  <2>1. /\ c_sock' = c_sock /\ c_pc' = c_pc /\ c_files' = c_files /\ c_arg' = c_arg
        /\ c_cmd' = c_cmd /\ c_len' = c_len /\ owner' = owner
        /\ clientEnds' = clientEnds /\ made' = made
    BY <1>1 DEF clientVars
  <2>2. OneSocket(c) /\ ClientInPlace(c) /\ Opening(c) /\ clientEnds \subseteq Conns
    BY TypesOf DEF OrderlyInv, FramesInv, SessionInv
  <2>3. OneSocket(c)'
    BY <2>1, <2>2 DEF OneSocket
  <2>4. ClientInPlace(c)'
    <3>1. ASSUME NEW k \in Conns, c_sock[c] = k,
                 c_pc[c] = "body", c_cmd[c] = "get", k \in clientEnds
          PROVE  FileAt(ToClient(k)', 0, c_len[c])
      <4>1. c_len[c] \in 0 .. Longest /\ FileAt(ToClient(k), 0, c_len[c])
        BY <2>2, <3>1 DEF ClientInPlace, FileAt
      <4> QED BY <1>7, <4>1
    <3>2. /\ c_pc[c] = "body" /\ c_cmd[c] = "get" /\ c_sock[c] \in clientEnds
                => FileAt(ToClient(c_sock[c]), 0, c_len[c])'
      BY <2>1, <2>2, <3>1
    <3> QED BY <2>1, <2>2, <3>2 DEF ClientInPlace
  <2>5. Opening(c)'
    <3>1. ASSUME NEW k \in Conns, c_sock[c] = k, c_pc[c] = "reply", c_cmd[c] = "open"
          PROVE  k \in clientEnds /\ OpenGoesWell(k)'
      <4>1. k \in clientEnds /\ OpenGoesWell(k)
        BY <2>2, <3>1 DEF Opening
      <4> QED BY <1>7, <4>1
    <3>2. c_pc[c] = "reply" /\ c_cmd[c] = "open" => c_sock[c] \in Conns
      BY <2>2 DEF Opening
    <3>3. c_pc[c] = "reply" /\ c_cmd[c] = "open"
             => c_sock[c] \in clientEnds /\ OpenGoesWell(c_sock[c])'
      BY <2>1, <3>1, <3>2
    <3> QED BY <2>1, <3>3 DEF Opening
  <2> QED BY <2>3, <2>4, <2>5 DEF SessionInv
<1>6. \A k \in clientEnds' : owner'[k] \in Clients
  BY <1>1 DEF OrderlyInv, FramesInv, clientVars
<1> QED BY <1>1, <1>2, <1>3, <1>4, <1>5, <1>6 DEF OrderlyInv, FramesInv
-----------------------------------------------------------------------------
(* A thread that goes on keeps its descriptor.                             *)
LEMMA OwnKept ==
    ASSUME OrderlyInv, NEW t \in Conns, Running(t),
           NEW place \in ServerPlaces \ {"idle", "ended"},
           t_pc' = [t_pc EXCEPT ![t] = place],
           reading' = reading \/ reading' = [reading EXCEPT ![t] = NoConn]
                              \/ reading' = [reading EXCEPT ![t] = t],
           UNCHANGED <<accepted, fds, t_fd>>
    PROVE  \A k \in Conns : HasOwn(k)'
<1> SUFFICES ASSUME NEW k \in Conns PROVE HasOwn(k)'
  OBVIOUS
<1>1. /\ t_pc \in [Conns -> ServerPlaces] /\ reading \in [Conns -> Conns \union {NoConn}]
      /\ HasOwn(k) /\ HasOwn(t)
  BY DEF OrderlyInv, DescriptorInv, ControlTypeOK, FramesInv, ThreadInv
<1>2. /\ t_pc'[k] = "idle" <=> t_pc[k] = "idle"
      /\ t_pc'[k] \notin {"idle", "ended"} <=> t_pc[k] \notin {"idle", "ended"}
  BY <1>1 DEF Running
<1>3. reading'[k] \in {k, NoConn}
  BY <1>1 DEF HasOwn
<1> QED BY <1>1, <1>2, <1>3 DEF HasOwn, Running
-----------------------------------------------------------------------------
(* What a thread sends goes out: its connection is never reset.            *)
LEMMA SendsWell ==
    ASSUME OrderlyInv, NEW t \in Conns, t_pc[t] \in SendPlaces,
           NEW units, NEW ok, NEW bad, NEW closes, ServerSends(t, units, ok, bad, closes)
    PROVE  /\ s2c' = [s2c EXCEPT ![t] = @ \o units]
           /\ t_pc' = [t_pc EXCEPT ![t] = ok]
           /\ UNCHANGED <<c2s, clientEnds, made, accepted, fds, reading, listening, t_fd, t_got>>
<1>1. fds[t_fd[t]] = t /\ t # NoConn /\ ~Reset(t)
  BY ThreadStands DEF SendPlaces, Running
<1> QED BY <1>1 DEF ServerSends, Jump

LEMMA SendKeeps ==
    ASSUME OrderlyInv, NEW t \in Conns, t_pc[t] \in SendPlaces,
           NEW units \in Seq(Units),
           NEW place \in {"request", "listing", "readFile", "dataBody", "putHeader", "close"},
           s2c' = [s2c EXCEPT ![t] = @ \o units],
           t_pc' = [t_pc EXCEPT ![t] = place],
           UNCHANGED <<c2s, clientEnds, made, accepted, fds, reading, listening, t_fd, t_got>>,
           UNCHANGED <<t_cmd, t_name, t_len, files, clientVars>>,
           DescriptorInv', Handlers', t_buf' \in [Conns -> Short],
           \A k \in Conns \ {t} : t_dir'[k] = t_dir[k] /\ t_buf'[k] = t_buf[k],
           NEW more \in Seq(Units), Framed(more), ToClient(t)' = ToClient(t) \o more,
           \A i \in DOMAIN units : IsQuitReply(units[i]) => place = "close",
           place = "readFile" => FileThere(t) /\ t_dir' = t_dir,
           place \in {"readFile", "dataBody"} => t_buf'[t] \in Mixed,
           OpenGoesWell(t) => OpenGoesWell(t)'
    PROVE  OrderlyInv'
<1>1. /\ s2c \in [Conns -> Seq(Units)] /\ c2s \in [Conns -> Seq(Units)]
      /\ t_got \in [Conns -> Seq(Units)] /\ t_pc \in [Conns -> ServerPlaces]
  BY TypesOf DEF OrderlyInv, DescriptorInv, ControlTypeOK, Streams
<1>2. /\ t_pc[t] \notin RecvPlaces \union {"idle", "close", "ended", "putBody", "readFile", "putWrite"}
      /\ place \in ServerPlaces \ {"idle", "ended"} /\ t_pc'[t] = place
  BY <1>1 DEF SendPlaces, RecvPlaces, ServerPlaces
<1>3. Streams'
  <2>1. s2c[t] \o units \in Seq(Units)
    BY <1>1, Joined
  <2>2. s2c' \in [Conns -> Seq(Units)]
    BY <1>1, <2>1
  <2> QED BY <1>1, <2>2 DEF Streams
<1>4. ThreadOnly(t)
  BY <1>1 DEF ThreadOnly
<1>5. \A k \in Conns : HasOwn(k)'
  BY <1>2, OwnKept DEF Running
<1>6. ThreadInv(t) /\ FilesAreRaw /\ files' = files
  BY DEF OrderlyInv, FramesInv
<1>7. ToClient(t) \in Seq(Units) /\ Framed(ToClient(t)) /\ Framed(ToClient(t)')
  <2>1. ToClient(t) \in Seq(Units)
    <3>1. Download(t) \in Seq(Units)
      BY <1>6, ShortUnits, EmptySeq DEF Download, FilesAreRaw
    <3> QED BY <1>1, <3>1, Joined DEF ToClient
  <2> QED BY <1>6, <2>1, FramedJoin DEF ThreadInv, StreamsFramed
<1>8. ToThread(t)' = ToThread(t)
  BY DEF ToThread, Upload, Uploads, clientVars
<1>9. StreamsFramed(t)'
  BY <1>2, <1>6, <1>7, <1>8 DEF ThreadInv, StreamsFramed, Over
<1>10. ThreadInPlace(t)'
  <2>1. t_got'[t] = <<>>
    BY <1>2, <1>6 DEF ThreadInv, ThreadInPlace
  <2>2. Needed(t)' >= 0 /\ Len(<<>>) = 0
    BY <1>2 DEF Needed, HeaderLen, Handlers
  <2>3. place = "readFile" => FileOf(t)' \in Files /\ files'[FileOf(t)'] \in Mixed
    BY <1>6 DEF FileThere, FileOf, FilesAreRaw
  <2>4. place \in {"readFile", "dataBody"} => t_buf'[t] \in Mixed
    OBVIOUS
  <2>5. t_cmd'[t] = "SHA_REQUEST" => DigestsAsked
    BY <1>6 DEF ThreadInv, ThreadInPlace
  <2> QED BY <1>2, <2>1, <2>2, <2>3, <2>4, <2>5 DEF ThreadInPlace, RecvPlaces
<1>11. QuitLast(t)'
  <2>1. ~Over(t) /\ t \in clientEnds /\ t =< made
    BY <1>2, ThreadStands DEF Over, Running
  <2>2. \A i \in DOMAIN s2c[t] : ~IsQuitReply(s2c[t][i])
    BY <1>6, <2>1 DEF ThreadInv, QuitLast
  <2>3. ASSUME NEW i \in DOMAIN s2c'[t], IsQuitReply(s2c'[t][i]) PROVE place = "close"
    <3>1. s2c'[t] = s2c[t] \o units /\ s2c[t] \in Seq(Units)
      BY <1>1
    <3>2. Len(s2c[t]) \in Nat /\ Len(units) \in Nat /\ i \in 1 .. Len(s2c[t]) + Len(units)
      BY <2>3, <3>1, Joined
    <3>3. CASE i =< Len(s2c[t])
      <4>1. i \in 1 .. Len(s2c[t])
        BY <3>2, <3>3
      <4>2. i \in DOMAIN s2c[t] /\ s2c'[t][i] = s2c[t][i]
        BY <3>1, <4>1, Joined
      <4> QED BY <2>2, <2>3, <4>2
    <3>4. CASE i > Len(s2c[t])
      <4>1. i - Len(s2c[t]) \in 1 .. Len(units) /\ i = Len(s2c[t]) + (i - Len(s2c[t]))
        BY <3>2, <3>4
      <4>2. (s2c[t] \o units)[Len(s2c[t]) + (i - Len(s2c[t]))] = units[i - Len(s2c[t])]
        BY <3>1, <4>1, Joined
      <4>3. i - Len(s2c[t]) \in DOMAIN units /\ s2c'[t][i] = units[i - Len(s2c[t])]
        BY <3>1, <4>1, <4>2, Joined
      <4> QED BY <2>3, <4>3
    <3> QED BY <3>2, <3>3, <3>4
  <2> QED BY <1>2, <2>1, <2>3, Numbers DEF QuitLast, Over, DescriptorInv, ControlTypeOK, Conns
<1>12. ClientKept(t)
  <2>1. ASSUME NEW n \in 0 .. Longest, FileAt(ToClient(t), 0, n)
        PROVE  FileAt(ToClient(t), 0, n)'
    <3>1. FileAt(ToClient(t) \o more, 0, n)
      BY <1>7, <2>1, FileKept
    <3> QED BY <3>1 DEF FileAt
  <2> QED BY <2>1 DEF ClientKept
<1> QED BY <1>3, <1>4, <1>5, <1>6, <1>9, <1>10, <1>11, <1>12, ThreadFrame DEF FilesAreRaw

(* A stream with nothing behind it                                         *)
LEMMA NothingBehind ==
    ASSUME OrderlyInv, NEW t \in Conns, t_pc[t] # "dataBody"
    PROVE  ToClient(t) = s2c[t] /\ s2c[t] \in Seq(Units)
<1>1. s2c[t] \in Seq(Units)
  BY TypesOf DEF Streams
<1> QED BY <1>1, ConcatEmptySeq DEF ToClient, Download

LEMMA ReplyKeeps ==
    ASSUME OrderlyInv, NEW t \in Conns, DescriptorInv',
           NEW request, NEW type \in Types \ {"FILE_DATA", "SHA_REQUEST"}, NEW status \in Statuses,
           NEW n \in 0 .. Longest,
           NEW ok \in {"request", "listing", "readFile", "putHeader", "close"}, NEW bad,
           Replies(t, request, Header(type, status, n), ok, bad),
           UNCHANGED clientVars,
           t_dir' \in [Conns -> Dirs], t_buf' \in [Conns -> Short],
           \A k \in Conns \ {t} : t_dir'[k] = t_dir[k] /\ t_buf'[k] = t_buf[k],
           type = "QUIT_REPLY" => ok = "close",
           ok = "readFile" => FileThere(t) /\ t_dir' = t_dir /\ t_buf'[t] \in Mixed,
           request = "OPEN_CONN_REQUEST" =>
               type = "OPEN_CONN_REPLY" /\ status = "STATUS_OK" /\ n = 0 /\ ok = "request"
    PROVE  OrderlyInv'
<1> DEFINE m == Header(type, status, n)
<1>1. /\ m \in Seq(Units) /\ Len(m) = 2 /\ ~IsHead(m[1]) /\ m[2].hdr.type = type
      /\ Framed(m)
  BY HeaderUnits, FramedHeader
<1>2. /\ t_pc[t] = "reply" /\ t_pc[t] \in SendPlaces /\ t_cmd[t] = request
      /\ UNCHANGED <<t_cmd, t_name, t_len, files>>
      /\ ServerSends(t, m, ok, bad, request # "SHA_REQUEST")
  BY DEF Replies, SendPlaces
<1>3. /\ s2c' = [s2c EXCEPT ![t] = @ \o m]
      /\ t_pc' = [t_pc EXCEPT ![t] = ok]
      /\ UNCHANGED <<c2s, clientEnds, made, accepted, fds, reading, listening, t_fd, t_got>>
  BY <1>2, SendsWell
<1> HIDE DEF m
<1>4. s2c'[t] = s2c[t] \o m /\ t_pc'[t] = ok /\ s2c[t] \in Seq(Units) /\ ToClient(t) = s2c[t]
  BY <1>2, <1>3, NothingBehind, TypesOf DEF Streams, OrderlyInv, DescriptorInv, ControlTypeOK
<1>5. ToClient(t)' = ToClient(t) \o m
  <2>1. s2c[t] \o m \in Seq(Units)
    BY <1>1, <1>4, Joined
  <2>2. (s2c[t] \o m) \o <<>> = s2c[t] \o m
    BY <2>1, ConcatEmptySeq
  <2> QED BY <1>4, <2>2 DEF ToClient, Download
<1>6. \A i \in DOMAIN m : IsQuitReply(m[i]) => ok = "close"
  <2>1. \A i \in DOMAIN m : i = 1 \/ i = 2
    BY <1>1, LenProperties
  <2> QED BY <1>1, <2>1 DEF IsQuitReply
<1>7. Handlers'
  BY <1>2, TypesOf DEF Handlers
<1>8. ok \in {"request", "listing", "readFile", "dataBody", "putHeader", "close"}
  OBVIOUS
<1>9. OpenGoesWell(t) => OpenGoesWell(t)'
  <2> SUFFICES ASSUME OpenGoesWell(t) PROVE OpenGoesWell(t)'
    OBVIOUS
  <2>1. request = "OPEN_CONN_REQUEST" /\ s2c[t] = <<>> /\ t_got[t] \o c2s[t] = <<>>
    BY <1>2 DEF OpenGoesWell
  <2>2. m = OpenAnswer /\ s2c'[t] = OpenAnswer
    BY <1>1, <1>4, <2>1, ConcatEmptySeq DEF m, OpenAnswer
  <2> QED BY <1>3, <1>4, <2>1, <2>2 DEF OpenGoesWell, OpenAnswer
<1> QED BY <1>1, <1>2, <1>3, <1>5, <1>6, <1>7, <1>8, <1>9, SendKeeps

(* The handlers, at their reply                                            *)
LEMMA ListingShort ==
    ASSUME Longest >= 2, NEW dir \in Dirs
    PROVE  Listing(dir) \in Short /\ ListingLen(Listing(dir)) \in 0 .. Longest
<1> DEFINE d == Data(dir)
           z == Data("NUL")
<1>1. d \in Raw /\ z \in Raw
  BY DataRaw
<1>2. Listing(dir) = <<d>> \o <<z>> \/ Listing(dir) = <<>> \o <<z>>
  BY Zenon DEF Listing
<1> HIDE DEF d, z
<1>3. <<d>> \in Seq(Raw) /\ <<z>> \in Seq(Raw) /\ Len(<<d>>) = 1 /\ Len(<<z>>) = 1
  BY <1>1
<1>4. /\ <<d>> \o <<z>> \in Seq(Raw) /\ Len(<<d>> \o <<z>>) = Len(<<d>>) + Len(<<z>>)
      /\ <<>> \o <<z>> = <<z>>
  BY <1>3, ConcatProperties, ConcatEmptySeq
<1>5. 1 =< Longest /\ 2 =< Longest /\ Longest \in Int
  BY FtpWireAssumption DEF Longest, HeaderLen
<1>6. \A s : s = <<d>> \o <<z>> => s \in Short
  BY <1>3, <1>4, <1>5 DEF Short
<1>7. \A s : s = <<>> \o <<z>> => s \in Short
  BY <1>3, <1>4, <1>5 DEF Short
<1>8. Listing(dir) \in Short
  BY <1>2, <1>6, <1>7
<1> QED BY <1>8, ShortUnits DEF ListingLen

LEMMA HandlersKeep ==
    ASSUME Orderly, OrderlyInv, NEW t \in Conns, DescriptorInv', UNCHANGED clientVars,
           \/ handle_open_conn_request(t) \/ handle_quit_request(t) \/ handle_ls_request(t)
           \/ handle_cd_request(t) \/ handle_get(t) \/ handle_put(t) \/ handle_sha256(t)
    PROVE  OrderlyInv'
<1>1. 0 \in 0 .. Longest /\ 0 =< Longest
  BY FtpWireAssumption DEF Orderly, Longest, HeaderLen
<1>2. t_dir \in [Conns -> Dirs] /\ t_buf \in [Conns -> Short]
  BY TypesOf DEF Handlers, OrderlyInv, FramesInv, FilesAreRaw
<1>3. {"OPEN_CONN_REPLY", "LIST_REPLY", "CHANGE_DIR_REPLY", "GET_REPLY", "PUT_REPLY",
       "SHA_REPLY", "QUIT_REPLY"} \subseteq Types \ {"FILE_DATA", "SHA_REQUEST"}
  BY DEF Types
<1>4. /\ "STATUS_OK" \in Statuses /\ "STATUS_UNUSED" \in Statuses
      /\ \A b : StatusOf(b) \in Statuses
  BY DEF Statuses, StatusOf
<1>5. CASE handle_open_conn_request(t)
  <2>1. /\ Replies(t, "OPEN_CONN_REQUEST", Header("OPEN_CONN_REPLY", "STATUS_OK", 0),
                   "request", "close")
        /\ UNCHANGED <<t_dir, t_buf>>
    BY <1>5 DEF handle_open_conn_request
  <2> QED BY <1>1, <1>2, <1>3, <1>4, <2>1, ReplyKeeps
<1>6. CASE handle_quit_request(t)
  <2>1. /\ Replies(t, "QUIT_REQUEST", Header("QUIT_REPLY", "STATUS_UNUSED", 0), "close", "close")
        /\ UNCHANGED <<t_dir, t_buf>>
    BY <1>6 DEF handle_quit_request, AfterQuit
  <2> QED BY <1>1, <1>2, <1>3, <1>4, <2>1, ReplyKeeps
<1>7. CASE handle_ls_request(t)
  <2> DEFINE listing == Listing(t_dir[t])
             n == ListingLen(listing)
  <2>1. /\ Replies(t, "LIST_REQUEST", Header("LIST_REPLY", "STATUS_UNUSED", n),
                   "listing", "close")
        /\ t_buf' = [t_buf EXCEPT ![t] = listing]
        /\ t_dir' = t_dir
    BY <1>7 DEF handle_ls_request
  <2>2. listing \in Short /\ n \in 0 .. Longest
    BY <1>2, ListingShort DEF Orderly
  <2> HIDE DEF listing, n
  <2>3. t_buf' \in [Conns -> Short] /\ \A k \in Conns \ {t} : t_buf'[k] = t_buf[k]
    BY <1>2, <2>1, <2>2
  <2> QED BY <1>2, <1>3, <1>4, <2>1, <2>2, <2>3, ReplyKeeps
<1>8. CASE handle_cd_request(t)
  <2> DEFINE there == <<t_dir[t], t_name[t]>> \in Subdirs
  <2>1. /\ Replies(t, "CHANGE_DIR_REQUEST", Header("CHANGE_DIR_REPLY", StatusOf(there), 0),
                   "request", "close")
        /\ t_dir' = IF there THEN [t_dir EXCEPT ![t] = t_name[t]] ELSE t_dir
        /\ t_buf' = t_buf
    BY <1>8 DEF handle_cd_request
  <2>2. there => t_name[t] \in Dirs
    BY FtpWireAssumption
  <2> HIDE DEF there
  <2>3. t_dir' \in [Conns -> Dirs] /\ \A k \in Conns \ {t} : t_dir'[k] = t_dir[k]
    BY <1>2, <2>1, <2>2
  <2> QED BY <1>1, <1>2, <1>3, <1>4, <2>1, <2>3, ReplyKeeps
<1>9. t_buf' = [t_buf EXCEPT ![t] = <<>>]
         => /\ t_buf' \in [Conns -> Short] /\ t_buf'[t] \in Mixed
            /\ \A k \in Conns \ {t} : t_buf'[k] = t_buf[k]
  BY <1>1, <1>2, EmptyMixed, MixedShort
<1>10. ASSUME NEW ok, ok = IF FileThere(t) THEN "readFile" ELSE "request"
       PROVE  /\ ok \in {"request", "listing", "readFile", "putHeader", "close"}
              /\ ok = "readFile" => FileThere(t)
  BY <1>10
<1>11. CASE handle_get(t)
  <2>1. PICK ok : ok = IF FileThere(t) THEN "readFile" ELSE "request"
    OBVIOUS
  <2>2. /\ Replies(t, "GET_REQUEST", Header("GET_REPLY", StatusOf(FileThere(t)), 0), ok, "request")
        /\ t_buf' = [t_buf EXCEPT ![t] = <<>>]
        /\ t_dir' = t_dir
    BY <1>11, <2>1 DEF handle_get
  <2> QED BY <1>1, <1>2, <1>3, <1>4, <1>9, <1>10, <2>1, <2>2, ReplyKeeps
<1>12. CASE handle_put(t)
  <2>1. /\ Replies(t, "PUT_REQUEST", Header("PUT_REPLY", "STATUS_UNUSED", 0), "putHeader", "close")
        /\ UNCHANGED <<t_dir, t_buf>>
    BY <1>12 DEF handle_put
  <2> QED BY <1>1, <1>2, <1>3, <1>4, <2>1, ReplyKeeps
<1>13. CASE handle_sha256(t)
  <2>1. PICK ok : ok = IF FileThere(t) THEN "readFile" ELSE "request"
    OBVIOUS
  <2>2. /\ Replies(t, "SHA_REQUEST", Header("SHA_REPLY", StatusOf(FileThere(t)), 0), ok, "request")
        /\ t_buf' = [t_buf EXCEPT ![t] = <<>>]
        /\ t_dir' = t_dir
    BY <1>13, <2>1 DEF handle_sha256
  <2> QED BY <1>1, <1>2, <1>3, <1>4, <1>9, <1>10, <2>1, <2>2, ReplyKeeps
<1> QED BY <1>5, <1>6, <1>7, <1>8, <1>11, <1>12, <1>13

(* The data that follow a reply                                            *)
LEMMA DataSendsKeep ==
    ASSUME OrderlyInv, NEW t \in Conns, DescriptorInv', UNCHANGED clientVars,
           SendDataHeader(t) \/ SendDataBody(t) \/ SendListing(t)
    PROVE  OrderlyInv'
<1>1. /\ s2c \in [Conns -> Seq(Units)] /\ t_pc \in [Conns -> ServerPlaces]
      /\ t_buf \in [Conns -> Short] /\ t_buf[t] \in Short /\ s2c[t] \in Seq(Units)
  BY TypesOf DEF OrderlyInv, DescriptorInv, ControlTypeOK, Streams, FramesInv, FilesAreRaw
<1>2. t_buf[t] \in Seq(Units) /\ Framed(t_buf[t]) /\ \A i \in DOMAIN t_buf[t] : ~IsHead(t_buf[t][i])
  <2>1. t_buf[t] \in Seq(Raw) /\ t_buf[t] \in Seq(Units)
    BY <1>1, ShortUnits
  <2>2. \A i \in DOMAIN t_buf[t] : t_buf[t][i] \in Raw
    BY <2>1, LenProperties, ElementOfSeq
  <2> QED BY <1>1, <2>1, <2>2, RawUnits, FramedRaw DEF IsHead
<1>3. \A s \in Seq(Units) : s \o <<>> = s /\ <<>> \o s = s
  BY ConcatEmptySeq
<1>4. Handlers
  BY TypesOf
<1>5. CASE SendDataHeader(t)
  <2> DEFINE m == Header("FILE_DATA", "STATUS_UNUSED", Len(t_buf[t]))
  <2>1. PICK place : place = IF t_buf[t] = <<>> THEN "request" ELSE "dataBody"
    OBVIOUS
  <2>2. /\ t_pc[t] = "dataHeader" /\ ServerSends(t, m, place, Then(t), TRUE)
        /\ UNCHANGED <<t_dir, handler, files>>
    BY <1>5, <2>1 DEF SendDataHeader
  <2>3. /\ m \in Seq(Units) /\ Framed(m \o t_buf[t]) /\ t_buf[t] \in Mixed
        /\ Len(m) = 2 /\ ~IsHead(m[1]) /\ m[2].hdr.type = "FILE_DATA"
    <3>1. t_buf[t] \in Mixed
      BY <2>2 DEF OrderlyInv, FramesInv, ThreadInv, ThreadInPlace
    <3> QED BY <1>1, <3>1, FramedMessage, ShortUnits, HeaderUnits DEF Types, Statuses
  <2> HIDE DEF m
  <2>4. t_pc[t] \in SendPlaces
    BY <2>2 DEF SendPlaces
  <2>5. /\ s2c' = [s2c EXCEPT ![t] = @ \o m]
        /\ t_pc' = [t_pc EXCEPT ![t] = place]
        /\ UNCHANGED <<c2s, clientEnds, made, accepted, fds, reading, listening, t_fd, t_got>>
    BY <2>2, <2>4, SendsWell
  <2>6. ToClient(t)' = ToClient(t) \o (m \o t_buf[t]) /\ m \o t_buf[t] \in Seq(Units)
    <3>1. ToClient(t) = s2c[t]
      BY <2>2, NothingBehind
    <3>2. ToClient(t)' = (s2c[t] \o m) \o t_buf[t]
      <4>1. s2c'[t] = s2c[t] \o m /\ t_pc'[t] = place /\ t_buf' = t_buf
        BY <1>1, <2>2, <2>5 DEF handler
      <4>2. Download(t)' = t_buf[t]
        BY <2>1, <4>1 DEF Download
      <4> QED BY <4>1, <4>2 DEF ToClient
    <3>3. (s2c[t] \o m) \o t_buf[t] = s2c[t] \o (m \o t_buf[t])
      BY <1>1, <1>2, <2>3, Chained
    <3>4. m \o t_buf[t] \in Seq(Units)
      BY <1>2, <2>3, Chains
    <3> QED BY <3>1, <3>2, <3>3, <3>4
  <2>7. \A i \in DOMAIN m : ~IsQuitReply(m[i])
    <3>1. \A i \in DOMAIN m : i = 1 \/ i = 2
      BY <2>3, LenProperties
    <3> QED BY <2>3, <3>1 DEF IsQuitReply
  <2>8. place \in {"request", "listing", "readFile", "dataBody", "putHeader", "close"}
        /\ place # "readFile"
    BY <2>1
  <2>9. ~OpenGoesWell(t)
    BY <2>2 DEF OpenGoesWell
  <2>10. UNCHANGED <<t_cmd, t_name, t_len, t_dir, t_buf, files>> /\ Handlers'
    BY <1>4, <2>2 DEF handler, Handlers
  <2> QED BY <1>1, <2>3, <2>4, <2>5, <2>6, <2>7, <2>8, <2>9, <2>10, SendKeeps
<1>6. ASSUME t_pc[t] \in {"dataBody", "listing"}, NEW bad, ServerSends(t, t_buf[t], "request", bad, TRUE),
             UNCHANGED <<t_dir, handler, files>>
      PROVE  OrderlyInv'
  <2>1. t_pc[t] \in SendPlaces
    BY <1>6 DEF SendPlaces
  <2>2. /\ s2c' = [s2c EXCEPT ![t] = @ \o t_buf[t]]
        /\ t_pc' = [t_pc EXCEPT ![t] = "request"]
        /\ UNCHANGED <<c2s, clientEnds, made, accepted, fds, reading, listening, t_fd, t_got>>
    BY <1>6, <2>1, SendsWell
  <2>3. UNCHANGED <<t_cmd, t_name, t_len, t_dir, t_buf, files>> /\ Handlers'
    BY <1>4, <1>6 DEF handler, Handlers
  <2>4. PICK more \in Seq(Units) : Framed(more) /\ ToClient(t)' = ToClient(t) \o more
    <3>1. ToClient(t)' = s2c[t] \o t_buf[t]
      <4>1. s2c'[t] = s2c[t] \o t_buf[t] /\ t_pc'[t] = "request"
        BY <1>1, <2>2
      <4>2. s2c[t] \o t_buf[t] \in Seq(Units)
        BY <1>1, <1>2, Joined
      <4> QED BY <1>3, <4>1, <4>2 DEF ToClient, Download
    <3>2. CASE t_pc[t] = "listing"
      <4>1. ToClient(t) = s2c[t]
        BY <3>2, NothingBehind
      <4> QED BY <1>2, <3>1, <4>1
    <3>3. CASE t_pc[t] = "dataBody"
      <4>1. ToClient(t) = s2c[t] \o t_buf[t]
        BY <3>3 DEF ToClient, Download
      <4>2. ToClient(t) \in Seq(Units) /\ <<>> \in Seq(Units) /\ Framed(<<>>)
        BY <1>1, <1>2, <4>1, Joined, EmptySeq DEF Framed
      <4> QED BY <1>3, <3>1, <4>1, <4>2
    <3> QED BY <1>6, <3>2, <3>3
  <2>5. ~OpenGoesWell(t)
    BY <1>6 DEF OpenGoesWell
  <2>6. \A i \in DOMAIN t_buf[t] : ~IsQuitReply(t_buf[t][i])
    BY <1>2 DEF IsQuitReply
  <2> QED BY <1>1, <1>2, <2>1, <2>2, <2>3, <2>4, <2>5, <2>6, SendKeeps
<1>7. CASE SendDataBody(t)
  BY <1>6, <1>7 DEF SendDataBody
<1>8. CASE SendListing(t)
  BY <1>6, <1>8 DEF SendListing
<1> QED BY <1>5, <1>7, <1>8
-----------------------------------------------------------------------------
(* The steps of a thread that leave its connection as it is                *)
LEMMA QuietKeeps ==
    ASSUME OrderlyInv, NEW t \in Conns, t_pc[t] \notin {"idle", "close", "ended", "dataBody"},
           NEW place \in ServerPlaces \ {"idle", "ended", "dataBody"},
           t_pc' = [t_pc EXCEPT ![t] = place],
           reading' = reading \/ reading' = [reading EXCEPT ![t] = t],
           UNCHANGED <<c2s, s2c, clientEnds, made, accepted, fds, listening, t_fd, t_dir, t_got>>,
           UNCHANGED clientVars,
           DescriptorInv', Handlers', t_buf' \in [Conns -> Short],
           files' \in [Files -> {NoFile} \union Mixed],
           \A x \in Files : files[x] \in Mixed => files'[x] \in Mixed,
           \A k \in Conns \ {t} : /\ t_buf'[k] = t_buf[k] /\ t_cmd'[k] = t_cmd[k]
                                  /\ t_name'[k] = t_name[k] /\ t_len'[k] = t_len[k],
           ThreadInPlace(t)',
           OpenGoesWell(t) => OpenGoesWell(t)'
    PROVE  OrderlyInv'
<1>1. t_pc \in [Conns -> ServerPlaces] /\ reading \in [Conns -> Conns \union {NoConn}] /\ Streams
  BY TypesOf DEF OrderlyInv, DescriptorInv, ControlTypeOK
<1>2. t_pc'[t] = place /\ Streams'
  BY <1>1 DEF Streams
<1>3. ThreadOnly(t)
  BY <1>1 DEF ThreadOnly
<1>4. \A k \in Conns : HasOwn(k)'
  BY OwnKept DEF Running
<1>5. StreamsFramed(t) /\ QuitLast(t) /\ ~Over(t)
  BY DEF OrderlyInv, FramesInv, ThreadInv, Over
<1>6. ToClient(t)' = ToClient(t) /\ ToThread(t)' = ToThread(t)
  BY <1>2 DEF ToClient, Download, ToThread, Upload, Uploads, clientVars
<1>7. StreamsFramed(t)'
  BY <1>5, <1>6 DEF StreamsFramed
<1>8. QuitLast(t)'
  BY <1>5 DEF QuitLast
<1>9. ClientKept(t)
  BY <1>6 DEF ClientKept, FileAt
<1> QED BY <1>2, <1>3, <1>4, <1>7, <1>8, <1>9, ThreadFrame

(* What is read from a file and what is written over it stays in place.    *)
LEMMA MixedAppend ==
    ASSUME NEW content \in Mixed, NEW b \in Mixed, Len(content) > Len(b)
    PROVE  Append(b, content[Len(b) + 1]) \in Mixed
<1> DEFINE n == Len(b)
           a == Append(b, content[n + 1])
<1>1. /\ content \in Seq(Raw) /\ b \in Seq(Raw) /\ n \in Nat /\ Len(content) \in Nat
      /\ Len(content) =< Longest /\ DOMAIN content = 1 .. Len(content) /\ DOMAIN b = 1 .. n
  BY MixedShort, LenProperties DEF Short
<1>2. n + 1 \in 1 .. Len(content)
  BY <1>1
<1>3. content[n + 1] \in Raw /\ content[n + 1] \in UnitsAt(n + 1)
  BY <1>1, <1>2, ElementOfSeq DEF Mixed
<1>4. /\ a \in Seq(Raw) /\ Len(a) = n + 1
      /\ \A p \in 1 .. n : a[p] = b[p]
      /\ a[n + 1] = content[n + 1]
  BY <1>1, <1>3, AppendProperties
<1>5. DOMAIN a = 1 .. n + 1
  BY <1>4, LenProperties
<1> HIDE DEF a
<1>6. a \in Short
  BY <1>1, <1>2, <1>4, FtpWireAssumption DEF Short, Longest, HeaderLen
<1>7. \A p \in DOMAIN a : a[p] \in UnitsAt(p)
  <2> SUFFICES ASSUME NEW p \in 1 .. n + 1 PROVE a[p] \in UnitsAt(p)
    BY <1>5
  <2>1. p \in 1 .. n \/ p = n + 1
    BY <1>1
  <2>2. \A q \in 1 .. n : b[q] \in UnitsAt(q)
    BY <1>1 DEF Mixed
  <2> QED BY <1>3, <1>4, <2>1, <2>2
<1> QED BY <1>6, <1>7 DEF Mixed, a

LEMMA MixedWritten ==
    ASSUME NEW content \in Mixed, NEW data \in Mixed
    PROVE  Written(content, data) \in Mixed
<1> DEFINE n == Len(data)
           m == Len(content)
           rest == After(content, n)
           w == Written(content, data)
<1>1. /\ content \in Seq(Raw) /\ data \in Seq(Raw) /\ m \in Nat /\ n \in Nat
      /\ m =< Longest /\ n =< Longest /\ Longest \in Int
      /\ DOMAIN content = 1 .. m /\ DOMAIN data = 1 .. n
  BY MixedShort, LenProperties, FtpWireAssumption DEF Short, Longest, HeaderLen
<1>2. /\ \A p \in 1 .. m : content[p] \in UnitsAt(p)
      /\ \A p \in 1 .. n : data[p] \in UnitsAt(p)
  BY <1>1 DEF Mixed
<1> HIDE DEF rest
<1>3. CASE n =< m
  <2>1. /\ rest \in Seq(Raw) /\ Len(rest) = m - n
        /\ \A i \in 1 .. m - n : rest[i] = content[n + i]
    <3>1. \A i \in n + 1 .. m : content[i] \in Raw
      <4>1. \A i \in 1 .. m : content[i] \in Raw
        BY <1>1, ElementOfSeq
      <4> QED BY <1>1, <4>1
    <3>2. /\ SubSeq(content, n + 1, m) \in Seq(Raw)
          /\ Len(SubSeq(content, n + 1, m)) = IF n + 1 =< m THEN m - (n + 1) + 1 ELSE 0
          /\ \A i \in 1 .. m - (n + 1) + 1 : SubSeq(content, n + 1, m)[i] = content[n + 1 + i - 1]
      BY <1>1, <3>1, SubSeqProperties
    <3>3. \A i \in 1 .. m - n : n + 1 + i - 1 = n + i /\ i \in 1 .. m - (n + 1) + 1
      BY <1>1, <1>3
    <3>4. rest = SubSeq(content, n + 1, m)
      BY DEF rest, After
    <3> HIDE DEF n, m
    <3>5. (IF n + 1 =< m THEN m - (n + 1) + 1 ELSE 0) = m - n
      BY <1>1, <1>3
    <3> QED BY <3>2, <3>3, <3>4, <3>5
  <2>2. /\ w \in Seq(Raw) /\ Len(w) = n + (m - n)
        /\ \A i \in 1 .. n : w[i] = data[i]
        /\ \A i \in 1 .. m - n : w[n + i] = rest[i]
    <3>1. w = data \o rest
      BY DEF Written, rest
    <3> HIDE DEF w, m
    <3> QED BY <1>1, <2>1, <3>1, Joined
  <2>3. Len(w) = m /\ DOMAIN w = 1 .. m
    BY <1>1, <2>2, LenProperties
  <2> HIDE DEF w
  <2>4. ASSUME NEW p \in 1 .. m PROVE w[p] \in UnitsAt(p)
    <3>1. CASE p =< n
      BY <1>1, <1>2, <2>2, <3>1
    <3>2. CASE p > n
      <4>1. p - n \in 1 .. m - n /\ n + (p - n) = p
        BY <1>1, <3>2
      <4>2. w[n + (p - n)] = content[n + (p - n)]
        BY <2>1, <2>2, <4>1
      <4> QED BY <1>2, <4>1, <4>2
    <3> QED BY <1>1, <3>1, <3>2
  <2> QED BY <1>1, <2>2, <2>3, <2>4 DEF Mixed, Short, w
<1>4. CASE n > m
  <2>1. rest = <<>>
    <3>1. m < n + 1 /\ n + 1 \in Int /\ m \in Int
      BY <1>1, <1>4
    <3> QED BY <3>1, SubSeqEmpty DEF After, rest
  <2>2. w = data
    BY <1>1, <2>1, ConcatEmptySeq DEF Written, rest
  <2> QED BY <2>2
<1> QED BY <1>1, <1>3, <1>4

LEMMA MixedDigest ==
    ASSUME DigestsAsked, 2 =< Longest
    PROVE  <<Data("digest"), Data("NUL")>> \in Mixed
<1> DEFINE d == Data("digest")
           z == Data("NUL")
<1>1. d \in Raw /\ z \in Raw /\ \A p : d \in UnitsAt(p) /\ z \in UnitsAt(p)
  BY DataRaw DEF UnitsAt
<1> HIDE DEF d, z
<1>2. /\ <<d, z>> \in Seq(Raw) /\ Len(<<d, z>>) = 2 /\ DOMAIN <<d, z>> = {1, 2}
      /\ <<d, z>>[1] = d /\ <<d, z>>[2] = z
  BY <1>1
<1> QED BY <1>1, <1>2 DEF Mixed, Short, d, z

(* The files of the server                                                 *)
LEMMA FileStepsKeep ==
    ASSUME Orderly, OrderlyInv, NEW t \in Conns, DescriptorInv', UNCHANGED clientVars,
           \/ LsFails(t) \/ ReadFile(t) \/ Sha256Sum(t) \/ ReadFileFails(t)
           \/ PutOpen(t) \/ PutWrite(t)
    PROVE  OrderlyInv'
<1>1. /\ t_buf \in [Conns -> Short] /\ files \in [Files -> {NoFile} \union Mixed]
      /\ Handlers /\ ThreadInPlace(t) /\ t_pc \in [Conns -> ServerPlaces]
      /\ Longest \in Int /\ 2 =< Longest
  <2>1. Longest \in Int
    BY FtpWireAssumption DEF Longest, HeaderLen
  <2> QED BY <2>1, TypesOf DEF OrderlyInv, FramesInv, FilesAreRaw, ThreadInv, DescriptorInv, ControlTypeOK,
                 Orderly
<1>2. ASSUME t_pc[t] \in {"reply", "readFile", "putOpen", "putWrite"},
             NEW place \in {"request", "close", "readFile", "dataHeader", "putWrite"},
             t_pc' = [t_pc EXCEPT ![t] = place],
             UNCHANGED <<wire, t_fd, t_dir, t_got, t_cmd, t_name, t_len>>,
             NEW b \in Short, t_buf' = [t_buf EXCEPT ![t] = b],
             files' \in [Files -> {NoFile} \union Mixed],
             \A x \in Files : files[x] \in Mixed => files'[x] \in Mixed,
             place \in {"readFile", "putWrite"} =>
                 FileOf(t) \in Files /\ files'[FileOf(t)] \in Mixed,
             place \in {"readFile", "dataHeader", "putWrite"} => b \in Mixed,
             ~OpenGoesWell(t)
      PROVE  OrderlyInv'
  <2>1. t_pc[t] \notin {"idle", "close", "ended", "dataBody"} /\ t_pc[t] \notin RecvPlaces
    BY <1>2 DEF RecvPlaces
  <2>2. place \in ServerPlaces \ {"idle", "ended", "dataBody"} /\ place # "putBody"
    BY DEF ServerPlaces, RecvPlaces, SendPlaces
  <2>3. UNCHANGED <<c2s, s2c, clientEnds, made, accepted, fds, listening, t_fd, t_dir, t_got>>
        /\ reading' = reading /\ UNCHANGED <<t_cmd, t_name, t_len>>
    BY <1>2 DEF wire
  <2>4. Handlers' /\ t_buf' \in [Conns -> Short] /\ t_pc'[t] = place
        /\ \A k \in Conns \ {t} : t_buf'[k] = t_buf[k]
    BY <1>1, <1>2 DEF Handlers
  <2>5. ThreadInPlace(t)'
    <3>1. t_got'[t] = <<>>
      BY <1>1, <2>1, <2>3 DEF ThreadInPlace
    <3>2. Needed(t)' >= 0 /\ Len(<<>>) = 0
      BY <2>4 DEF Needed, HeaderLen, Handlers
    <3>3. FileOf(t)' = FileOf(t)
      BY <2>3 DEF FileOf
    <3>4. t_buf'[t] = b /\ t_cmd'[t] = t_cmd[t]
      BY <1>1, <1>2
    <3> QED BY <1>1, <1>2, <2>2, <2>4, <3>1, <3>2, <3>3, <3>4 DEF ThreadInPlace
  <2> QED BY <1>2, <2>1, <2>2, <2>3, <2>4, <2>5, QuietKeeps
<1>3. /\ t_buf[t] \in Short /\ t_buf = [t_buf EXCEPT ![t] = t_buf[t]]
      /\ t_pc[t] \in {"readFile", "putOpen", "putWrite"} => t_buf[t] \in Mixed
  BY <1>1 DEF ThreadInPlace
<1>4. CASE LsFails(t)
  <2>1. /\ t_pc[t] = "reply" /\ t_cmd[t] = "LIST_REQUEST"
        /\ t_pc' = [t_pc EXCEPT ![t] = "close"]
        /\ UNCHANGED <<wire, t_fd, t_dir, t_got, t_cmd, t_name, t_len, t_buf, files>>
    BY <1>4 DEF LsFails, Jump, handler
  <2>2. ~OpenGoesWell(t)
    BY <2>1 DEF OpenGoesWell
  <2> QED BY <1>1, <1>2, <1>3, <2>1, <2>2
<1>5. CASE ReadFile(t)
  <2> DEFINE content == files[FileOf(t)]
             n == Len(t_buf[t])
  <2>1. /\ t_pc[t] = "readFile" /\ UNCHANGED <<wire, t_fd, t_dir, t_got, t_cmd, t_name, t_len, files>>
        /\ \/ /\ Len(content) > n
              /\ t_buf' = [t_buf EXCEPT ![t] = Append(t_buf[t], content[n + 1])]
              /\ t_pc' = t_pc
           \/ /\ t_pc' = [t_pc EXCEPT ![t] = "dataHeader"] /\ t_buf' = t_buf
    BY <1>1, <1>5 DEF ReadFile, WithFile, Jump
  <2>2. ~OpenGoesWell(t) /\ FileOf(t) \in Files /\ content \in Mixed
    BY <1>1, <2>1 DEF OpenGoesWell, ThreadInPlace
  <2>3. CASE t_pc' = [t_pc EXCEPT ![t] = "dataHeader"] /\ t_buf' = t_buf
    BY <1>1, <1>2, <1>3, <2>1, <2>2, <2>3
  <2>4. CASE /\ Len(content) > n
             /\ t_buf' = [t_buf EXCEPT ![t] = Append(t_buf[t], content[n + 1])]
             /\ t_pc' = t_pc
    <3>4. Append(t_buf[t], content[n + 1]) \in Mixed
      BY <1>3, <2>1, <2>2, <2>4, MixedAppend
    <3>5. t_pc' = [t_pc EXCEPT ![t] = "readFile"]
      BY <1>1, <2>1, <2>4
    <3> QED BY <1>1, <1>2, <2>1, <2>2, <2>4, <3>4, <3>5, MixedShort
  <2> QED BY <2>1, <2>3, <2>4
<1>6. CASE Sha256Sum(t)
  <2> DEFINE b == <<Data("digest"), Data("NUL")>>
  <2>1. /\ t_pc[t] = "readFile" /\ UNCHANGED <<wire, t_fd, t_dir, t_got, t_cmd, t_name, t_len, files>>
        /\ t_pc' = [t_pc EXCEPT ![t] = "dataHeader"] /\ t_buf' = [t_buf EXCEPT ![t] = b]
    BY <1>6 DEF Sha256Sum, WithFile, Jump
  <2>2. ~OpenGoesWell(t)
    BY <2>1 DEF OpenGoesWell
  <2>3. b \in Mixed /\ b \in Short
    <3>1. DigestsAsked
      BY <1>1, <1>6 DEF ThreadInPlace, Sha256Sum
    <3> QED BY <1>1, <3>1, MixedDigest, MixedShort
  <2> HIDE DEF b
  <2> QED BY <1>1, <1>2, <2>1, <2>2, <2>3
<1>7. CASE ReadFileFails(t)
  <2>1. /\ t_pc[t] = "readFile"
        /\ UNCHANGED <<wire, t_fd, t_dir, t_got, t_cmd, t_name, t_len, t_buf, files>>
        /\ t_pc' = [t_pc EXCEPT ![t] = "request"]
    BY <1>7 DEF ReadFileFails, WithFile, Jump
  <2>2. ~OpenGoesWell(t)
    BY <2>1 DEF OpenGoesWell
  <2> QED BY <1>1, <1>2, <1>3, <2>1, <2>2
<1>8. CASE PutOpen(t)
  <2>1. /\ t_pc[t] = "putOpen" /\ t_buf' = t_buf
        /\ UNCHANGED <<wire, t_fd, t_dir, t_got, t_cmd, t_name, t_len>>
        /\ \/ t_pc' = [t_pc EXCEPT ![t] = "request"] /\ files' = files
           \/ /\ t_pc' = [t_pc EXCEPT ![t] = "putWrite"]
              /\ FileOf(t) \in Files /\ files' = [files EXCEPT ![FileOf(t)] = <<>>]
    BY <1>8 DEF PutOpen, WithFile, Jump, Emptied
  <2>2. ~OpenGoesWell(t)
    BY <2>1 DEF OpenGoesWell
  <2>3. <<>> \in Mixed
    BY <1>1, EmptyMixed
  <2>4. CASE t_pc' = [t_pc EXCEPT ![t] = "request"] /\ files' = files
    BY <1>1, <1>2, <1>3, <2>1, <2>2, <2>4
  <2>5. CASE /\ t_pc' = [t_pc EXCEPT ![t] = "putWrite"]
             /\ FileOf(t) \in Files /\ files' = [files EXCEPT ![FileOf(t)] = <<>>]
    <3>1. /\ files' \in [Files -> {NoFile} \union Mixed]
          /\ \A x \in Files : files[x] \in Mixed => files'[x] \in Mixed
          /\ files'[FileOf(t)] \in Mixed
      BY <1>1, <2>3, <2>5
    <3> QED BY <1>2, <1>3, <2>1, <2>2, <2>5, <3>1
  <2> QED BY <2>1, <2>4, <2>5
<1>9. CASE PutWrite(t)
  <2> DEFINE content == files[FileOf(t)]
             data == t_buf[t]
             w == Written(content, data)
  <2>1. /\ t_pc[t] = "putWrite" /\ t_buf' = t_buf
        /\ UNCHANGED <<wire, t_fd, t_dir, t_got, t_cmd, t_name, t_len>>
        /\ files' = [files EXCEPT ![FileOf(t)] = w]
        /\ t_pc' = [t_pc EXCEPT ![t] = "request"]
    BY <1>9 DEF PutWrite, WithFile, Jump
  <2>2. ~OpenGoesWell(t) /\ FileOf(t) \in Files /\ content \in Mixed /\ data \in Mixed
    BY <1>1, <1>3, <2>1 DEF OpenGoesWell, ThreadInPlace
  <2> HIDE DEF content, data
  <2>3. w \in Mixed
    BY <2>2, MixedWritten
  <2> HIDE DEF w
  <2>4. /\ files' \in [Files -> {NoFile} \union Mixed]
        /\ \A x \in Files : files[x] \in Mixed => files'[x] \in Mixed
    BY <1>1, <2>1, <2>2, <2>3
  <2> QED BY <1>2, <1>3, <2>1, <2>2, <2>4
<1> QED BY <1>4, <1>5, <1>6, <1>7, <1>8, <1>9
-----------------------------------------------------------------------------
(* What a thread reads                                                     *)
LEMMA EnterReadKeeps ==
    ASSUME OrderlyInv, NEW t \in Conns, DescriptorInv', UNCHANGED clientVars, EnterRead(t)
    PROVE  OrderlyInv'
<1>1. /\ t_buf \in [Conns -> Short] /\ files \in [Files -> {NoFile} \union Mixed]
      /\ Handlers /\ ThreadInPlace(t) /\ t_pc \in [Conns -> ServerPlaces]
      /\ reading \in [Conns -> Conns \union {NoConn}]
  BY TypesOf DEF OrderlyInv, FramesInv, FilesAreRaw, ThreadInv, DescriptorInv, ControlTypeOK
<1>2. /\ t_pc[t] \in RecvPlaces /\ t_pc' = t_pc /\ reading' = [reading EXCEPT ![t] = t]
      /\ UNCHANGED <<c2s, s2c, clientEnds, made, accepted, fds, listening, t_fd, t_dir, t_got, files>>
      /\ IF t_pc[t] = "request" THEN NewLocals(t) ELSE UNCHANGED handler
  BY ThreadStands DEF EnterRead, clientSide, Running, RecvPlaces
<1>3. /\ t_pc[t] \notin {"idle", "close", "ended", "dataBody"}
      /\ t_pc[t] \in ServerPlaces \ {"idle", "ended", "dataBody"}
      /\ t_pc' = [t_pc EXCEPT ![t] = t_pc[t]]
  BY <1>1, <1>2 DEF RecvPlaces
<1>4. t_buf[t] \in Short /\ <<>> \in Short
  <2>1. t_buf[t] \in Short /\ Len(t_buf[t]) \in 0 .. Longest
    BY <1>1, ShortUnits
  <2> QED BY <2>1, EmptyMixed, MixedShort, FtpWireAssumption DEF Longest, HeaderLen
<1>5. /\ Handlers' /\ t_buf' \in [Conns -> Short]
      /\ \A k \in Conns \ {t} : /\ t_buf'[k] = t_buf[k] /\ t_cmd'[k] = t_cmd[k]
                                /\ t_name'[k] = t_name[k] /\ t_len'[k] = t_len[k]
  <2>1. CASE t_pc[t] = "request"
    <3>1. /\ t_cmd' = [t_cmd EXCEPT ![t] = "none"] /\ t_name' = [t_name EXCEPT ![t] = "none"]
          /\ t_len' = [t_len EXCEPT ![t] = 0] /\ t_buf' = [t_buf EXCEPT ![t] = <<>>]
          /\ t_dir' = t_dir
      BY <1>2, <2>1 DEF NewLocals
    <3>2. Handlers'
      BY <1>1, <3>1 DEF Handlers
    <3>3. t_buf' \in [Conns -> Short]
      BY <1>1, <1>4, <3>1
    <3> QED BY <3>1, <3>2, <3>3
  <2>2. CASE t_pc[t] # "request"
    <3>1. UNCHANGED <<t_cmd, t_name, t_len, t_buf, t_dir>>
      BY <1>2, <2>2 DEF handler
    <3> QED BY <1>1, <3>1 DEF Handlers
  <2> QED BY <2>1, <2>2
<1>6. ThreadInPlace(t)'
  <2>1. ToThread(t)' = ToThread(t)
    BY <1>2 DEF ToThread, Upload, Uploads, clientVars
  <2>2. Needed(t)' = Needed(t) /\ (t_pc[t] = "putBody" => t_len'[t] = t_len[t])
    BY <1>2 DEF Needed, handler
  <2>3. t_cmd'[t] \in {t_cmd[t], "none"}
    BY <1>1, <1>2 DEF handler, NewLocals, Handlers
  <2> QED BY <1>1, <1>2, <2>1, <2>2, <2>3 DEF ThreadInPlace, RecvPlaces, FileAt
<1>7. OpenGoesWell(t) => OpenGoesWell(t)'
  BY <1>2 DEF OpenGoesWell, RecvPlaces
<1>8. \A x \in Files : files[x] \in Mixed => files'[x] \in Mixed
  BY <1>2
<1>9. files' \in [Files -> {NoFile} \union Mixed]
  BY <1>1, <1>2
<1> QED BY <1>2, <1>3, <1>5, <1>6, <1>7, <1>8, <1>9, QuietKeeps

(* No read of a thread fails, and none of its writes breaks the pipe.      *)
LEMMA ReadsWell ==
    ASSUME OrderlyInv, NEW t \in Conns
    PROVE  /\ reading[t] # NoConn => /\ reading[t] = t /\ t_pc[t] \in RecvPlaces
                                     /\ t \in clientEnds /\ ~Reset(t)
           /\ ~(ReadClosedFd(t) \/ ReadReset(t) \/ ReadEof(t) \/ BrokenPipe(t))
<1>1. reading[t] # NoConn => /\ reading[t] = t /\ t_pc[t] \in RecvPlaces
                             /\ t \in clientEnds /\ ~Reset(t)
  BY ThreadStands
     DEF OrderlyInv, DescriptorInv, ReadersReceive, FramesInv, ThreadInv, HasOwn, RecvPlaces
<1>2. t_pc[t] \in RecvPlaces \union SendPlaces => fds[t_fd[t]] = t /\ t # NoConn /\ ~Reset(t)
  BY ThreadStands DEF RecvPlaces, SendPlaces, Running
<1> QED BY <1>1, <1>2 DEF ReadClosedFd, ReadReset, ReadEof, BrokenPipe

LEMMA Taken ==
    ASSUME OrderlyInv, NEW t \in Conns, NEW n \in Nat, Takes(t, n), UNCHANGED clientVars
    PROVE  /\ reading[t] = t /\ t_pc[t] \in RecvPlaces
           /\ reading' = [reading EXCEPT ![t] = NoConn]
           /\ c2s' = [c2s EXCEPT ![t] = After(@, n)]
           /\ Have(t, n) \in Seq(Units) /\ Len(Have(t, n)) = Len(t_got[t]) + n
           /\ Len(t_got[t]) \in Nat
           /\ After(c2s[t], n) \in Seq(Units) /\ c2s'[t] = After(c2s[t], n)
           /\ Have(t, n) \o After(c2s[t], n) = t_got[t] \o c2s[t]
           /\ t_got'[t] = Have(t, n) => ToThread(t)' = ToThread(t)
           /\ t_got'[t] = <<>> => ToThread(t) = Have(t, n) \o ToThread(t)'
                                    /\ ToThread(t)' \in Seq(Units)
<1>1. /\ c2s \in [Conns -> Seq(Units)] /\ t_got \in [Conns -> Seq(Units)]
      /\ c2s[t] \in Seq(Units) /\ t_got[t] \in Seq(Units)
  BY TypesOf DEF Streams
<1>2. /\ reading[t] = t /\ t_pc[t] \in RecvPlaces /\ Len(c2s[t]) >= n
      /\ reading' = [reading EXCEPT ![t] = NoConn]
      /\ c2s' = [c2s EXCEPT ![t] = After(@, n)]
  BY ReadsWell DEF Takes
<1>3. c2s'[t] = After(c2s[t], n) /\ Have(t, n) = t_got[t] \o First(c2s[t], n)
  BY <1>1, <1>2 DEF Have
<1> DEFINE f == First(c2s[t], n)
           a == After(c2s[t], n)
<1>4. f \in Seq(Units) /\ Len(f) = n /\ a \in Seq(Units) /\ f \o a = c2s[t]
  <2>1. n \in 0 .. Len(c2s[t])
    BY <1>1, <1>2, LenProperties
  <2> QED BY <1>1, <2>1, Split
<1> HIDE DEF f, a
<1>5. /\ t_got[t] \o f \in Seq(Units) /\ Len(t_got[t] \o f) = Len(t_got[t]) + n
      /\ Len(t_got[t]) \in Nat
  <2>1. \A x, y \in Seq(Units) :
           x \o y \in Seq(Units) /\ Len(x \o y) = Len(x) + Len(y) /\ Len(x) \in Nat
    BY Joined
  <2> QED BY <1>1, <1>4, <2>1
<1> DEFINE h == t_got[t] \o f
           u == Upload(t)
<1>6. h \o a = t_got[t] \o c2s[t]
  <2>1. t_got[t] \in Seq(Units) /\ f \in Seq(Units) /\ a \in Seq(Units)
    BY <1>1, <1>4
  <2>2. (t_got[t] \o f) \o a = t_got[t] \o (f \o a)
    BY <2>1, Chained
  <2> QED BY <1>4, <2>2
<1>7. Upload(t)' = Upload(t) /\ Upload(t) \in Seq(Units)
  <2>1. Upload(t)' = Upload(t)
    BY DEF Upload, Uploads, clientVars
  <2>2. Uploads(t) => /\ owner[t] \in Clients /\ c_sock[owner[t]] = t
                      /\ c_pc[owner[t]] = "fileBody"
    BY DEF Uploads
  <2>3. \A c \in Clients : c_pc[c] = "fileBody" => c_files[c][c_arg[c]] \in Mixed
    BY DEF OrderlyInv, FramesInv, SessionInv, ClientInPlace
  <2> QED BY <2>1, <2>2, <2>3, MixedShort, ShortUnits, EmptySeq DEF Upload
<1>8. t_got'[t] = Have(t, n) => ToThread(t)' = ToThread(t)
  BY <1>3, <1>6, <1>7 DEF ToThread, f, a
<1>9. t_got'[t] = <<>> => ToThread(t) = Have(t, n) \o ToThread(t)' /\ ToThread(t)' \in Seq(Units)
  <2> SUFFICES ASSUME t_got'[t] = <<>>
               PROVE  ToThread(t) = Have(t, n) \o ToThread(t)' /\ ToThread(t)' \in Seq(Units)
    OBVIOUS
  <2>1. ToThread(t)' = a \o Upload(t)
    BY <1>3, <1>4, <1>7, ConcatEmptySeq DEF ToThread, a
  <2>2. ToThread(t) = (h \o a) \o u
    BY <1>6 DEF ToThread
  <2>3. h \in Seq(Units) /\ a \in Seq(Units) /\ u \in Seq(Units)
    BY <1>4, <1>5, <1>7
  <2>4. (h \o a) \o u = h \o (a \o u) /\ a \o u \in Seq(Units)
    <3> HIDE DEF h, u
    <3> QED BY <2>3, Chained, Chains
  <2> QED BY <1>3, <2>1, <2>2, <2>4 DEF f
<1> QED BY <1>2, <1>3, <1>4, <1>5, <1>6, <1>8, <1>9 DEF f, a

LEMMA TakeKeeps ==
    ASSUME OrderlyInv, NEW t \in Conns, NEW n \in Nat, Takes(t, n), UNCHANGED <<clientVars, t_dir>>,
           NEW got \in Seq(Units), t_got' = [t_got EXCEPT ![t] = got],
           NEW place \in ServerPlaces \ {"idle", "ended", "dataBody"},
           t_pc' = [t_pc EXCEPT ![t] = place],
           DescriptorInv', Handlers', t_buf' \in [Conns -> Short],
           \A k \in Conns \ {t} : /\ t_buf'[k] = t_buf[k] /\ t_cmd'[k] = t_cmd[k]
                                  /\ t_name'[k] = t_name[k] /\ t_len'[k] = t_len[k],
           NEW m \in Seq(Units), ToThread(t) = m \o ToThread(t)', ToThread(t)' \in Seq(Units),
           ThreadInPlace(t)', OpenGoesWell(t) => OpenGoesWell(t)'
    PROVE  OrderlyInv'
<1>1. /\ t_pc \in [Conns -> ServerPlaces] /\ reading \in [Conns -> Conns \union {NoConn}]
      /\ Streams /\ FilesAreRaw
  BY TypesOf DEF OrderlyInv, DescriptorInv, ControlTypeOK, FramesInv
<1>2. /\ t_pc[t] \in RecvPlaces /\ reading' = [reading EXCEPT ![t] = NoConn]
      /\ c2s' = [c2s EXCEPT ![t] = After(@, n)] /\ After(c2s[t], n) \in Seq(Units)
  BY Taken
<1>3. UNCHANGED <<s2c, clientEnds, made, accepted, fds, listening, t_fd, files>>
  BY DEF Takes
<1>4. Streams' /\ t_pc'[t] = place
  BY <1>1, <1>2, <1>3 DEF Streams
<1>5. ThreadOnly(t)
  BY <1>1, <1>2, <1>3 DEF ThreadOnly
<1>6. \A k \in Conns : HasOwn(k)'
  BY <1>2, <1>3, OwnKept DEF Running, RecvPlaces
<1>7. StreamsFramed(t) /\ QuitLast(t) /\ ~Over(t) /\ t_pc[t] # "dataBody"
  BY <1>2 DEF OrderlyInv, FramesInv, ThreadInv, Over, RecvPlaces
<1>8. ToClient(t)' = ToClient(t)
  BY <1>3, <1>4, <1>7 DEF ToClient, Download
<1>9. StreamsFramed(t)'
  <2>1. Framed(ToThread(t)')
    BY <1>7, FramedTail DEF StreamsFramed
  <2> QED BY <1>7, <1>8, <2>1 DEF StreamsFramed
<1>10. QuitLast(t)'
  <2>1. t \in clientEnds /\ t =< made
    BY <1>2, ThreadStands DEF Running, RecvPlaces
  <2> QED BY <1>3, <1>7, <2>1, Numbers DEF QuitLast, DescriptorInv, ControlTypeOK, OrderlyInv, Conns
<1>11. ClientKept(t)
  BY <1>8 DEF ClientKept, FileAt
<1>12. files' \in [Files -> {NoFile} \union Mixed]
  BY <1>1, <1>3 DEF FilesAreRaw
<1> QED BY <1>4, <1>5, <1>6, <1>9, <1>10, <1>11, <1>12, ThreadFrame

LEMMA ReadPartKeeps ==
    ASSUME OrderlyInv, NEW t \in Conns, DescriptorInv', UNCHANGED clientVars, ReadPart(t)
    PROVE  OrderlyInv'
<1>1. /\ t_buf \in [Conns -> Short] /\ Handlers /\ Streams
      /\ ThreadInPlace(t) /\ t_pc \in [Conns -> ServerPlaces]
  BY TypesOf DEF OrderlyInv, FramesInv, FilesAreRaw, ThreadInv, DescriptorInv, ControlTypeOK
<1>2. PICK n \in 1 .. Lacking(t) - 1 : Takes(t, n) /\ t_got' = [t_got EXCEPT ![t] = Have(t, n)]
  BY DEF ReadPart
<1>3. UNCHANGED <<t_pc, t_dir, handler>>
  BY DEF ReadPart
<1>4. n \in Nat
  BY <1>2
<1>5. /\ t_pc[t] \in RecvPlaces /\ Have(t, n) \in Seq(Units) /\ Len(t_got[t]) \in Nat
      /\ Len(Have(t, n)) = Len(t_got[t]) + n
      /\ c2s'[t] = After(c2s[t], n)
      /\ Have(t, n) \o After(c2s[t], n) = t_got[t] \o c2s[t]
      /\ t_got'[t] = Have(t, n) => ToThread(t)' = ToThread(t)
  BY <1>2, <1>4, Taken
<1>6. t_got'[t] = Have(t, n) /\ s2c' = s2c
  BY <1>1, <1>2 DEF Streams, Takes
<1>7. ToThread(t) \in Seq(Units)
  <2>1. t_got[t] \o c2s[t] \in Seq(Units)
    BY <1>1, Joined DEF Streams
  <2>2. Upload(t) \in Seq(Units)
    <3>1. \A c \in Clients : c_pc[c] = "fileBody" => c_files[c][c_arg[c]] \in Mixed
      BY DEF OrderlyInv, FramesInv, SessionInv, ClientInPlace
    <3> QED BY <3>1, MixedShort, ShortUnits, EmptySeq DEF Upload, Uploads
  <2> QED BY <2>1, <2>2, Joined DEF ToThread
<1>8. <<>> \in Seq(Units) /\ ToThread(t) = <<>> \o ToThread(t)' /\ ToThread(t)' \in Seq(Units)
  BY <1>5, <1>6, <1>7, EmptySeq, ConcatEmptySeq
<1>9. t_pc[t] \in ServerPlaces \ {"idle", "ended", "dataBody"}
      /\ t_pc' = [t_pc EXCEPT ![t] = t_pc[t]]
  BY <1>1, <1>3, <1>5 DEF RecvPlaces
<1>10. ThreadInPlace(t)'
  <2>1. Needed(t)' = Needed(t) /\ Needed(t) \in Nat /\ t_len' = t_len
    BY <1>1, <1>3 DEF Needed, handler, HeaderLen, Handlers
  <2>2. Len(Have(t, n)) =< Needed(t)
    BY <1>2, <1>5, <2>1 DEF Lacking
  <2>3. t_cmd' = t_cmd /\ t_buf' = t_buf
    BY <1>3 DEF handler
  <2> QED BY <1>1, <1>3, <1>5, <1>6, <2>1, <2>2, <2>3 DEF ThreadInPlace, RecvPlaces, FileAt
<1>11. OpenGoesWell(t) => OpenGoesWell(t)'
  BY <1>3, <1>5, <1>6 DEF OpenGoesWell, handler
<1>12. /\ Handlers' /\ t_buf' \in [Conns -> Short]
       /\ UNCHANGED <<t_buf, t_cmd, t_name, t_len, t_dir>>
  BY <1>1, <1>3 DEF handler, Handlers
<1> QED BY <1>2, <1>4, <1>5, <1>8, <1>9, <1>10, <1>11, <1>12, TakeKeeps

(* safe_recv has everything: what is left is what comes behind it.         *)
LEMMA AllRead ==
    ASSUME OrderlyInv, NEW t \in Conns, NEW place \in RecvPlaces, ReadAll(t, place),
           UNCHANGED clientVars
    PROVE  /\ t_pc[t] = place /\ Lacking(t) \in Nat /\ Takes(t, Lacking(t))
           /\ t_got' = [t_got EXCEPT ![t] = <<>>] /\ t_got'[t] = <<>> /\ s2c' = s2c
           /\ Message(t) \in Seq(Units) /\ Len(Message(t)) = Needed(t)
           /\ ToThread(t) = Message(t) \o ToThread(t)' /\ ToThread(t)' \in Seq(Units)
           /\ Framed(ToThread(t))
           /\ Message(t) \o c2s'[t] = t_got[t] \o c2s[t] /\ c2s'[t] \in Seq(Units)
<1>1. /\ Handlers /\ Streams /\ ThreadInPlace(t) /\ StreamsFramed(t)
  BY TypesOf DEF OrderlyInv, FramesInv, ThreadInv
<1>2. t_pc[t] = place /\ Takes(t, Lacking(t)) /\ t_got' = [t_got EXCEPT ![t] = <<>>]
  BY DEF ReadAll
<1>3. Needed(t) \in Nat /\ Len(t_got[t]) \in Nat /\ Len(t_got[t]) =< Needed(t)
  <2>1. Needed(t) \in Nat
    BY <1>1 DEF Needed, HeaderLen, Handlers
  <2> QED BY <1>1, <1>2, <2>1, LenProperties DEF ThreadInPlace, Streams
<1>4. Lacking(t) \in Nat /\ Len(t_got[t]) + Lacking(t) = Needed(t)
  <2>1. Lacking(t) = Needed(t) - Len(t_got[t])
    BY DEF Lacking
  <2> QED BY <1>3, <2>1
<1>5. t_got'[t] = <<>> /\ s2c' = s2c
  BY <1>1, <1>2 DEF Streams, Takes
<1>6. /\ Message(t) \in Seq(Units) /\ Len(Message(t)) = Len(t_got[t]) + Lacking(t)
      /\ ToThread(t) = Message(t) \o ToThread(t)' /\ ToThread(t)' \in Seq(Units)
      /\ Message(t) \o c2s'[t] = t_got[t] \o c2s[t] /\ c2s'[t] \in Seq(Units)
  BY <1>2, <1>4, <1>5, Taken DEF Message
<1>7. Framed(ToThread(t))
  BY <1>1, <1>2 DEF StreamsFramed, Over, RecvPlaces
<1> QED BY <1>2, <1>4, <1>5, <1>6, <1>7

(* A header that is one tells a length, and more for a file.               *)
LEMMA HeaderRead ==
    ASSUME NEW s \in Seq(Units), NEW u \in Seq(Units), Framed(s \o u), Len(s) = 2
    PROVE  /\ HeaderIn(s).type \in Types \union {"none"}
           /\ HeaderIn(s).type \in Types => Sane(HeaderIn(s))
           /\ HeaderIn(s).type = "FILE_DATA" => FileAt(u, 0, PayloadLen(HeaderIn(s)))
           /\ HeaderIn(s).type \in Types => IsHead(s[2]) /\ HeaderIn(s) = s[2].hdr
<1>1. s[2] \in Units
  <2>1. 2 \in 1 .. Len(s)
    OBVIOUS
  <2> QED BY <2>1, ElementOfSeq
<1>2. CASE IsPart(s[2], 2)
  <2>1. HeaderIn(s) = s[2].hdr /\ IsHead(s[2])
    BY <1>2 DEF HeaderIn, HeaderLen, IsHead
  <2>2. s[2].hdr.type \in Types
    BY <1>1, <1>2 DEF Units, IsPart
  <2> QED BY <2>1, <2>2, HeadTaken
<1>3. CASE ~IsPart(s[2], 2)
  <2>1. HeaderIn(s) = NoHeader /\ NoHeader.type = "none"
    BY <1>3 DEF HeaderIn, NoHeader
  <2> QED BY <2>1 DEF Types
<1> QED BY <1>2, <1>3

LEMMA Whole ==
    ASSUME NEW s \in Seq(Units), NEW u \in Seq(Units), Len(s \o u) = Len(s)
    PROVE  s \o u = s /\ u = <<>>
<1>1. Len(s \o u) = Len(s) + Len(u) /\ Len(s) \in Nat /\ Len(u) \in Nat
  BY Joined
<1>2. Len(u) = 0
  BY <1>1
<1>3. u = <<>>
  BY <1>2, EmptySeq
<1> QED BY <1>3, ConcatEmptySeq

LEMMA OpenUnits ==
    ASSUME Orderly
    PROVE  /\ OpenMessage \in Seq(Units) /\ Len(OpenMessage) = 2 /\ MagicOk(OpenMessage)
           /\ HeaderIn(OpenMessage).type = "OPEN_CONN_REQUEST" /\ Framed(OpenMessage)
           /\ OpenAnswer \in Seq(Units) /\ Len(OpenAnswer) = 2 /\ MagicOk(OpenAnswer)
           /\ HeaderIn(OpenAnswer).type = "OPEN_CONN_REPLY"
           /\ HeaderIn(OpenAnswer).status = "STATUS_OK"
<1>1. 0 \in 0 .. Longest
  BY FtpWireAssumption DEF Orderly, Longest, HeaderLen
<1>2. /\ {"OPEN_CONN_REQUEST", "OPEN_CONN_REPLY"} \subseteq Types \ {"FILE_DATA"}
      /\ {"STATUS_UNUSED", "STATUS_OK"} \subseteq Statuses
  BY DEF Types, Statuses
<1> QED BY <1>1, <1>2, HeaderUnits, FramedHeader DEF OpenMessage, OpenAnswer

LEMMA ReadRequestKeeps ==
    ASSUME Orderly, OrderlyInv, NEW t \in Conns, DescriptorInv', UNCHANGED clientVars, ReadRequest(t)
    PROVE  OrderlyInv'
<1> DEFINE m == Message(t)
           h == HeaderIn(m)
           known == MagicOk(m) /\ h.type \in WithPayload \union WithoutPayload
           n == IF known /\ h.type \in WithPayload THEN PayloadLen(h) ELSE 0
           place == IF ~known THEN "close" ELSE IF h.type \in WithPayload THEN "payload" ELSE "reply"
<1>1. /\ t_buf \in [Conns -> Short] /\ Handlers /\ t_pc \in [Conns -> ServerPlaces]
  BY TypesOf DEF OrderlyInv, FramesInv, FilesAreRaw, DescriptorInv, ControlTypeOK
<1>2. /\ ReadAll(t, "request") /\ t_pc' = [t_pc EXCEPT ![t] = place]
      /\ t_cmd' = [t_cmd EXCEPT ![t] = h.type] /\ t_len' = [t_len EXCEPT ![t] = n]
      /\ UNCHANGED <<t_dir, t_name, t_buf>>
  BY DEF ReadRequest, Jump
<1> HIDE DEF n, place
<1>3. /\ t_pc[t] = "request" /\ Lacking(t) \in Nat /\ Takes(t, Lacking(t))
      /\ t_got' = [t_got EXCEPT ![t] = <<>>] /\ t_got'[t] = <<>> /\ s2c' = s2c
      /\ m \in Seq(Units) /\ Len(m) = Needed(t)
      /\ ToThread(t) = m \o ToThread(t)' /\ ToThread(t)' \in Seq(Units)
      /\ Framed(ToThread(t))
      /\ m \o c2s'[t] = t_got[t] \o c2s[t] /\ c2s'[t] \in Seq(Units)
  BY <1>2, AllRead DEF RecvPlaces
<1>4. Len(m) = 2
  BY <1>3 DEF Needed, HeaderLen
<1>5. /\ h.type \in Types \union {"none"}
      /\ h.type \in Types => Sane(h)
  BY <1>3, <1>4, HeaderRead
<1>6. place \in {"close", "payload", "reply"} /\ n \in Nat
  <2>1. WithPayload \subseteq Types
    BY DEF WithPayload, Types
  <2>2. known /\ h.type \in WithPayload => PayloadLen(h) \in Nat
    BY <1>5, <2>1, FtpWireAssumption DEF Sane, Longest, HeaderLen
  <2> QED BY <2>2 DEF n, place
<1>7. t_pc'[t] = place /\ t_cmd'[t] = h.type /\ t_len'[t] = n
  BY <1>1, <1>2 DEF Handlers
<1>8. Handlers' /\ t_buf' \in [Conns -> Short]
  BY <1>1, <1>2, <1>5, <1>6 DEF Handlers
<1>9. ThreadInPlace(t)'
  <2>1. Needed(t)' \in Nat /\ Len(<<>>) = 0
    BY <1>6, <1>7 DEF Needed, HeaderLen
  <2>2. h.type = "SHA_REQUEST" => DigestsAsked
    BY <1>5 DEF Sane, Types
  <2> QED BY <1>3, <1>6, <1>7, <2>1, <2>2 DEF ThreadInPlace, DigestsAsked
<1>10. OpenGoesWell(t) => OpenGoesWell(t)'
  <2> SUFFICES ASSUME OpenGoesWell(t) PROVE OpenGoesWell(t)'
    OBVIOUS
  <2>1. t_got[t] \o c2s[t] # <<>>
    <3>1. \A x, y \in Seq(Units) : Len(x \o y) = Len(x) + Len(y) /\ Len(y) \in Nat
      BY Joined
    <3>2. Len(m \o c2s'[t]) = Len(m) + Len(c2s'[t]) /\ Len(c2s'[t]) \in Nat
      BY <1>3, <3>1
    <3>3. Len(m \o c2s'[t]) # 0
      BY <1>4, <3>2
    <3>4. m \o c2s'[t] # <<>>
      BY <3>3, EmptySeq
    <3> QED BY <1>3, <3>4
  <2>2. s2c[t] = <<>> /\ m \o c2s'[t] = OpenMessage
    BY <1>3, <2>1 DEF OpenGoesWell
  <2>6. /\ Len(OpenMessage) = 2 /\ MagicOk(OpenMessage)
        /\ HeaderIn(OpenMessage).type = "OPEN_CONN_REQUEST"
    BY OpenUnits
  <2>3. m = OpenMessage /\ c2s'[t] = <<>>
    BY <1>3, <1>4, <2>2, <2>6, Whole
  <2>4. known /\ h.type = "OPEN_CONN_REQUEST"
    BY <2>3, <2>6 DEF WithoutPayload
  <2>5. place = "reply"
    BY <2>4 DEF place, WithPayload
  <2> QED BY <1>3, <1>7, <2>2, <2>3, <2>4, <2>5, ConcatEmptySeq DEF OpenGoesWell
<1>11. place \in ServerPlaces \ {"idle", "ended", "dataBody"}
  BY <1>6 DEF ServerPlaces, RecvPlaces, SendPlaces
<1>12. \A k \in Conns \ {t} : /\ t_buf'[k] = t_buf[k] /\ t_cmd'[k] = t_cmd[k]
                              /\ t_name'[k] = t_name[k] /\ t_len'[k] = t_len[k]
  BY <1>1, <1>2 DEF Handlers
<1>13. <<>> \in Seq(Units) /\ t_dir' = t_dir
  BY <1>2, EmptySeq
<1> HIDE DEF m
<1> QED BY <1>2, <1>3, <1>8, <1>9, <1>10, <1>11, <1>12, <1>13, TakeKeeps

LEMMA ReadPayloadKeeps ==
    ASSUME OrderlyInv, NEW t \in Conns, DescriptorInv', UNCHANGED clientVars, ReadPayload(t)
    PROVE  OrderlyInv'
<1> DEFINE name == NameIn(Message(t)[1])
<1>1. /\ t_buf \in [Conns -> Short] /\ Handlers /\ t_pc \in [Conns -> ServerPlaces]
  BY TypesOf DEF OrderlyInv, FramesInv, FilesAreRaw, DescriptorInv, ControlTypeOK
<1>2. /\ ReadAll(t, "payload") /\ t_name' = [t_name EXCEPT ![t] = name]
      /\ t_pc' = [t_pc EXCEPT ![t] = "reply"]
      /\ UNCHANGED <<t_dir, t_cmd, t_len, t_buf>>
  BY DEF ReadPayload, Jump
<1>3. name \in FileNames \union Dirs \union {"none"}
  BY DEF NameIn, Data
<1> HIDE DEF name
<1>4. /\ t_pc[t] = "payload" /\ Lacking(t) \in Nat /\ Takes(t, Lacking(t))
      /\ t_got' = [t_got EXCEPT ![t] = <<>>] /\ t_got'[t] = <<>>
      /\ Message(t) \in Seq(Units)
      /\ ToThread(t) = Message(t) \o ToThread(t)' /\ ToThread(t)' \in Seq(Units)
  BY <1>2, AllRead DEF RecvPlaces
<1>5. t_pc'[t] = "reply" /\ Handlers' /\ t_buf' \in [Conns -> Short]
  BY <1>1, <1>2, <1>3 DEF Handlers
<1>6. ThreadInPlace(t)' /\ ~OpenGoesWell(t)
  <2>1. t_cmd' = t_cmd /\ ThreadInPlace(t)
    BY <1>2 DEF OrderlyInv, FramesInv, ThreadInv
  <2> QED BY <1>4, <1>5, <2>1 DEF ThreadInPlace, RecvPlaces, OpenGoesWell
<1>7. "reply" \in ServerPlaces \ {"idle", "ended", "dataBody"} /\ <<>> \in Seq(Units)
  BY EmptySeq DEF ServerPlaces, SendPlaces
<1>8. \A k \in Conns \ {t} : /\ t_buf'[k] = t_buf[k] /\ t_cmd'[k] = t_cmd[k]
                             /\ t_name'[k] = t_name[k] /\ t_len'[k] = t_len[k]
  BY <1>1, <1>2 DEF Handlers
<1> QED BY <1>2, <1>4, <1>5, <1>6, <1>7, <1>8, TakeKeeps

LEMMA ReadPutHeaderKeeps ==
    ASSUME OrderlyInv, NEW t \in Conns, DescriptorInv', UNCHANGED clientVars, ReadPutHeader(t)
    PROVE  OrderlyInv'
<1> DEFINE m == Message(t)
           h == HeaderIn(m)
           n == PayloadLen(h)
<1>1. /\ t_buf \in [Conns -> Short] /\ Handlers /\ t_pc \in [Conns -> ServerPlaces]
  BY TypesOf DEF OrderlyInv, FramesInv, FilesAreRaw, DescriptorInv, ControlTypeOK
<1>2. /\ ReadAll(t, "putHeader")
      /\ \/ t_pc' = [t_pc EXCEPT ![t] = "request"] /\ UNCHANGED <<t_len, t_buf>>
         \/ /\ h.type = "FILE_DATA"
            /\ \/ t_pc' = [t_pc EXCEPT ![t] = "putOpen"]
               \/ t_pc' = [t_pc EXCEPT ![t] = "putBody"]
            /\ t_len' = [t_len EXCEPT ![t] = n]
            /\ t_buf' = [t_buf EXCEPT ![t] = <<>>]
      /\ UNCHANGED <<t_dir, t_cmd, t_name>>
  BY DEF ReadPutHeader, Jump, PutLen
<1> HIDE DEF m, h, n
<1>3. /\ t_pc[t] = "putHeader" /\ Lacking(t) \in Nat /\ Takes(t, Lacking(t))
      /\ t_got' = [t_got EXCEPT ![t] = <<>>] /\ t_got'[t] = <<>>
      /\ m \in Seq(Units) /\ Len(m) = Needed(t)
      /\ ToThread(t) = m \o ToThread(t)' /\ ToThread(t)' \in Seq(Units)
      /\ Framed(ToThread(t))
  BY <1>2, AllRead DEF RecvPlaces, m
<1>4. Len(m) = 2
  BY <1>3 DEF Needed, HeaderLen
<1>5. h.type = "FILE_DATA" => n \in Nat /\ 0 =< Longest /\ FileAt(ToThread(t)', 0, n)
  <2>1. h.type = "FILE_DATA" => n \in 0 .. Longest /\ FileAt(ToThread(t)', 0, n)
    BY <1>3, <1>4, HeaderRead DEF Sane, Types, h, n
  <2>2. Longest \in Int
    BY FtpWireAssumption DEF Longest, HeaderLen
  <2> QED BY <2>1, <2>2
<1>6. <<>> \in Seq(Units) /\ ~OpenGoesWell(t) /\ t_dir' = t_dir
  BY <1>2, <1>3, EmptySeq DEF OpenGoesWell
<1>7. ASSUME NEW place \in {"request", "putOpen", "putBody"},
             t_pc' = [t_pc EXCEPT ![t] = place],
             NEW l \in Nat, t_len' = [t_len EXCEPT ![t] = l],
             NEW b \in Short, t_buf' = [t_buf EXCEPT ![t] = b],
             place = "putOpen" => b \in Mixed,
             place = "putBody" => FileAt(ToThread(t)', 0, l)
      PROVE  OrderlyInv'
  <2>1. t_pc'[t] = place /\ t_len'[t] = l /\ Handlers' /\ t_buf' \in [Conns -> Short]
    BY <1>1, <1>2, <1>7 DEF Handlers
  <2>2. ThreadInPlace(t)'
    <3>1. Needed(t)' \in Nat /\ Len(<<>>) = 0
      BY <2>1 DEF Needed, HeaderLen
    <3>2. t_pc'[t] = "putBody" => FileAt(ToThread(t), 0, t_len[t])'
      BY <1>7, <2>1
    <3>3. t_buf'[t] = b /\ t_cmd' = t_cmd /\ ThreadInPlace(t)
      BY <1>1, <1>2, <1>7 DEF OrderlyInv, FramesInv, ThreadInv
    <3> QED BY <1>3, <1>7, <2>1, <3>1, <3>2, <3>3 DEF ThreadInPlace
  <2>3. place \in ServerPlaces \ {"idle", "ended", "dataBody"}
    BY DEF ServerPlaces, RecvPlaces
  <2>4. \A k \in Conns \ {t} : /\ t_buf'[k] = t_buf[k] /\ t_cmd'[k] = t_cmd[k]
                               /\ t_name'[k] = t_name[k] /\ t_len'[k] = t_len[k]
    BY <1>1, <1>2, <1>7 DEF Handlers
  <2> QED BY <1>3, <1>6, <1>7, <2>1, <2>2, <2>3, <2>4, TakeKeeps
<1>8. t_len[t] \in Nat /\ t_len = [t_len EXCEPT ![t] = t_len[t]]
      /\ t_buf[t] \in Short /\ t_buf = [t_buf EXCEPT ![t] = t_buf[t]]
  BY <1>1 DEF Handlers
<1>9. CASE t_pc' = [t_pc EXCEPT ![t] = "request"] /\ UNCHANGED <<t_len, t_buf>>
  BY <1>7, <1>8, <1>9
<1>10. CASE /\ h.type = "FILE_DATA"
            /\ \/ t_pc' = [t_pc EXCEPT ![t] = "putOpen"]
               \/ t_pc' = [t_pc EXCEPT ![t] = "putBody"]
            /\ t_len' = [t_len EXCEPT ![t] = n]
            /\ t_buf' = [t_buf EXCEPT ![t] = <<>>]
  BY <1>5, <1>7, <1>10, EmptyMixed, MixedShort
<1> QED BY <1>2, <1>9, <1>10

LEMMA ReadPutBodyKeeps ==
    ASSUME OrderlyInv, NEW t \in Conns, DescriptorInv', UNCHANGED clientVars, ReadPutBody(t)
    PROVE  OrderlyInv'
<1>1. /\ t_buf \in [Conns -> Short] /\ Handlers /\ t_pc \in [Conns -> ServerPlaces]
      /\ ThreadInPlace(t)
  BY TypesOf DEF OrderlyInv, FramesInv, FilesAreRaw, DescriptorInv, ControlTypeOK, ThreadInv
<1>2. /\ ReadAll(t, "putBody") /\ t_buf' = [t_buf EXCEPT ![t] = Message(t)]
      /\ t_pc' = [t_pc EXCEPT ![t] = "putOpen"]
      /\ UNCHANGED <<t_dir, t_cmd, t_name, t_len>>
  BY DEF ReadPutBody, Jump
<1>3. /\ t_pc[t] = "putBody" /\ Lacking(t) \in Nat /\ Takes(t, Lacking(t))
      /\ t_got' = [t_got EXCEPT ![t] = <<>>] /\ t_got'[t] = <<>>
      /\ Message(t) \in Seq(Units) /\ Len(Message(t)) = t_len[t]
      /\ ToThread(t) = Message(t) \o ToThread(t)' /\ ToThread(t)' \in Seq(Units)
  <2>1. t_pc[t] = "putBody" => Needed(t) = t_len[t]
    BY DEF Needed
  <2> QED BY <1>2, <2>1, AllRead DEF RecvPlaces
<1>4. Message(t) \in Mixed
  <2>1. FileAt(Message(t) \o ToThread(t)', 0, Len(Message(t)))
    BY <1>1, <1>3 DEF ThreadInPlace
  <2> QED BY <1>3, <2>1, FileTaken
<1>5. t_pc'[t] = "putOpen" /\ Handlers' /\ t_buf' \in [Conns -> Short]
  BY <1>1, <1>2, <1>4, MixedShort DEF Handlers
<1>6. ThreadInPlace(t)' /\ ~OpenGoesWell(t)
  <2>1. t_cmd' = t_cmd /\ t_buf'[t] = Message(t)
    BY <1>1, <1>2
  <2> QED BY <1>1, <1>3, <1>4, <1>5, <2>1 DEF ThreadInPlace, RecvPlaces, OpenGoesWell
<1>7. "putOpen" \in ServerPlaces \ {"idle", "ended", "dataBody"} /\ <<>> \in Seq(Units)
  BY EmptySeq DEF ServerPlaces
<1>8. \A k \in Conns \ {t} : /\ t_buf'[k] = t_buf[k] /\ t_cmd'[k] = t_cmd[k]
                             /\ t_name'[k] = t_name[k] /\ t_len'[k] = t_len[k]
  BY <1>1, <1>2 DEF Handlers
<1> QED BY <1>2, <1>3, <1>5, <1>6, <1>7, <1>8, TakeKeeps
-----------------------------------------------------------------------------
(* The end of a thread, and the beginning of the next                      *)
LEMMA CloseKeeps ==
    ASSUME Orderly, OrderlyInv, NEW t \in Conns, DescriptorInv', UNCHANGED clientVars, CloseFd(t)
    PROVE  OrderlyInv'
<1>1. /\ t_buf \in [Conns -> Short] /\ Handlers /\ Streams /\ FilesAreRaw
      /\ t_pc \in [Conns -> ServerPlaces] /\ fds \in [Fds -> Conns \union {NoConn}]
      /\ ThreadInPlace(t) /\ StreamsFramed(t) /\ QuitLast(t)
  BY TypesOf DEF OrderlyInv, FramesInv, FilesAreRaw, DescriptorInv, ControlTypeOK, ThreadInv
<1>2. /\ t_pc[t] = "close" /\ t_pc' = [t_pc EXCEPT ![t] = "ended"]
      /\ fds' = [fds EXCEPT ![t_fd[t]] = NoConn] /\ NewLocals(t)
      /\ t_dir' = [t_dir EXCEPT ![t] = TopDir]
      /\ UNCHANGED <<c2s, s2c, clientEnds, made, accepted, reading, listening, t_fd, t_got, files>>
  BY DEF CloseFd, Closed, Jump, clientSide
<1>3. /\ t_cmd' = [t_cmd EXCEPT ![t] = "none"] /\ t_name' = [t_name EXCEPT ![t] = "none"]
      /\ t_len' = [t_len EXCEPT ![t] = 0] /\ t_buf' = [t_buf EXCEPT ![t] = <<>>]
  BY <1>2 DEF NewLocals
<1>4. /\ Handlers' /\ t_pc'[t] = "ended" /\ Streams'
  BY <1>1, <1>2, <1>3, FtpWireAssumption DEF Handlers, Streams
<1>5. t_buf' \in [Conns -> Short]
  BY <1>1, <1>3, EmptyMixed, MixedShort, FtpWireAssumption DEF Orderly, Longest, HeaderLen
<1>6. ThreadOnly(t)
  BY <1>1, <1>2, <1>3 DEF ThreadOnly, Handlers
<1>7. ASSUME NEW k \in Conns PROVE HasOwn(k)'
  <2>1. HasOwn(k) /\ HasOwn(t)
    BY DEF OrderlyInv, FramesInv, ThreadInv
  <2>2. CASE k = t
    BY <1>2, <1>4, <2>1, <2>2 DEF HasOwn, Running
  <2>3. CASE k # t
    <3>1. t_pc'[k] = t_pc[k]
      BY <1>1, <1>2, <2>3
    <3>2. Running(k) => t_fd[k] \in Fds /\ t_fd[t] # t_fd[k]
      BY <1>2, <2>3, ThreadStands DEF Running
    <3>3. Running(k) => fds'[t_fd[k]] = fds[t_fd[k]]
      BY <1>1, <1>2, <3>2
    <3> QED BY <1>2, <2>1, <3>1, <3>3 DEF HasOwn, Running
  <2> QED BY <2>2, <2>3
<1>8. ToClient(t)' = ToClient(t)
  BY <1>2, <1>4 DEF ToClient, Download
<1>9. StreamsFramed(t)' /\ QuitLast(t)' /\ Over(t)'
  BY <1>1, <1>2, <1>4, <1>8 DEF StreamsFramed, QuitLast, Over
<1>10. ThreadInPlace(t)'
  <2>1. t_cmd'[t] = "none"
    BY <1>1, <1>3 DEF Handlers
  <2> QED BY <1>1, <1>2, <1>4, <2>1 DEF ThreadInPlace, RecvPlaces
<1>11. ClientKept(t)
  BY <1>2, <1>8 DEF ClientKept, FileAt, OpenGoesWell
<1>12. files' \in [Files -> {NoFile} \union Mixed]
  BY <1>1, <1>2 DEF FilesAreRaw
<1> QED BY <1>4, <1>5, <1>6, <1>7, <1>9, <1>10, <1>11, <1>12, ThreadFrame

LEMMA AcceptKeeps ==
    ASSUME OrderlyInv, DescriptorInv', UNCHANGED clientVars, Accept
    PROVE  OrderlyInv'
<1>1. /\ t_buf \in [Conns -> Short] /\ Handlers /\ Streams /\ FilesAreRaw
      /\ t_pc \in [Conns -> ServerPlaces] /\ fds \in [Fds -> Conns \union {NoConn}]
      /\ t_fd \in [Conns -> Fds \union {0}]
      /\ made \in 0 .. MaxConns /\ accepted \in 0 .. made /\ MaxConns \in Nat
  BY TypesOf, Numbers DEF OrderlyInv, FramesInv, FilesAreRaw, DescriptorInv, ControlTypeOK
<1>2. PICK t \in Conns : t = accepted + 1
  BY <1>1 DEF Accept, Queued, Conns
<1>3. PICK f \in Fds : /\ fds[f] = NoConn /\ fds' = [fds EXCEPT ![f] = t]
                       /\ t_fd' = [t_fd EXCEPT ![t] = f]
  BY <1>2 DEF Accept
<1>4. /\ t_pc' = [t_pc EXCEPT ![t] = "request"] /\ accepted' = t /\ t =< made
      /\ UNCHANGED <<c2s, s2c, clientEnds, made, reading, listening>>
      /\ UNCHANGED <<t_dir, t_got, t_cmd, t_name, t_len, t_buf, files>>
  BY <1>2 DEF Accept, Jump, clientSide, handler, Queued
<1>5. t_pc[t] = "idle" /\ HasOwn(t) /\ ThreadInPlace(t) /\ StreamsFramed(t) /\ QuitLast(t)
  <2>1. t > accepted
    BY <1>1, <1>2
  <2> QED BY <2>1 DEF OrderlyInv, FramesInv, ThreadInv, HasOwn
<1>6. t_pc'[t] = "request" /\ Handlers' /\ Streams' /\ t_buf' \in [Conns -> Short]
  BY <1>1, <1>4 DEF Handlers, Streams
<1>7. ThreadOnly(t)
  BY <1>1, <1>4 DEF ThreadOnly
<1>8. ASSUME NEW k \in Conns PROVE HasOwn(k)'
  <2>1. HasOwn(k) /\ k \in Int
    BY DEF OrderlyInv, FramesInv, ThreadInv, Conns
  <2>2. CASE k = t
    <3>1. t_fd'[t] = f /\ fds'[f] = t /\ reading'[t] = reading[t]
      BY <1>1, <1>3, <1>4
    <3>2. ~(t > accepted')
      BY <1>4, <2>1, <2>2
    <3> QED BY <1>5, <1>6, <2>2, <3>1, <3>2 DEF HasOwn, Running
  <2>3. CASE k # t
    <3>1. t_pc'[k] = t_pc[k] /\ t_fd'[k] = t_fd[k] /\ (k > accepted' <=> k > accepted)
      BY <1>1, <1>2, <1>3, <1>4, <2>1, <2>3
    <3>2. Running(k) => t_fd[k] \in Fds /\ t_fd[k] # f
      BY <1>3, ThreadStands DEF Running
    <3>3. Running(k) => fds'[t_fd[k]] = fds[t_fd[k]]
      BY <1>1, <1>3, <3>2
    <3> QED BY <1>4, <2>1, <3>1, <3>3 DEF HasOwn, Running
  <2> QED BY <2>2, <2>3
<1>9. ToClient(t)' = ToClient(t) /\ ToThread(t)' = ToThread(t) /\ t_got[t] = <<>>
  BY <1>4, <1>5, <1>6 DEF ToClient, Download, ToThread, Upload, Uploads, clientVars,
                          ThreadInPlace, RecvPlaces
<1>10. StreamsFramed(t)'
  BY <1>5, <1>9 DEF StreamsFramed, Over
<1>11. QuitLast(t)'
  BY <1>4, <1>5, <1>6 DEF QuitLast, Over
<1>12. ThreadInPlace(t)'
  <2>1. Needed(t)' = 2 /\ Len(<<>>) = 0
    BY <1>6 DEF Needed, HeaderLen
  <2> QED BY <1>4, <1>5, <1>6, <1>9, <2>1 DEF ThreadInPlace
<1>13. ClientKept(t)
  BY <1>4, <1>5, <1>6, <1>9 DEF ClientKept, FileAt, OpenGoesWell
<1>14. files' \in [Files -> {NoFile} \union Mixed]
  BY <1>1, <1>4 DEF FilesAreRaw
<1> QED BY <1>6, <1>7, <1>8, <1>10, <1>11, <1>12, <1>13, <1>14, ThreadFrame
-----------------------------------------------------------------------------
(* What the step of a client leaves alone: all but its own variables and   *)
(* connection k, its only one or a new one.                                *)
ClientOnly(c, k) ==
    /\ UNCHANGED <<serverVars, accepted, fds, reading, listening>>
    /\ \A d \in Clients \ {c} :
          /\ c_pc'[d] = c_pc[d] /\ c_cmd'[d] = c_cmd[d] /\ c_arg'[d] = c_arg[d]
          /\ c_sock'[d] = c_sock[d] /\ c_len'[d] = c_len[d] /\ c_files'[d] = c_files[d]
    /\ c_sock[c] \in {k, NoConn} /\ c_sock'[c] \in {k, NoConn}
    /\ \A j \in Conns \ {k} :
          /\ c2s'[j] = c2s[j] /\ s2c'[j] = s2c[j] /\ owner'[j] = owner[j]
          /\ j \in clientEnds' <=> j \in clientEnds
    /\ \/ made' = made /\ (k \in Conns => k =< made /\ owner[k] = c)
       \/ made' = made + 1 /\ k = made'

LEMMA ConnectionsKept ==
    ASSUME OrderlyInv, NEW c \in Clients, NEW k, ClientOnly(c, k), NEW j \in Conns \ {k}
    PROVE  ThreadInv(j)' /\ ToClient(j)' = ToClient(j) /\ (OpenGoesWell(j) => OpenGoesWell(j)')
<1>1. /\ t_pc' = t_pc /\ t_fd' = t_fd /\ t_cmd' = t_cmd /\ t_dir' = t_dir /\ t_name' = t_name
      /\ t_len' = t_len /\ t_got' = t_got /\ t_buf' = t_buf /\ files' = files
      /\ accepted' = accepted /\ fds' = fds /\ reading' = reading
      /\ c2s'[j] = c2s[j] /\ s2c'[j] = s2c[j] /\ owner'[j] = owner[j]
      /\ j \in clientEnds' <=> j \in clientEnds
  BY DEF ClientOnly, serverVars
<1>2. Uploads(j)' <=> Uploads(j)
  <2>1. CASE owner[j] = c
    <3>1. c_sock[c] # j /\ c_sock'[c] # j
      BY Numbers DEF ClientOnly
    <3> QED BY <1>1, <2>1, <3>1 DEF Uploads
  <2>2. CASE owner[j] # c
    BY <1>1, <2>2 DEF Uploads, ClientOnly
  <2> QED BY <2>1, <2>2
<1>3. Upload(j)' = Upload(j)
  <2>1. Uploads(j) => owner[j] \in Clients \ {c}
    BY Numbers DEF Uploads, ClientOnly
  <2>2. Uploads(j) => /\ c_files'[owner[j]] = c_files[owner[j]]
                      /\ c_arg'[owner[j]] = c_arg[owner[j]]
    BY <2>1 DEF ClientOnly
  <2> QED BY <1>1, <1>2, <2>2 DEF Upload
<1>4. ToClient(j)' = ToClient(j) /\ ToThread(j)' = ToThread(j)
  BY <1>1, <1>3 DEF ToClient, Download, ToThread
<1>5. StreamsFramed(j) /\ ThreadInPlace(j) /\ HasOwn(j) /\ QuitLast(j)
  BY DEF OrderlyInv, FramesInv, ThreadInv
<1>6. Over(j)' = Over(j) /\ Needed(j)' = Needed(j) /\ FileOf(j)' = FileOf(j)
  BY <1>1 DEF Over, Needed, FileOf
<1>7. StreamsFramed(j)'
  BY <1>4, <1>5, <1>6 DEF StreamsFramed
<1>8. ThreadInPlace(j)'
  BY <1>1, <1>4, <1>5, <1>6 DEF ThreadInPlace, FileAt
<1>9. HasOwn(j)'
  BY <1>1, <1>5 DEF HasOwn, Running
<1>10. QuitLast(j)'
  <2>1. (j =< made' => j =< made) /\ (j > made' => j > made)
    <3>1. j \in Int /\ made \in Int
      BY Numbers DEF Conns, OrderlyInv, DescriptorInv, ControlTypeOK
    <3> QED BY <3>1 DEF ClientOnly
  <2> QED BY <1>1, <1>5, <1>6, <2>1 DEF QuitLast
<1> QED BY <1>1, <1>4, <1>7, <1>8, <1>9, <1>10 DEF ThreadInv, OpenGoesWell

LEMMA ClientFrame ==
    ASSUME OrderlyInv, DescriptorInv', NEW c \in Clients, NEW k \in Conns \union {NoConn},
           ClientOnly(c, k), Streams', ClientTypeOK', clientEnds' \subseteq Conns,
           c_files' \in [Clients -> [FileNames -> {NoFile} \union Mixed]],
           k \in Conns => /\ StreamsFramed(k)' /\ ThreadInPlace(k)' /\ QuitLast(k)'
                          /\ k =< made' /\ owner'[k] = c,
           k \in clientEnds' => c_sock'[c] = k,
           c_pc'[c] \notin {"prompt", "exited"} => c_sock'[c] # NoConn,
           ClientInPlace(c)', Opening(c)'
    PROVE  OrderlyInv'
<1>1. /\ t_pc' = t_pc /\ t_fd' = t_fd /\ t_cmd' = t_cmd /\ t_dir' = t_dir /\ t_name' = t_name
      /\ t_len' = t_len /\ t_got' = t_got /\ t_buf' = t_buf /\ files' = files
      /\ accepted' = accepted /\ fds' = fds /\ reading' = reading /\ listening' = listening
  BY DEF ClientOnly, serverVars
<1>2. made \in Int /\ made' \in Int /\ made =< made'
  BY Numbers DEF OrderlyInv, DescriptorInv, ControlTypeOK, ClientOnly
<1>3. FilesAreRaw'
  BY <1>1 DEF OrderlyInv, FramesInv, FilesAreRaw
<1>4. TypeOK'
  <2>1. /\ t_cmd' \in [Conns -> Types \union {"none"}] /\ t_dir' \in [Conns -> Dirs]
        /\ t_name' \in [Conns -> FileNames \union Dirs \union {"none"}]
        /\ t_len' \in [Conns -> Nat]
    BY <1>1, TypesOf DEF Handlers
  <2>2. /\ files' \in [Files -> {NoFile} \union Seq(Units)]
        /\ t_buf' \in [Conns -> Seq(Units)] /\ listening' \in BOOLEAN
    BY <1>1 DEF OrderlyInv, TypeOK, WireTypeOK, ServerTypeOK
  <2>3. /\ t_pc' \in [Conns -> ServerPlaces]
        /\ t_fd' \in [Conns -> Fds \union {0}]
        /\ fds' \in [Fds -> Conns \union {NoConn}]
        /\ reading' \in [Conns -> Conns \union {NoConn}]
        /\ made' \in 0 .. MaxConns
        /\ accepted' \in 0 .. made'
    BY DEF DescriptorInv, ControlTypeOK
  <2> QED BY <2>1, <2>2, <2>3 DEF TypeOK, WireTypeOK, ServerTypeOK, Streams
<1>5. ASSUME NEW j \in Conns PROVE ThreadInv(j)'
  <2>1. CASE j # k
    BY <2>1, ConnectionsKept
  <2>2. CASE j = k
    <3>1. HasOwn(k)
      BY <2>2 DEF OrderlyInv, FramesInv, ThreadInv
    <3>2. HasOwn(k)'
      BY <1>1, <3>1 DEF HasOwn, Running
    <3> QED BY <2>2, <3>2 DEF ThreadInv
  <2> QED BY <2>1, <2>2
<1>6. \A j \in clientEnds' : j \in Conns /\ j =< made'
                             /\ (j # k => j \in clientEnds /\ owner'[j] = owner[j] /\ j =< made)
  <2> SUFFICES ASSUME NEW j \in clientEnds'
               PROVE  j \in Conns /\ j =< made'
                      /\ (j # k => j \in clientEnds /\ owner'[j] = owner[j] /\ j =< made)
    OBVIOUS
  <2>1. j \in Conns /\ j \in Int
    BY DEF Conns
  <2>2. CASE j = k
    BY <2>1, <2>2
  <2>3. CASE j # k
    <3>1. j \in clientEnds /\ owner'[j] = owner[j]
      BY <2>1, <2>3 DEF ClientOnly
    <3>2. j =< made
      BY <3>1 DEF OrderlyInv, FramesInv, SessionInv, OneSocket
    <3> QED BY <1>2, <2>1, <2>3, <3>1, <3>2
  <2> QED BY <2>2, <2>3
<1>7. \A j \in clientEnds' : owner'[j] \in Clients
  <2> SUFFICES ASSUME NEW j \in clientEnds' PROVE owner'[j] \in Clients
    OBVIOUS
  <2> QED BY <1>6 DEF OrderlyInv, FramesInv
<1>8. SessionInv(c)'
  <2>1. OneSocket(c)
    BY DEF OrderlyInv, FramesInv, SessionInv
  <2>2. c_sock'[c] # NoConn => c_sock'[c] =< made' /\ owner'[c_sock'[c]] = c
    BY DEF ClientOnly
  <2>3. ASSUME NEW j \in clientEnds', owner'[j] = c PROVE c_sock'[c] = j
    <3>1. CASE j = k
      BY <3>1
    <3>2. CASE j # k
      <4>1. c_sock[c] = j
        BY <1>6, <2>1, <2>3, <3>2 DEF OneSocket
      <4> QED BY <1>6, <3>2, <4>1, Numbers DEF ClientOnly
    <3> QED BY <3>1, <3>2
  <2> QED BY <1>6, <2>2, <2>3 DEF SessionInv, OneSocket
<1>9. ASSUME NEW d \in Clients \ {c} PROVE SessionInv(d)'
  <2>1. /\ c_pc'[d] = c_pc[d] /\ c_cmd'[d] = c_cmd[d] /\ c_arg'[d] = c_arg[d]
        /\ c_sock'[d] = c_sock[d] /\ c_len'[d] = c_len[d] /\ c_files'[d] = c_files[d]
    BY DEF ClientOnly
  <2>2. OneSocket(d) /\ ClientInPlace(d) /\ Opening(d)
    BY DEF OrderlyInv, FramesInv, SessionInv
  <2>3. /\ c_sock[d] \in Conns \union {NoConn}
        /\ c_sock[d] # NoConn => c_sock[d] \in Conns \ {k}
    <3>1. c_sock[d] \in Conns \union {NoConn}
      BY TypesOf DEF ClientTypeOK
    <3>2. ASSUME c_sock[d] = k, k \in Conns PROVE FALSE
      <4>1. k =< made /\ owner[k] = d
        BY <2>2, <3>2, Numbers DEF OneSocket
      <4>2. made' = made + 1 /\ k = made'
        BY <3>2, <4>1 DEF ClientOnly
      <4> QED BY <1>2, <4>1, <4>2
    <3> QED BY <3>1, <3>2
  <2>4. OneSocket(d)'
    <3>1. c_sock[d] # NoConn => c_sock[d] =< made' /\ owner'[c_sock[d]] = d
      <4>1. c_sock[d] # NoConn => c_sock[d] \in Int /\ owner'[c_sock[d]] = owner[c_sock[d]]
        BY <2>3 DEF ClientOnly, Conns
      <4> QED BY <1>2, <2>2, <4>1 DEF OneSocket
    <3>2. ASSUME NEW j \in clientEnds', owner'[j] = d PROVE c_sock[d] = j
      <4>1. j # k
        BY <1>6, <3>2
      <4> QED BY <1>6, <2>2, <3>2, <4>1 DEF OneSocket
    <3> QED BY <1>6, <2>1, <2>2, <3>1, <3>2 DEF OneSocket
  <2>5. ASSUME NEW j \in Conns \ {k}, c_sock[d] = j
        PROVE  ClientInPlace(d)' /\ Opening(d)'
    <3>1. ToClient(j)' = ToClient(j) /\ (OpenGoesWell(j) => OpenGoesWell(j)')
          /\ (j \in clientEnds' <=> j \in clientEnds)
      BY ConnectionsKept DEF ClientOnly
    <3>2. FileAt(ToClient(j), 0, c_len[d]) => FileAt(ToClient(j)', 0, c_len'[d])
      BY <2>1, <3>1
    <3>3. c_sock'[d] = j
      BY <2>1, <2>5
    <3>4. ClientInPlace(d)'
      BY <2>1, <2>2, <2>5, <3>1, <3>2, <3>3 DEF ClientInPlace
    <3>5. Opening(d)'
      BY <2>1, <2>2, <2>5, <3>1, <3>3 DEF Opening
    <3> QED BY <3>4, <3>5
  <2>6. ASSUME c_sock[d] = NoConn PROVE ClientInPlace(d)' /\ Opening(d)'
    <3>1. NoConn \notin clientEnds /\ NoConn \notin clientEnds'
      BY Numbers, TypesOf
    <3> QED BY <2>1, <2>2, <2>6, <3>1 DEF ClientInPlace, Opening
  <2> QED BY <2>3, <2>4, <2>5, <2>6 DEF SessionInv
<1>10. \A d \in Clients : SessionInv(d)'
  BY <1>8, <1>9
<1> QED BY <1>1, <1>3, <1>4, <1>5, <1>7, <1>10 DEF OrderlyInv, FramesInv

(* The connection of a client; when its end is closed, or reset, the       *)
(* thread is done with it.                                                 *)
LEMMA ClientStands ==
    ASSUME OrderlyInv, NEW c \in Clients, NEW k, c_sock[c] = k, k # NoConn
    PROVE  /\ k \in Conns /\ k =< made /\ owner[k] = c
           /\ k \notin clientEnds \/ ~ServerEnd(k) \/ Reset(k) => Over(k)
<1>1. k \in Conns
  BY TypesOf DEF ClientTypeOK
<1>2. k =< made /\ owner[k] = c /\ QuitLast(k)
  BY <1>1 DEF OrderlyInv, FramesInv, SessionInv, OneSocket, ThreadInv
<1>3. ~ServerEnd(k) => t_pc[k] = "ended"
  BY <1>1, <1>2, ThreadStands
<1> QED BY <1>1, <1>2, <1>3 DEF QuitLast, Over, Reset

(* What the client has closed or read does not concern the thread.         *)
LEMMA ThreadUntouched ==
    ASSUME OrderlyInv, NEW k \in Conns, UNCHANGED serverVars, ToThread(k)' = ToThread(k) \/ Over(k)
    PROVE  ThreadInPlace(k)'
<1>1. /\ t_pc' = t_pc /\ t_got' = t_got /\ t_len' = t_len /\ files' = files
      /\ t_dir' = t_dir /\ t_name' = t_name /\ t_buf' = t_buf /\ t_cmd' = t_cmd
  BY DEF serverVars
<1>2. ThreadInPlace(k) /\ Needed(k)' = Needed(k) /\ FileOf(k)' = FileOf(k)
  BY <1>1 DEF OrderlyInv, FramesInv, ThreadInv, Needed, FileOf
<1> QED BY <1>1, <1>2 DEF ThreadInPlace, Over, FileAt

LEMMA CannotSendKeeps ==
    ASSUME OrderlyInv, DescriptorInv', NEW c \in Clients, c_sock[c] # NoConn,
           NEW cmd, CannotSend(c, cmd), c_pc' = [c_pc EXCEPT ![c] = "prompt"],
           UNCHANGED <<c_len, c_files, owner, s2c, serverSide, serverVars>>,
           ClientTypeOK',
           \A d \in Clients \ {c} : c_cmd'[d] = c_cmd[d] /\ c_arg'[d] = c_arg[d]
    PROVE  OrderlyInv'
<1>1. PICK k \in Conns : c_sock[c] = k /\ k =< made /\ owner[k] = c /\ QuitLast(k) /\ Over(k)
  <2>1. PICK k \in Conns : c_sock[c] = k /\ k =< made /\ owner[k] = c
    BY ClientStands
  <2>2. Over(k)
    BY <2>1, ClientStands, Numbers DEF CannotSend
  <2> QED BY <2>1, <2>2 DEF OrderlyInv, FramesInv, ThreadInv
<1>2. /\ clientEnds' = clientEnds \ {k}
      /\ c_sock' = c_sock \/ c_sock' = [c_sock EXCEPT ![c] = NoConn]
      /\ UNCHANGED <<c2s, s2c, made, accepted, fds, reading, listening, owner>>
  BY <1>1 DEF CannotSend, Disconnected, serverSide
<1>3. /\ c_pc \in [Clients -> ClientPlaces] /\ c_sock \in [Clients -> Conns \union {NoConn}]
      /\ Streams /\ clientEnds \subseteq Conns
      /\ c_files \in [Clients -> [FileNames -> {NoFile} \union Mixed]]
  BY TypesOf DEF ClientTypeOK, OrderlyInv, FramesInv, FilesAreRaw
<1>4. c_pc'[c] = "prompt" /\ c_sock'[c] \in {k, NoConn}
  BY <1>1, <1>2, <1>3
<1>5. ClientOnly(c, k)
  BY <1>1, <1>2, <1>3, <1>4 DEF ClientOnly, serverVars
<1>6. StreamsFramed(k)' /\ QuitLast(k)' /\ ThreadInPlace(k)'
  <2>1. ToClient(k)' = ToClient(k) /\ Over(k)' /\ StreamsFramed(k)
    BY <1>1, <1>2
       DEF ToClient, Download, Over, serverVars, OrderlyInv, FramesInv, ThreadInv
  <2> QED BY <1>1, <1>2, <2>1, ThreadUntouched DEF StreamsFramed, QuitLast
<1>7. ClientInPlace(c)' /\ Opening(c)'
  BY <1>4 DEF ClientInPlace, Opening
<1>8. Streams' /\ clientEnds' \subseteq Conns
  BY <1>2, <1>3 DEF Streams, serverVars
<1>9. /\ c_files' \in [Clients -> [FileNames -> {NoFile} \union Mixed]]
      /\ k =< made' /\ owner'[k] = c
      /\ k \in clientEnds' => c_sock'[c] = k
      /\ c_pc'[c] \notin {"prompt", "exited"} => c_sock'[c] # NoConn
  BY <1>1, <1>2, <1>3, <1>4
<1> QED BY <1>5, <1>6, <1>7, <1>8, <1>9, ClientFrame

LEMMA ClientSendsKeeps ==
    ASSUME OrderlyInv, DescriptorInv', NEW c \in Clients, NEW units \in Seq(Units),
           ClientSends(c, units), NEW place \in ClientPlaces \ {"exited", "body"},
           c_pc' = [c_pc EXCEPT ![c] = place],
           UNCHANGED <<c_len, c_files, owner, s2c, serverSide, serverVars>>,
           ClientTypeOK',
           \A d \in Clients \ {c} : c_cmd'[d] = c_cmd[d] /\ c_arg'[d] = c_arg[d],
           place \in {"name", "reply"} => c_cmd'[c] # "open",
           place \in {"fileHeader", "fileBody"} => c_cmd'[c] = "put",
           place = "name" => c_arg'[c] \in FileNames \union Dirs,
           place # "prompt" /\ c_cmd'[c] = "put" =>
               c_arg'[c] \in FileNames /\ c_files[c][c_arg'[c]] \in Mixed,
           NEW more \in Seq(Units), Framed(more),
           \A k \in Conns : c_sock[c] = k => ToThread(k)' = ToThread(k) \o more
    PROVE  OrderlyInv'
<1>0. clientEnds \subseteq Conns
  BY TypesOf
<1>1. PICK k \in Conns : /\ c_sock[c] = k /\ k =< made /\ owner[k] = c
                         /\ QuitLast(k) /\ StreamsFramed(k) /\ ThreadInPlace(k)
                         /\ k \in clientEnds /\ k # NoConn
  <2>1. c_sock[c] \in clientEnds /\ c_sock[c] # NoConn
    BY <1>0, Numbers DEF ClientSends
  <2>2. PICK k \in Conns : c_sock[c] = k /\ k =< made /\ owner[k] = c
    BY <2>1, ClientStands
  <2> QED BY <2>1, <2>2 DEF OrderlyInv, FramesInv, ThreadInv
<1>2. /\ c2s' = [c2s EXCEPT ![k] = @ \o units] /\ c_sock' = c_sock /\ clientEnds' = clientEnds
      /\ UNCHANGED <<s2c, made, accepted, fds, reading, listening, owner, c_files>>
  BY <1>1 DEF ClientSends, serverSide
<1>3. /\ c_pc \in [Clients -> ClientPlaces] /\ Streams
      /\ c_files \in [Clients -> [FileNames -> {NoFile} \union Mixed]]
      /\ c2s[k] \in Seq(Units) /\ t_got[k] \in Seq(Units)
  BY TypesOf DEF ClientTypeOK, OrderlyInv, FramesInv, FilesAreRaw, Streams
<1>4. c_pc'[c] = place
  BY <1>3
<1>5. ClientOnly(c, k)
  BY <1>1, <1>2, <1>3 DEF ClientOnly, serverVars, Streams
<1>6. Streams'
  <2>1. c2s[k] \o units \in Seq(Units)
    BY <1>3, Joined
  <2>2. c2s' \in [Conns -> Seq(Units)]
    BY <1>2, <1>3, <2>1 DEF Streams
  <2> QED BY <1>2, <1>3, <2>2 DEF Streams, serverVars
<1>7. ToClient(k)' = ToClient(k) /\ (Over(k)' <=> Over(k))
  BY <1>2 DEF ToClient, Download, Over, serverVars
<1>8. ToThread(k) \in Seq(Units) /\ ToThread(k)' = ToThread(k) \o more
  <2>1. t_got[k] \o c2s[k] \in Seq(Units)
    BY <1>3, Joined
  <2>2. Upload(k) \in Seq(Units)
    <3>1. \A d \in Clients : c_pc[d] = "fileBody" => c_files[d][c_arg[d]] \in Mixed
      BY DEF OrderlyInv, FramesInv, SessionInv, ClientInPlace
    <3> QED BY <3>1, MixedShort, ShortUnits, EmptySeq DEF Upload, Uploads
  <2> QED BY <1>1, <2>1, <2>2, Joined DEF ToThread
<1>9. StreamsFramed(k)'
  <2>1. ~Over(k) => Framed(ToThread(k)')
    BY <1>1, <1>8, FramedJoin DEF StreamsFramed
  <2> QED BY <1>1, <1>7, <2>1 DEF StreamsFramed
<1>10. QuitLast(k)'
  <2>1. ~(k > made)
    BY <1>1, Numbers DEF OrderlyInv, DescriptorInv, ControlTypeOK, Conns
  <2> QED BY <1>1, <1>2, <1>7, <2>1 DEF QuitLast
<1>11. ThreadInPlace(k)'
  <2>1. /\ t_pc' = t_pc /\ t_got' = t_got /\ t_len' = t_len /\ files' = files
        /\ t_dir' = t_dir /\ t_name' = t_name /\ t_buf' = t_buf /\ t_cmd' = t_cmd
    BY DEF serverVars
  <2>2. Needed(k)' = Needed(k) /\ FileOf(k)' = FileOf(k)
    BY <2>1 DEF Needed, FileOf
  <2>3. FileAt(ToThread(k), 0, t_len[k]) => FileAt(ToThread(k), 0, t_len[k])'
    <3>1. FileAt(ToThread(k), 0, t_len[k]) => FileAt(ToThread(k) \o more, 0, t_len[k])
      BY <1>8, FileKept
    <3> QED BY <1>8, <2>1, <3>1
  <2> QED BY <1>1, <2>1, <2>2, <2>3 DEF ThreadInPlace
<1>12. ClientInPlace(c)' /\ Opening(c)'
  BY <1>2, <1>4 DEF ClientInPlace, Opening
<1>13. /\ c_files' \in [Clients -> [FileNames -> {NoFile} \union Mixed]]
       /\ k =< made' /\ owner'[k] = c
       /\ k \in clientEnds' => c_sock'[c] = k
       /\ c_pc'[c] \notin {"prompt", "exited"} => c_sock'[c] # NoConn
       /\ clientEnds' \subseteq Conns
  BY <1>0, <1>1, <1>2, <1>3
<1> QED BY <1>5, <1>6, <1>9, <1>10, <1>11, <1>12, <1>13, ClientFrame

LEMMA Sent ==
    ASSUME OrderlyInv, NEW k \in Conns, NEW units \in Seq(Units), NEW u \in Seq(Units),
           c2s'[k] = c2s[k] \o units, t_got' = t_got, Upload(k) = <<>>, Upload(k)' = u
    PROVE  ToThread(k)' = ToThread(k) \o (units \o u)
<1> DEFINE g == t_got[k]
           s == c2s[k]
<1>1. g \in Seq(Units) /\ s \in Seq(Units)
  BY TypesOf DEF Streams
<1>3. ToThread(k) = (g \o s) \o <<>> /\ ToThread(k)' = (g \o (s \o units)) \o u
  BY DEF ToThread
<1> HIDE DEF g, s
<1>4. g \o s \in Seq(Units) /\ (g \o s) \o <<>> = g \o s
  BY <1>1, Chains, SMTT(30)
<1>5. g \o (s \o units) = (g \o s) \o units
  BY <1>1, Chained, SMTT(30)
<1>6. ((g \o s) \o units) \o u = (g \o s) \o (units \o u)
  BY <1>4, Chained, SMTT(30)
<1> QED BY <1>3, <1>4, <1>5, <1>6

(* The commands                                                            *)
LEMMA CommandKeeps ==
    ASSUME Orderly, OrderlyInv, DescriptorInv', UNCHANGED serverVars, NEW c \in Clients,
           NEW cmd \in {"ls", "cd", "get", "put", "sha256", "quit"}, NEW n \in {0, 1},
           Command(c, cmd, n),
           NEW a \in FileNames \union Dirs \union {"none"}, c_arg' = [c_arg EXCEPT ![c] = a],
           n = 1 => a \in FileNames \union Dirs,
           cmd = "put" => a \in FileNames /\ c_files[c][a] \in Mixed,
           cmd = "sha256" => DigestsAsked
    PROVE  OrderlyInv'
<1> DEFINE m == Header(Request(cmd), "STATUS_UNUSED", n)
<1>1. /\ c_pc[c] = "prompt" /\ c_sock[c] # NoConn
      /\ c_cmd' = [c_cmd EXCEPT ![c] = cmd]
      /\ UNCHANGED <<c_len, c_files, owner, s2c, serverSide>>
  BY DEF Command
<1>2. ClientTypeOK
  BY TypesOf
<1>3. /\ c_cmd'[c] = cmd /\ c_arg'[c] = a
      /\ \A d \in Clients \ {c} : c_cmd'[d] = c_cmd[d] /\ c_arg'[d] = c_arg[d]
  BY <1>1, <1>2 DEF ClientTypeOK
<1>4. ASSUME NEW place \in ClientPlaces, c_pc' = [c_pc EXCEPT ![c] = place],
             c_ret' \in [Clients -> {0, 1}], c_sock' \in [Clients -> Conns \union {NoConn}]
      PROVE  ClientTypeOK'
  BY <1>1, <1>2, <1>4 DEF ClientTypeOK
<1>5. CASE CannotSend(c, cmd) /\ Return(c, 1)
  <2>1. c_pc' = [c_pc EXCEPT ![c] = "prompt"] /\ c_ret' = [c_ret EXCEPT ![c] = 1]
        /\ (c_sock' = c_sock \/ c_sock' = [c_sock EXCEPT ![c] = NoConn])
    BY <1>5 DEF Return, CannotSend, Disconnected
  <2>2. ClientTypeOK'
    BY <1>2, <1>4, <2>1 DEF ClientTypeOK, ClientPlaces
  <2> QED BY <1>1, <1>3, <1>5, <2>1, <2>2, CannotSendKeeps
<1>6. CASE ClientSends(c, m) /\ Goto(c, IF n = 0 THEN "reply" ELSE "name")
  <2>1. PICK place \in {"reply", "name"} :
            c_pc' = [c_pc EXCEPT ![c] = place] /\ c_ret' = c_ret /\ (place = "name" => n = 1)
    BY <1>6 DEF Goto
  <2>2. c_sock' = c_sock
    BY <1>6 DEF ClientSends
  <2>3. ClientTypeOK'
    BY <1>2, <1>4, <2>1, <2>2 DEF ClientTypeOK, ClientPlaces
  <2>4. m \in Seq(Units) /\ Framed(m)
    <3>1. Request(cmd) \in Types \ {"FILE_DATA"}
      BY DEF Request, Types
    <3>2. n \in 0 .. Longest /\ "STATUS_UNUSED" \in Statuses
      BY FtpWireAssumption DEF Orderly, Longest, HeaderLen, Statuses
    <3>3. Request(cmd) = "SHA_REQUEST" => DigestsAsked
      BY DEF Request
    <3> QED BY <3>1, <3>2, <3>3, HeaderUnits, FramedHeader
  <2> HIDE DEF m
  <2>5. ASSUME NEW k \in Conns, c_sock[c] = k PROVE ToThread(k)' = ToThread(k) \o m
    <3>1. owner[k] = c /\ owner' = owner
      BY <1>1, <2>5, Numbers, ClientStands
    <3>2. c2s'[k] = c2s[k] \o m /\ t_got' = t_got
      BY <1>6, <2>5, TypesOf DEF ClientSends, Streams, serverVars
    <3>3. c_pc'[c] = place
      BY <1>2, <2>1 DEF ClientTypeOK
    <3>4. Upload(k) = <<>> /\ Upload(k)' = <<>>
      BY <1>1, <3>1, <3>3 DEF Upload, Uploads
    <3>5. m \o <<>> = m /\ <<>> \in Seq(Units)
      BY <2>4, ConcatEmptySeq, EmptySeq
    <3> QED BY <2>4, <3>2, <3>4, <3>5, Sent
  <2>6. place \in ClientPlaces \ {"exited", "body"} /\ place \notin {"fileHeader", "fileBody"}
    BY DEF ClientPlaces
  <2> QED BY <1>1, <1>3, <1>6, <2>1, <2>3, <2>4, <2>5, <2>6, ClientSendsKeeps
<1> QED BY <1>5, <1>6 DEF Command

LEMMA CommandsKeep ==
    ASSUME Orderly, OrderlyInv, DescriptorInv', UNCHANGED serverVars, NEW c \in Clients,
           Quit(c) \/ Ls(c) \/ Cd(c) \/ Get(c) \/ Put(c) \/ Sha256(c)
    PROVE  OrderlyInv'
<1>1. c_arg \in [Clients -> FileNames \union Dirs \union {"none"}]
  BY TypesOf DEF ClientTypeOK
<1>2. c_arg[c] \in FileNames \union Dirs \union {"none"} /\ c_arg = [c_arg EXCEPT ![c] = c_arg[c]]
  BY <1>1
<1>3. CASE Quit(c)
  BY <1>2, <1>3, CommandKeeps DEF Quit
<1>4. CASE Ls(c)
  BY <1>2, <1>4, CommandKeeps DEF Ls
<1>5. CASE Cd(c)
  BY <1>5, CommandKeeps DEF Cd
<1>6. CASE Get(c)
  BY <1>6, CommandKeeps DEF Get, NamesFile
<1>7. CASE Put(c)
  <2>1. PICK n \in FileNames : c_files[c][n] # NoFile /\ NamesFile(c, "put", n)
    BY <1>7 DEF Put
  <2>2. c_files[c][n] \in Mixed
    BY <2>1 DEF OrderlyInv, FramesInv, FilesAreRaw
  <2> QED BY <2>1, <2>2, CommandKeeps DEF NamesFile
<1>8. CASE Sha256(c)
  BY <1>8, CommandKeeps DEF Sha256, NamesFile, DigestsAsked
<1> QED BY <1>3, <1>4, <1>5, <1>6, <1>7, <1>8

LEMMA SendNameKeeps ==
    ASSUME OrderlyInv, DescriptorInv', UNCHANGED serverVars, NEW c \in Clients, SendName(c)
    PROVE  OrderlyInv'
<1> DEFINE m == <<Data(c_arg[c])>>
<1>1. /\ c_pc[c] = "name" /\ UNCHANGED <<c_cmd, c_arg, c_len, c_files, owner, s2c, serverSide>>
      /\ c_sock[c] # NoConn
  <2>1. c_pc[c] = "name" /\ UNCHANGED <<c_cmd, c_arg, c_len, c_files, owner, s2c, serverSide>>
    BY DEF SendName
  <2>2. OneSocket(c)
    BY DEF OrderlyInv, FramesInv, SessionInv
  <2> QED BY <2>1, <2>2 DEF OneSocket
<1>2. ClientTypeOK /\ ClientInPlace(c)
  BY TypesOf DEF OrderlyInv, FramesInv, SessionInv
<1>4. ASSUME NEW place \in ClientPlaces, c_pc' = [c_pc EXCEPT ![c] = place],
             c_ret' \in [Clients -> {0, 1}], c_sock' \in [Clients -> Conns \union {NoConn}]
      PROVE  ClientTypeOK'
  BY <1>1, <1>2, <1>4 DEF ClientTypeOK
<1>5. CASE CannotSend(c, c_cmd[c]) /\ Return(c, 1)
  <2>1. c_pc' = [c_pc EXCEPT ![c] = "prompt"] /\ c_ret' = [c_ret EXCEPT ![c] = 1]
        /\ (c_sock' = c_sock \/ c_sock' = [c_sock EXCEPT ![c] = NoConn])
    BY <1>5 DEF Return, CannotSend, Disconnected
  <2>2. ClientTypeOK'
    BY <1>2, <1>4, <2>1 DEF ClientTypeOK, ClientPlaces
  <2> QED BY <1>1, <1>5, <2>1, <2>2, CannotSendKeeps
<1>6. CASE ClientSends(c, m) /\ Goto(c, "reply")
  <2>1. c_pc' = [c_pc EXCEPT ![c] = "reply"] /\ c_ret' = c_ret /\ c_sock' = c_sock
    BY <1>6 DEF Goto, ClientSends
  <2>2. ClientTypeOK' /\ "reply" \in ClientPlaces \ {"exited", "body"}
    BY <1>2, <1>4, <2>1 DEF ClientTypeOK, ClientPlaces
  <2>3. m \in Seq(Units) /\ Framed(m)
    <3>1. c_arg[c] \in FileNames \union Dirs
      BY <1>1, <1>2 DEF ClientInPlace
    <3>2. Data(c_arg[c]) \in Raw
      BY <3>1, DataRaw
    <3>3. Data(c_arg[c]) \in Units /\ ~IsHead(Data(c_arg[c]))
      BY <3>2, RawUnits DEF IsHead
    <3> HIDE DEF Data
    <3>4. m \in Seq(Units) /\ \A i \in DOMAIN m : m[i] = Data(c_arg[c])
      BY <3>3
    <3> QED BY <3>3, <3>4 DEF Framed
  <2> HIDE DEF m
  <2>4. ASSUME NEW k \in Conns, c_sock[c] = k PROVE ToThread(k)' = ToThread(k) \o m
    <3>1. owner[k] = c /\ owner' = owner
      BY <1>1, <2>4, Numbers, ClientStands
    <3>2. c2s'[k] = c2s[k] \o m /\ t_got' = t_got
      BY <1>6, <2>4, TypesOf DEF ClientSends, Streams, serverVars
    <3>3. c_pc'[c] = "reply"
      BY <1>2, <2>1 DEF ClientTypeOK
    <3>4. Upload(k) = <<>> /\ Upload(k)' = <<>>
      BY <1>1, <3>1, <3>3 DEF Upload, Uploads
    <3>5. m \o <<>> = m /\ <<>> \in Seq(Units)
      BY <2>3, ConcatEmptySeq, EmptySeq
    <3>6. ToThread(k)' = ToThread(k) \o (m \o <<>>)
      BY <2>3, <3>2, <3>4, <3>5, Sent
    <3> QED BY <3>5, <3>6
  <2>5. /\ c_cmd'[c] # "open"
        /\ c_cmd'[c] = "put" => c_arg'[c] \in FileNames /\ c_files[c][c_arg'[c]] \in Mixed
    BY <1>1, <1>2 DEF ClientInPlace
  <2> QED BY <1>1, <1>6, <2>1, <2>2, <2>3, <2>4, <2>5, ClientSendsKeeps
<1> QED BY <1>5, <1>6 DEF SendName

LEMMA SendFileKeeps ==
    ASSUME Orderly, OrderlyInv, DescriptorInv', UNCHANGED serverVars, NEW c \in Clients,
           FileHeader(c) \/ FileBody(c)
    PROVE  OrderlyInv'
<1> DEFINE f == c_files[c][c_arg[c]]
           m == Header("FILE_DATA", "STATUS_UNUSED", Len(f))
<1>1. /\ c_pc[c] \in {"fileHeader", "fileBody"} /\ c_sock[c] # NoConn
      /\ UNCHANGED <<c_cmd, c_arg, c_len, c_files, owner, s2c, serverSide>>
  <2>1. /\ c_pc[c] \in {"fileHeader", "fileBody"}
        /\ UNCHANGED <<c_cmd, c_arg, c_len, c_files, owner, s2c, serverSide>>
    BY DEF FileHeader, FileBody
  <2>2. OneSocket(c)
    BY DEF OrderlyInv, FramesInv, SessionInv
  <2> QED BY <2>1, <2>2 DEF OneSocket
<1>2. ClientTypeOK /\ ClientInPlace(c)
  BY TypesOf DEF OrderlyInv, FramesInv, SessionInv
<1>3. c_cmd[c] = "put" /\ c_arg[c] \in FileNames /\ f \in Mixed
  BY <1>1, <1>2 DEF ClientInPlace
<1> HIDE DEF f
<1>4. f \in Seq(Units) /\ Len(f) \in Nat /\ (Len(f) = 0 => f = <<>>)
  BY <1>3, MixedShort, ShortUnits, LenProperties, EmptySeq
<1>5. ASSUME NEW place \in ClientPlaces, c_pc' = [c_pc EXCEPT ![c] = place],
             c_ret' = c_ret \/ \E r \in {0, 1} : c_ret' = [c_ret EXCEPT ![c] = r],
             c_sock' = c_sock \/ c_sock' = [c_sock EXCEPT ![c] = NoConn]
      PROVE  ClientTypeOK' /\ c_pc'[c] = place
  BY <1>1, <1>2, <1>5 DEF ClientTypeOK
<1>6. CASE CannotSend(c, c_cmd[c]) /\ Return(c, 1)
  <2>1. c_pc' = [c_pc EXCEPT ![c] = "prompt"] /\ c_ret' = [c_ret EXCEPT ![c] = 1]
        /\ (c_sock' = c_sock \/ c_sock' = [c_sock EXCEPT ![c] = NoConn])
    BY <1>6 DEF Return, CannotSend, Disconnected
  <2>2. ClientTypeOK'
    BY <1>5, <2>1 DEF ClientPlaces
  <2> QED BY <1>1, <1>6, <2>1, <2>2, CannotSendKeeps
<1>7. ASSUME NEW k \in Conns, c_sock[c] = k, NEW units, ClientSends(c, units)
      PROVE  /\ owner[k] = c /\ owner' = owner /\ c_sock' = c_sock
             /\ c2s'[k] = c2s[k] \o units /\ t_got' = t_got
             /\ Upload(k) = IF c_pc[c] = "fileBody" THEN f ELSE <<>>
             /\ Upload(k)' = IF c_pc'[c] = "fileBody" THEN f ELSE <<>>
  <2>1. owner[k] = c /\ owner' = owner
    BY <1>1, <1>7, Numbers, ClientStands
  <2>2. c2s'[k] = c2s[k] \o units /\ t_got' = t_got /\ c_sock' = c_sock
    BY <1>7, TypesOf DEF ClientSends, Streams, serverVars
  <2> QED BY <1>1, <1>7, <2>1, <2>2 DEF Upload, Uploads, f
<1>8. CASE /\ c_pc[c] = "fileHeader" /\ ClientSends(c, m)
           /\ IF Len(f) = 0 THEN Return(c, 0) ELSE Goto(c, "fileBody")
  <2>1. PICK place \in {"prompt", "fileBody"} :
            /\ c_pc' = [c_pc EXCEPT ![c] = place] /\ c_sock' = c_sock
            /\ c_ret' = c_ret \/ c_ret' = [c_ret EXCEPT ![c] = 0]
            /\ place = "prompt" => Len(f) = 0
    BY <1>8 DEF Goto, Return, ClientSends
  <2>2. ClientTypeOK' /\ c_pc'[c] = place /\ place \in ClientPlaces \ {"exited", "body"}
    BY <1>5, <2>1 DEF ClientPlaces
  <2>3. m \in Seq(Units) /\ Framed(m \o f)
    BY <1>3, FramedMessage
  <2> HIDE DEF m
  <2>4. m \o f \in Seq(Units)
    BY <1>4, <2>3, Joined
  <2>5. ASSUME NEW k \in Conns, c_sock[c] = k PROVE ToThread(k)' = ToThread(k) \o (m \o f)
    <3>1. c2s'[k] = c2s[k] \o m /\ t_got' = t_got /\ Upload(k) = <<>> /\ Upload(k)' = f
      BY <1>4, <1>7, <1>8, <2>1, <2>2, <2>5
    <3> QED BY <1>4, <2>3, <3>1, Sent
  <2> QED BY <1>1, <1>3, <1>8, <2>1, <2>2, <2>3, <2>4, <2>5, ClientSendsKeeps DEF f
<1>9. CASE c_pc[c] = "fileBody" /\ ClientSends(c, f) /\ Return(c, 0)
  <2>1. c_pc' = [c_pc EXCEPT ![c] = "prompt"] /\ c_ret' = [c_ret EXCEPT ![c] = 0]
        /\ c_sock' = c_sock
    BY <1>9 DEF Return, ClientSends
  <2>2. ClientTypeOK' /\ c_pc'[c] = "prompt" /\ "prompt" \in ClientPlaces \ {"exited", "body"}
    BY <1>5, <2>1 DEF ClientPlaces
  <2>3. <<>> \in Seq(Units) /\ Framed(<<>>)
    BY EmptySeq DEF Framed
  <2>4. ASSUME NEW k \in Conns, c_sock[c] = k PROVE ToThread(k)' = ToThread(k) \o <<>>
    <3>1. c2s'[k] = c2s[k] \o f /\ t_got' = t_got /\ Upload(k) = f /\ Upload(k)' = <<>>
      BY <1>7, <1>9, <2>2, <2>4
    <3>2. c2s[k] \in Seq(Units) /\ t_got[k] \in Seq(Units)
      BY TypesOf DEF Streams
    <3>3. (t_got[k] \o c2s[k]) \o f = t_got[k] \o (c2s[k] \o f)
      BY <1>4, <3>2, Chained
    <3>4. t_got[k] \o (c2s[k] \o f) \in Seq(Units)
      BY <1>4, <3>2, Chains
    <3>5. ToThread(k)' = (t_got[k] \o (c2s[k] \o f)) \o <<>>
      BY <3>1 DEF ToThread
    <3>6. ToThread(k) = t_got[k] \o (c2s[k] \o f)
      BY <3>1, <3>3 DEF ToThread
    <3> QED BY <3>5, <3>6
  <2> QED BY <1>1, <1>4, <1>9, <2>1, <2>2, <2>3, <2>4, ClientSendsKeeps
<1> QED BY <1>6, <1>8, <1>9 DEF FileHeader, FileBody, f
-----------------------------------------------------------------------------
(* What a client receives                                                  *)
Came(k, n, o) ==
    /\ o.units \in Seq(Units) /\ o.rest \in Seq(Units)
    /\ o.end = "full" => k \in clientEnds /\ Len(o.units) = n /\ s2c[k] = o.units \o o.rest
    /\ o.end # "full" => Over(k) /\ o.rest = <<>>
    /\ ~Over(k) => o.end = "full"
    /\ \E m \in Seq(Units) : s2c[k] = m \o o.rest

LEMMA Outcomes ==
    ASSUME OrderlyInv, NEW c \in Clients, NEW k \in Conns, c_sock[c] = k, NEW n \in Nat
    PROVE  \A o \in Received(c, n) : Came(k, n, o)
<1>1. s2c[k] \in Seq(Units) /\ Len(s2c[k]) \in Nat /\ <<>> \in Seq(Units)
  BY TypesOf, LenProperties, EmptySeq DEF Streams
<1>2. k \notin clientEnds \/ ~ServerEnd(k) \/ Reset(k) => Over(k)
  BY ClientStands, Numbers
<1> SUFFICES ASSUME NEW o \in Received(c, n) PROVE Came(k, n, o)
  OBVIOUS
<1>3. \/ /\ k \in clientEnds /\ Len(s2c[k]) >= n
         /\ o = Outcome("full", First(s2c[k], n), After(s2c[k], n))
      \/ Over(k) /\ o = Outcome("eof", s2c[k], <<>>)
      \/ Over(k) /\ o = Outcome("error", <<>>, <<>>)
  BY <1>2 DEF Received
<1>4. CASE /\ k \in clientEnds /\ Len(s2c[k]) >= n
           /\ o = Outcome("full", First(s2c[k], n), After(s2c[k], n))
  <2>1. o.end = "full" /\ o.units = First(s2c[k], n) /\ o.rest = After(s2c[k], n)
    BY <1>4 DEF Outcome
  <2>2. n \in 0 .. Len(s2c[k])
    BY <1>1, <1>4
  <2>3. PICK f \in Seq(Units), a \in Seq(Units) :
            f = First(s2c[k], n) /\ a = After(s2c[k], n) /\ Len(f) = n /\ f \o a = s2c[k]
    <3>1. /\ First(s2c[k], n) \in Seq(Units) /\ Len(First(s2c[k], n)) = n
          /\ After(s2c[k], n) \in Seq(Units) /\ First(s2c[k], n) \o After(s2c[k], n) = s2c[k]
      BY <1>1, <2>2, Split
    <3> QED BY <3>1
  <2>4. o.units = f /\ o.rest = a
    BY <2>1, <2>3
  <2> QED BY <1>4, <2>1, <2>3, <2>4 DEF Came
<1>5. CASE Over(k) /\ o = Outcome("eof", s2c[k], <<>>)
  BY <1>1, <1>5, Chains DEF Outcome, Came
<1>6. CASE Over(k) /\ o = Outcome("error", <<>>, <<>>)
  BY <1>1, <1>6, Chains DEF Outcome, Came
<1> QED BY <1>3, <1>4, <1>5, <1>6

(* What is in the stream after that: the file that follows, if one does.   *)
LEMMA RestOf ==
    ASSUME OrderlyInv, NEW k \in Conns, NEW units \in Seq(Units), NEW rest \in Seq(Units),
           s2c[k] = units \o rest, s2c'[k] = rest, UNCHANGED serverVars
    PROVE  ToClient(k) = units \o ToClient(k)' /\ ToClient(k)' \in Seq(Units)
<1>1. Download(k)' = Download(k) /\ Download(k) \in Seq(Units)
  BY ShortUnits, EmptySeq DEF Download, serverVars, OrderlyInv, FramesInv, FilesAreRaw
<1>2. (units \o rest) \o Download(k) = units \o (rest \o Download(k))
  BY <1>1, Chained
<1> QED BY <1>1, <1>2, Chains DEF ToClient

ReceiveStep(c, k, m, rest, place, l) ==
    /\ c_pc[c] \in {"reply", "header", "body"}
    /\ s2c[k] = m \o rest /\ s2c' = [s2c EXCEPT ![k] = rest]
    /\ \/ clientEnds' = clientEnds /\ c_sock' = c_sock
       \/ /\ Over(k) /\ clientEnds' = clientEnds \ {k}
          /\ c_sock' = c_sock \/ c_sock' = [c_sock EXCEPT ![c] = NoConn]
    /\ UNCHANGED <<c_cmd, c_arg, owner, c2s, serverSide>>
    /\ c_pc' = [c_pc EXCEPT ![c] = place]
    /\ place # "prompt" => c_sock' = c_sock
    /\ c_ret' = c_ret \/ \E r \in {0, 1} : c_ret' = [c_ret EXCEPT ![c] = r]
    /\ c_len' = c_len \/ c_len' = [c_len EXCEPT ![c] = l]
    /\ c_files' = c_files \/ \E b \in Mixed : c_files' = [c_files EXCEPT ![c][c_arg[c]] = b]
    /\ place = "fileHeader" => c_files' = c_files /\ c_cmd[c] = "put" /\ c_pc[c] = "reply"
    /\ place = "body" /\ c_cmd[c] = "get" => c_len'[c] = l /\ FileAt(ToClient(k)', 0, l)

LEMMA ReceiveKeeps ==
    ASSUME OrderlyInv, DescriptorInv', UNCHANGED serverVars, NEW c \in Clients, NEW k \in Conns,
           c_sock[c] = k, NEW m \in Seq(Units), NEW rest \in Seq(Units),
           NEW place \in {"prompt", "header", "body", "fileHeader"}, NEW l \in Nat,
           ReceiveStep(c, k, m, rest, place, l)
    PROVE  OrderlyInv'
<1> USE DEF ReceiveStep
<1>1. /\ ClientTypeOK /\ Streams /\ clientEnds \subseteq Conns
      /\ c_files \in [Clients -> [FileNames -> {NoFile} \union Mixed]]
      /\ k # NoConn /\ k =< made /\ owner[k] = c
      /\ QuitLast(k) /\ StreamsFramed(k) /\ ClientInPlace(c)
  <2>1. k # NoConn
    BY Numbers
  <2>2. k =< made /\ owner[k] = c
    BY <2>1, ClientStands
  <2> QED BY <2>1, <2>2, TypesOf
          DEF OrderlyInv, FramesInv, FilesAreRaw, ThreadInv, SessionInv
<1>3. UNCHANGED <<made, accepted, fds, reading, listening>>
  BY DEF serverSide
<1>4. s2c'[k] = rest /\ s2c' \in [Conns -> Seq(Units)] /\ Streams'
  BY <1>1 DEF Streams, serverVars
<1>5. c_files' \in [Clients -> [FileNames -> {NoFile} \union Mixed]]
  <2>1. CASE c_files' = c_files
    BY <1>1, <2>1
  <2>2. ASSUME NEW b \in Mixed, c_files' = [c_files EXCEPT ![c][c_arg[c]] = b]
        PROVE  c_files' \in [Clients -> [FileNames -> {NoFile} \union Mixed]]
    <3>1. [c_files[c] EXCEPT ![c_arg[c]] = b] \in [FileNames -> {NoFile} \union Mixed]
      BY <1>1
    <3> QED BY <1>1, <2>2, <3>1
  <2> QED BY <2>1, <2>2
<1>6. ClientTypeOK'
  <2>1. place \in ClientPlaces
    BY DEF ClientPlaces
  <2>2. Mixed \subseteq Seq(Units)
    BY MixedShort, ShortUnits
  <2>3. /\ c_pc' \in [Clients -> ClientPlaces]
        /\ c_sock' \in [Clients -> Conns \union {NoConn}]
        /\ c_ret' \in [Clients -> {0, 1}] /\ c_len' \in [Clients -> Nat]
    <3>1. c_pc' \in [Clients -> ClientPlaces]
      BY <1>1, <2>1 DEF ClientTypeOK
    <3>2. c_sock' \in [Clients -> Conns \union {NoConn}]
      <4>1. c_sock \in [Clients -> Conns \union {NoConn}]
        BY <1>1 DEF ClientTypeOK
      <4>2. c_sock' = c_sock \/ c_sock' = [c_sock EXCEPT ![c] = NoConn]
        OBVIOUS
      <4> QED BY <4>1, <4>2
    <3>3. c_ret' \in [Clients -> {0, 1}]
      BY <1>1 DEF ClientTypeOK
    <3>4. c_len' \in [Clients -> Nat]
      BY <1>1 DEF ClientTypeOK
    <3> QED BY <3>1, <3>2, <3>3, <3>4
  <2>4. c_files' \in [Clients -> [FileNames -> {NoFile} \union Seq(Units)]]
    BY <1>5, <2>2
  <2> QED BY <1>1, <2>3, <2>4 DEF ClientTypeOK
<1>7. c_pc'[c] = place /\ c_sock'[c] \in {k, NoConn}
      /\ \A d \in Clients \ {c} :
           /\ c_pc'[d] = c_pc[d] /\ c_sock'[d] = c_sock[d] /\ c_len'[d] = c_len[d]
           /\ c_files'[d] = c_files[d]
  <2>1. c_pc'[c] = place /\ c_sock'[c] \in {k, NoConn}
    BY <1>1 DEF ClientTypeOK
  <2>2. ASSUME NEW d \in Clients \ {c}
        PROVE  /\ c_pc'[d] = c_pc[d] /\ c_sock'[d] = c_sock[d] /\ c_len'[d] = c_len[d]
               /\ c_files'[d] = c_files[d]
    BY <1>1 DEF ClientTypeOK
  <2> QED BY <2>1, <2>2
<1>8. ClientOnly(c, k)
  <2>1. \A j \in Conns \ {k} : /\ c2s'[j] = c2s[j] /\ s2c'[j] = s2c[j] /\ owner'[j] = owner[j]
                               /\ j \in clientEnds' <=> j \in clientEnds
    BY <1>1 DEF Streams
  <2> QED BY <1>1, <1>3, <1>7, <2>1 DEF ClientOnly
<1>9. ToThread(k)' = ToThread(k) /\ (Over(k)' <=> Over(k))
  <2>1. Upload(k)' = <<>> /\ Upload(k) = <<>>
    BY <1>1, <1>7 DEF Upload, Uploads
  <2> QED BY <2>1 DEF ToThread, Over, serverVars
<1>10. StreamsFramed(k)'
  <2>2. ToClient(k) = m \o ToClient(k)' /\ ToClient(k)' \in Seq(Units)
    BY <1>4, RestOf
  <2>3. Framed(ToClient(k)')
    BY <1>1, <2>2, FramedTail DEF StreamsFramed
  <2> QED BY <1>1, <1>9, <2>3 DEF StreamsFramed
<1>11. QuitLast(k)'
  <2>1. ASSUME NEW i \in DOMAIN rest, IsQuitReply(rest[i]) PROVE Over(k)
    <3>1. Len(m) + i \in DOMAIN (m \o rest) /\ (m \o rest)[Len(m) + i] = rest[i]
      BY Joined
    <3> QED BY <1>1, <2>1, <3>1 DEF QuitLast
  <2>2. ~(k > made)
    BY <1>1, Numbers DEF OrderlyInv, DescriptorInv, ControlTypeOK, Conns
  <2> QED BY <1>1, <1>3, <1>4, <1>9, <2>1, <2>2 DEF QuitLast
<1>12. ThreadInPlace(k)'
  BY <1>9, ThreadUntouched
<1>13. ClientInPlace(c)' /\ Opening(c)'
  <2>1. Opening(c)'
    BY <1>7 DEF Opening
  <2>2. ASSUME place = "body", c_cmd'[c] = "get", c_sock'[c] \in clientEnds'
        PROVE  FileAt(ToClient(c_sock[c]), 0, c_len[c])'
    <3>1. c_sock'[c] = k /\ c_len'[c] = l /\ FileAt(ToClient(k)', 0, l)
      BY <2>2
    <3> QED BY <3>1
  <2>3. place = "fileHeader" => /\ c_cmd'[c] = "put" /\ c_arg'[c] \in FileNames
                                /\ c_files'[c][c_arg'[c]] \in Mixed
    BY <1>1 DEF ClientInPlace
  <2> QED BY <1>7, <2>1, <2>2, <2>3 DEF ClientInPlace
<1>14. /\ clientEnds' \subseteq Conns /\ k =< made' /\ owner'[k] = c
       /\ k \in clientEnds' => c_sock'[c] = k
       /\ c_pc'[c] \notin {"prompt", "exited"} => c_sock'[c] # NoConn
  BY <1>1, <1>3, <1>7
<1> QED BY <1>4, <1>5, <1>6, <1>8, <1>10, <1>11, <1>12, <1>13, <1>14, ClientFrame

(* The connection of a client that is in safe_recv, and after it.          *)
LEMMA Waits ==
    ASSUME OrderlyInv, NEW c \in Clients, c_pc[c] \in {"reply", "header", "body"}
    PROVE  \E k \in Conns : c_sock[c] = k
<1>1. OneSocket(c)
  BY DEF OrderlyInv, FramesInv, SessionInv
<1> QED BY <1>1, ClientStands DEF OneSocket

LEMMA Returns ==
    ASSUME OrderlyInv, NEW c \in Clients, NEW k \in Conns, c_sock[c] = k, NEW n \in Nat,
           NEW o \in Received(c, n), RecvByRef(c, o) \/ RecvByValue(c, o)
    PROVE  /\ s2c' = [s2c EXCEPT ![k] = o.rest]
           /\ \/ clientEnds' = clientEnds /\ c_sock' = c_sock
              \/ /\ Over(k) /\ clientEnds' = clientEnds \ {k}
                 /\ c_sock' = c_sock \/ c_sock' = [c_sock EXCEPT ![c] = NoConn]
           /\ o.end = "full" \/ RecvByValue(c, o) => c_sock' = c_sock
<1>1. Came(k, n, o)
  BY Outcomes
<1> QED BY <1>1 DEF Came, RecvByRef, RecvByValue, Disconnected

LEMMA HeaderFields ==
    ASSUME NEW s \in Seq(Units)
    PROVE  HeaderIn(s).type \in Types \union {"none"} /\ HeaderIn(s).length \in Nat
<1>1. CASE Len(s) = HeaderLen /\ IsPart(s[2], 2)
  <2>1. HeaderIn(s) = s[2].hdr /\ 2 \in 1 .. Len(s)
    BY <1>1 DEF HeaderIn, HeaderLen
  <2>2. s[2] \in Units
    BY <2>1, ElementOfSeq
  <2>3. s[2].hdr.type \in Types /\ s[2].hdr.length \in Nat
    BY <1>1, <2>2 DEF Units, IsPart
  <2> QED BY <2>1, <2>3
<1>2. CASE ~(Len(s) = HeaderLen /\ IsPart(s[2], 2))
  BY <1>2 DEF HeaderIn, NoHeader
<1> QED BY <1>1, <1>2

(* A header that has come is the head of what comes.                       *)
LEMMA HeaderCame ==
    ASSUME OrderlyInv, UNCHANGED serverVars, NEW c \in Clients, NEW k \in Conns, c_sock[c] = k,
           NEW o \in Received(c, 2), o.end = "full", s2c' = [s2c EXCEPT ![k] = o.rest]
    PROVE  LET h == HeaderIn(o.units)
           IN  /\ h.type \in Types => Sane(h)
               /\ h.type = "FILE_DATA" => FileAt(ToClient(k)', 0, PayloadLen(h))
               /\ h.type = "QUIT_REPLY" => Over(k)
<1>1. /\ o.units \in Seq(Units) /\ o.rest \in Seq(Units) /\ Len(o.units) = 2
      /\ s2c[k] = o.units \o o.rest
  <2>1. Came(k, 2, o)
    BY Outcomes
  <2> QED BY <2>1 DEF Came
<1>2. s2c \in [Conns -> Seq(Units)] /\ Framed(ToClient(k)) /\ QuitLast(k)
  BY TypesOf DEF Streams, OrderlyInv, FramesInv, ThreadInv, StreamsFramed
<1>3. ToClient(k) = o.units \o ToClient(k)' /\ ToClient(k)' \in Seq(Units)
  BY <1>1, <1>2, RestOf
<1>4. LET h == HeaderIn(o.units)
      IN  /\ h.type \in Types => Sane(h)
          /\ h.type = "FILE_DATA" => FileAt(ToClient(k)', 0, PayloadLen(h))
          /\ h.type \in Types => IsHead(o.units[2]) /\ h = o.units[2].hdr
  BY <1>1, <1>2, <1>3, HeaderRead
<1>5. HeaderIn(o.units).type = "QUIT_REPLY" => Over(k)
  <2>1. \A a, b \in Seq(Units) : Len(a) = 2 => 2 \in DOMAIN (a \o b) /\ (a \o b)[2] = a[2]
    BY JoinedHeader
  <2>2. 2 \in DOMAIN s2c[k] /\ s2c[k][2] = o.units[2]
    BY <1>1, <2>1
  <2> QED BY <1>2, <1>4, <2>2 DEF QuitLast, IsQuitReply, Types
<1> QED BY <1>4, <1>5

(* A receive after which the handler returns, or goes on to the next one.  *)
Proceeds(c, k, place, complete) ==
    /\ Goto(c, place) /\ complete
    /\ place = "fileHeader" => c_files' = c_files /\ c_cmd[c] = "put" /\ c_pc[c] = "reply"
    /\ place = "body" /\ c_cmd[c] = "get" => FileAt(ToClient(k), 0, c_len[c])'

AnswerStep(c, k, o) ==
    /\ c_pc[c] \in {"reply", "header", "body"}
    /\ UNCHANGED <<c_cmd, c_arg, owner, c2s, serverSide>>
    /\ RecvByRef(c, o) \/ RecvByValue(c, o)
    /\ \/ \E r \in {0, 1} : Return(c, r)
       \/ \E place \in {"header", "body", "fileHeader"} :
              Proceeds(c, k, place, o.end = "full" \/ RecvByValue(c, o))
    /\ c_len' = c_len \/ \E l \in Nat : c_len' = [c_len EXCEPT ![c] = l]
    /\ c_files' = c_files \/ \E b \in Mixed : c_files' = [c_files EXCEPT ![c][c_arg[c]] = b]

LEMMA AnswerKeeps ==
    ASSUME OrderlyInv, DescriptorInv', UNCHANGED serverVars, NEW c \in Clients, NEW k \in Conns,
           c_sock[c] = k, NEW n \in Nat, NEW o \in Received(c, n), AnswerStep(c, k, o)
    PROVE  OrderlyInv'
<1> USE DEF AnswerStep
<1>1. Came(k, n, o)
  BY Outcomes
<1>2. PICK m \in Seq(Units), rest \in Seq(Units) : rest = o.rest /\ s2c[k] = m \o rest
  BY <1>1 DEF Came
<1>3. /\ s2c' = [s2c EXCEPT ![k] = rest]
      /\ \/ clientEnds' = clientEnds /\ c_sock' = c_sock
         \/ /\ Over(k) /\ clientEnds' = clientEnds \ {k}
            /\ c_sock' = c_sock \/ c_sock' = [c_sock EXCEPT ![c] = NoConn]
      /\ o.end = "full" \/ RecvByValue(c, o) => c_sock' = c_sock
  BY <1>2, Returns
<1>4. PICK l \in Nat : c_len' = [c_len EXCEPT ![c] = l] /\ c_len'[c] = l
  <2>1. c_len \in [Clients -> Nat]
    BY TypesOf DEF ClientTypeOK
  <2>2. CASE c_len' = c_len
    <3>1. c_len[c] \in Nat /\ c_len = [c_len EXCEPT ![c] = c_len[c]]
      BY <2>1
    <3> QED BY <2>2, <3>1
  <2>3. CASE \E l \in Nat : c_len' = [c_len EXCEPT ![c] = l]
    BY <2>1, <2>3
  <2> QED BY <2>2, <2>3
<1>5. PICK place \in {"prompt", "header", "body", "fileHeader"} :
          /\ c_pc' = [c_pc EXCEPT ![c] = place]
          /\ place # "prompt" => c_sock' = c_sock
          /\ c_ret' = c_ret \/ \E r \in {0, 1} : c_ret' = [c_ret EXCEPT ![c] = r]
          /\ place = "fileHeader" => c_files' = c_files /\ c_cmd[c] = "put" /\ c_pc[c] = "reply"
          /\ place = "body" /\ c_cmd[c] = "get" => FileAt(ToClient(k)', 0, l)
  <2>1. CASE \E r \in {0, 1} : Return(c, r)
    BY <2>1 DEF Return
  <2>2. ASSUME NEW place \in {"header", "body", "fileHeader"},
               Proceeds(c, k, place, o.end = "full" \/ RecvByValue(c, o))
        PROVE  /\ c_pc' = [c_pc EXCEPT ![c] = place]
               /\ c_sock' = c_sock /\ c_ret' = c_ret
               /\ place = "fileHeader" => c_files' = c_files /\ c_cmd[c] = "put" /\ c_pc[c] = "reply"
               /\ place = "body" /\ c_cmd[c] = "get" => FileAt(ToClient(k)', 0, l)
    BY <1>3, <1>4, <2>2 DEF Proceeds, Goto
  <2> QED BY <2>1, <2>2
<1>6. /\ s2c' = [s2c EXCEPT ![k] = rest]
      /\ \/ clientEnds' = clientEnds /\ c_sock' = c_sock
         \/ /\ Over(k) /\ clientEnds' = clientEnds \ {k}
            /\ c_sock' = c_sock \/ c_sock' = [c_sock EXCEPT ![c] = NoConn]
  BY <1>3
<1>7. c_len' = c_len \/ c_len' = [c_len EXCEPT ![c] = l]
  BY <1>4
<1>8. place = "body" /\ c_cmd[c] = "get" => c_len'[c] = l /\ FileAt(ToClient(k)', 0, l)
  BY <1>4, <1>5
<1>9. ReceiveStep(c, k, m, rest, place, l)
  BY <1>2, <1>5, <1>6, <1>7, <1>8 DEF ReceiveStep
<1> QED BY <1>9, ReceiveKeeps

LEMMA RepliesKeep ==
    ASSUME OrderlyInv, DescriptorInv', UNCHANGED serverVars, NEW c \in Clients,
           CdReply(c) \/ GetReply(c) \/ PutReply(c) \/ ShaReply(c) \/ LsReply(c)
    PROVE  OrderlyInv'
<1>1. c_pc[c] = "reply" /\ UNCHANGED <<c_cmd, c_arg, owner, c2s, serverSide, c_files>>
  BY DEF CdReply, GetReply, PutReply, ShaReply, LsReply, Awaits
<1>2. PICK k \in Conns : c_sock[c] = k
  BY <1>1, Waits
<1>3. HeaderLen \in Nat /\ HeaderLen = 2
  BY DEF HeaderLen
<1>4. CASE CdReply(c)
  <2>1. PICK o \in Received(c, HeaderLen) :
            RecvByRef(c, o) /\ c_len' = c_len /\ \E r \in {0, 1} : Return(c, r)
    BY <1>4 DEF CdReply
  <2>2. AnswerStep(c, k, o)
    BY <1>1, <2>1 DEF AnswerStep
  <2> QED BY <1>2, <1>3, <2>2, AnswerKeeps
<1>5. CASE GetReply(c)
  <2>1. PICK o \in Received(c, HeaderLen) :
            /\ RecvByRef(c, o) /\ c_len' = c_len
            /\ (o.end = "full" /\ Goto(c, "header")) \/ Return(c, 1)
    BY <1>5 DEF GetReply, IsReply
  <2>2. AnswerStep(c, k, o)
    BY <1>1, <2>1 DEF AnswerStep, Proceeds
  <2> QED BY <1>2, <1>3, <2>2, AnswerKeeps
<1>6. CASE PutReply(c)
  <2>1. PICK o \in Received(c, HeaderLen) :
            /\ RecvByRef(c, o) /\ c_len' = c_len /\ c_cmd[c] = "put"
            /\ (o.end = "full" /\ Goto(c, "fileHeader")) \/ Return(c, 1)
    BY <1>6 DEF PutReply, Awaits
  <2>2. AnswerStep(c, k, o)
    BY <1>1, <2>1 DEF AnswerStep, Proceeds
  <2> QED BY <1>2, <1>3, <2>2, AnswerKeeps
<1>7. CASE ShaReply(c)
  <2>1. PICK o \in Received(c, HeaderLen) :
            RecvByValue(c, o) /\ c_len' = c_len /\ (Goto(c, "header") \/ Return(c, 1))
    BY <1>7 DEF ShaReply
  <2>2. AnswerStep(c, k, o)
    BY <1>1, <2>1 DEF AnswerStep, Proceeds
  <2> QED BY <1>2, <1>3, <2>2, AnswerKeeps
<1>8. CASE LsReply(c)
  <2>1. PICK o \in Received(c, HeaderLen) :
            /\ RecvByRef(c, o) /\ c_cmd[c] = "ls"
            /\ \/ Return(c, 1) /\ c_len' = c_len
               \/ /\ o.end = "full" /\ HeaderIn(o.units).type = "LIST_REPLY"
                  /\ c_len' = [c_len EXCEPT ![c] = PayloadLen(HeaderIn(o.units))]
                  /\ Return(c, 0) \/ Goto(c, "body")
    BY <1>8 DEF LsReply, IsReply, Awaits
  <2>2. c_len' = c_len \/ \E l \in Nat : c_len' = [c_len EXCEPT ![c] = l]
    <3>1. CASE c_len' = c_len
      BY <3>1
    <3>2. CASE /\ o.end = "full" /\ HeaderIn(o.units).type = "LIST_REPLY"
               /\ c_len' = [c_len EXCEPT ![c] = PayloadLen(HeaderIn(o.units))]
      <4>1. s2c' = [s2c EXCEPT ![k] = o.rest]
        BY <1>2, <2>1 DEF RecvByRef
      <4>2. HeaderIn(o.units).type \in Types => PayloadLen(HeaderIn(o.units)) \in 0 .. Longest
        BY <1>2, <1>3, <3>2, <4>1, HeaderCame DEF Sane
      <4>3. PayloadLen(HeaderIn(o.units)) \in Nat
        BY <3>2, <4>2 DEF Types
      <4> QED BY <3>2, <4>3
    <3> QED BY <2>1, <3>1, <3>2
  <2>3. AnswerStep(c, k, o)
    BY <1>1, <2>1, <2>2 DEF AnswerStep, Proceeds
  <2> QED BY <1>2, <1>3, <2>3, AnswerKeeps
<1> QED BY <1>4, <1>5, <1>6, <1>7, <1>8

LEMMA HeadersKeep ==
    ASSUME OrderlyInv, DescriptorInv', UNCHANGED serverVars, NEW c \in Clients,
           GetHeader(c) \/ ShaHeader(c)
    PROVE  OrderlyInv'
<1>1. c_pc[c] = "header" /\ UNCHANGED <<c_cmd, c_arg, owner, c2s, serverSide, c_files>>
  BY DEF GetHeader, ShaHeader, Awaits
<1>2. PICK k \in Conns : c_sock[c] = k
  BY <1>1, Waits
<1>3. HeaderLen \in Nat /\ HeaderLen = 2
  BY DEF HeaderLen
<1>4. c_len \in [Clients -> Nat]
  BY TypesOf DEF ClientTypeOK
<1>5. CASE GetHeader(c)
  <2>1. PICK o \in Received(c, HeaderLen) :
            /\ RecvByRef(c, o)
            /\ \/ Return(c, 1) /\ c_len' = c_len
               \/ /\ o.end = "full" /\ HeaderIn(o.units).type = "FILE_DATA"
                  /\ c_len' = [c_len EXCEPT ![c] = PayloadLen(HeaderIn(o.units))]
                  /\ Goto(c, "body")
    BY <1>5 DEF GetHeader, GetLen
  <2>2. CASE Return(c, 1) /\ c_len' = c_len
    <3>1. AnswerStep(c, k, o)
      BY <1>1, <2>1, <2>2 DEF AnswerStep
    <3> QED BY <1>2, <1>3, <3>1, AnswerKeeps
  <2>3. CASE /\ o.end = "full" /\ HeaderIn(o.units).type = "FILE_DATA"
             /\ c_len' = [c_len EXCEPT ![c] = PayloadLen(HeaderIn(o.units))]
             /\ Goto(c, "body")
    <3>1. s2c' = [s2c EXCEPT ![k] = o.rest]
      BY <1>2, <2>1 DEF RecvByRef
    <3>2. /\ HeaderIn(o.units).type \in Types => PayloadLen(HeaderIn(o.units)) \in 0 .. Longest
          /\ HeaderIn(o.units).type = "FILE_DATA"
                => FileAt(ToClient(k)', 0, PayloadLen(HeaderIn(o.units)))
      BY <1>2, <1>3, <2>3, <3>1, HeaderCame DEF Sane
    <3>3. PayloadLen(HeaderIn(o.units)) \in Nat /\ c_len'[c] = PayloadLen(HeaderIn(o.units))
      BY <1>4, <2>3, <3>2 DEF Types
    <3>4. FileAt(ToClient(k), 0, c_len[c])'
      BY <2>3, <3>2, <3>3
    <3>5. AnswerStep(c, k, o)
      BY <1>1, <2>1, <2>3, <3>3, <3>4 DEF AnswerStep, Proceeds
    <3> QED BY <1>2, <1>3, <3>5, AnswerKeeps
  <2> QED BY <2>1, <2>2, <2>3
<1>6. CASE ShaHeader(c)
  <2>1. PICK o \in Received(c, HeaderLen) :
            /\ RecvByValue(c, o) /\ c_cmd[c] = "sha256"
            /\ \/ Return(c, 1) /\ c_len' = c_len
               \/ /\ c_len' = [c_len EXCEPT ![c] = ShaLen(HeaderIn(o.units))]
                  /\ Goto(c, "body")
    BY <1>6 DEF ShaHeader, Awaits
  <2>2. ShaLen(HeaderIn(o.units)) \in Nat
    <3>1. Came(k, HeaderLen, o)
      BY <1>2, <1>3, Outcomes
    <3>2. HeaderIn(o.units).length \in Nat
      BY <3>1, HeaderFields DEF Came
    <3>3. SizeT \in Nat \ {0}
      <4>1. Radix \in Nat \ {0}
        BY FtpWireAssumption
      <4>2. \A a, b \in Nat \ {0} : a * b \in Nat \ {0}
        OBVIOUS
      <4> QED BY <4>1, <4>2 DEF SizeT
    <3> HIDE DEF SizeT
    <3> QED BY <1>3, <3>2, <3>3 DEF ShaLen
  <2>3. AnswerStep(c, k, o)
    BY <1>1, <2>1, <2>2 DEF AnswerStep, Proceeds
  <2> QED BY <1>2, <1>3, <2>3, AnswerKeeps
<1> QED BY <1>5, <1>6

LEMMA BodiesKeep ==
    ASSUME OrderlyInv, DescriptorInv', UNCHANGED serverVars, NEW c \in Clients,
           GetBody(c) \/ LsBody(c) \/ ShaBody(c)
    PROVE  OrderlyInv'
<1>1. c_pc[c] = "body" /\ UNCHANGED <<c_cmd, c_arg, owner, c2s, serverSide, c_len>>
  BY DEF GetBody, LsBody, ShaBody, Awaits
<1>2. PICK k \in Conns : c_sock[c] = k
  BY <1>1, Waits
<1>3. c_len[c] \in Nat
  BY TypesOf DEF ClientTypeOK
<1>4. CASE GetBody(c)
  <2>1. PICK o \in Received(c, c_len[c]) :
            /\ RecvByRef(c, o) /\ c_cmd[c] = "get" /\ \E r \in {0, 1} : Return(c, r)
            /\ \/ c_files' = c_files
               \/ o.end = "full" /\ c_files' = [c_files EXCEPT ![c][c_arg[c]] = o.units]
    BY <1>4 DEF GetBody, Awaits
  <2>2. o.end = "full" => o.units \in Mixed
    <3> HAVE o.end = "full"
    <3>1. Came(k, c_len[c], o)
      BY <1>2, <1>3, Outcomes
    <3>2. /\ k \in clientEnds /\ o.units \in Seq(Units) /\ o.rest \in Seq(Units)
          /\ Len(o.units) = c_len[c] /\ s2c[k] = o.units \o o.rest
      BY <3>1 DEF Came
    <3>3. FileAt(ToClient(k), 0, c_len[c])
      BY <1>1, <1>2, <2>1, <3>2 DEF OrderlyInv, FramesInv, SessionInv, ClientInPlace
    <3>4. Download(k) \in Seq(Units)
      BY ShortUnits, EmptySeq DEF Download, OrderlyInv, FramesInv, FilesAreRaw
    <3>5. /\ (o.units \o o.rest) \o Download(k) = o.units \o (o.rest \o Download(k))
          /\ o.rest \o Download(k) \in Seq(Units)
      <4>1. (o.units \o o.rest) \o Download(k) = o.units \o (o.rest \o Download(k))
        BY <3>2, <3>4, Chained
      <4>2. o.rest \o Download(k) \in Seq(Units)
        BY <3>2, <3>4, Chains
      <4> QED BY <4>1, <4>2
    <3>6. FileAt(o.units \o (o.rest \o Download(k)), 0, Len(o.units))
      BY <3>2, <3>3, <3>5 DEF ToClient
    <3> QED BY <3>2, <3>5, <3>6, FileTaken
  <2>3. AnswerStep(c, k, o)
    BY <1>1, <2>1, <2>2 DEF AnswerStep
  <2> QED BY <1>2, <1>3, <2>3, AnswerKeeps
<1>5. CASE LsBody(c)
  <2>1. PICK o \in Received(c, c_len[c]) :
            RecvByRef(c, o) /\ c_files' = c_files /\ \E r \in {0, 1} : Return(c, r)
    BY <1>5 DEF LsBody
  <2>2. AnswerStep(c, k, o)
    BY <1>1, <2>1 DEF AnswerStep
  <2> QED BY <1>2, <1>3, <2>2, AnswerKeeps
<1>6. CASE ShaBody(c)
  <2>1. PICK o \in Received(c, c_len[c]) :
            RecvByValue(c, o) /\ c_files' = c_files /\ \E r \in {0, 1} : Return(c, r)
    BY <1>6 DEF ShaBody
  <2>2. AnswerStep(c, k, o)
    BY <1>1, <2>1 DEF AnswerStep
  <2> QED BY <1>2, <1>3, <2>2, AnswerKeeps
<1> QED BY <1>4, <1>5, <1>6

(* The first reply is the one the client waits for; after the last one,    *)
(* and after an end of file, the thread has nothing left to do with it.    *)
LEMMA ClosingKeeps ==
    ASSUME Orderly, OrderlyInv, DescriptorInv', UNCHANGED serverVars, NEW c \in Clients,
           OpenReply(c) \/ QuitReply(c)
    PROVE  OrderlyInv'
<1>1. c_pc[c] = "reply" /\ UNCHANGED <<c_cmd, c_arg, owner, c2s, serverSide, c_len, c_files>>
  BY DEF OpenReply, QuitReply, Awaits
<1>2. PICK k \in Conns : c_sock[c] = k
  BY <1>1, Waits
<1>3. HeaderLen \in Nat /\ HeaderLen = 2
  BY DEF HeaderLen
<1>4. ASSUME NEW o \in Received(c, HeaderLen), NEW keep \in BOOLEAN, RecvOrClose(c, o, keep),
             keep \/ Over(k), \E r \in {0, 1} : Return(c, r)
      PROVE  OrderlyInv'
  <2>1. Came(k, HeaderLen, o)
    BY <1>2, <1>3, Outcomes
  <2>2. PICK m \in Seq(Units), rest \in Seq(Units) : rest = o.rest /\ s2c[k] = m \o rest
    BY <2>1 DEF Came
  <2>3. s2c' = [s2c EXCEPT ![k] = rest]
    BY <1>2, <1>4, <2>2 DEF RecvOrClose
  <2>4. \/ clientEnds' = clientEnds /\ c_sock' = c_sock
        \/ Over(k) /\ clientEnds' = clientEnds \ {k} /\ c_sock' = [c_sock EXCEPT ![c] = NoConn]
    BY <1>2, <1>4 DEF RecvOrClose, Disconnected
  <2>5. /\ c_pc' = [c_pc EXCEPT ![c] = "prompt"]
        /\ \E r \in {0, 1} : c_ret' = [c_ret EXCEPT ![c] = r]
    BY <1>4 DEF Return
  <2>6. ReceiveStep(c, k, m, rest, "prompt", 0)
    BY <1>1, <2>2, <2>3, <2>4, <2>5 DEF ReceiveStep
  <2> QED BY <1>2, <2>6, ReceiveKeeps
<1>5. CASE OpenReply(c)
  <2> DEFINE Ok(o) == IsReply(o, "OPEN_CONN_REPLY") /\ HeaderIn(o.units).status = "STATUS_OK"
  <2>1. PICK o \in Received(c, HeaderLen) :
            RecvOrClose(c, o, Ok(o)) /\ \E r \in {0, 1} : Return(c, r)
    BY <1>5 DEF OpenReply
  <2>2. Ok(o)
    <3>1. OpenGoesWell(k)
      BY <1>1, <1>2, <1>5 DEF OpenReply, Awaits, OrderlyInv, FramesInv, SessionInv, Opening
    <3>2. Came(k, HeaderLen, o)
      BY <1>2, <1>3, Outcomes
    <3>3. ~Over(k)
      BY <3>1 DEF OpenGoesWell, Over
    <3>4. /\ o.end = "full" /\ o.units \in Seq(Units) /\ o.rest \in Seq(Units)
          /\ Len(o.units) = 2 /\ s2c[k] = o.units \o o.rest
      BY <1>3, <3>2, <3>3 DEF Came
    <3>5. \A x, y \in Seq(Units) : Len(x) = 2 => x \o y # <<>>
      <4>1. \A x, y \in Seq(Units) : Len(x) = 2 => 2 \in DOMAIN (x \o y)
        BY JoinedHeader
      <4> QED BY <4>1, EmptySeq
    <3>6. s2c[k] = OpenAnswer
      BY <3>1, <3>4, <3>5 DEF OpenGoesWell
    <3>7. /\ Len(OpenAnswer) = 2 /\ MagicOk(OpenAnswer)
          /\ HeaderIn(OpenAnswer).type = "OPEN_CONN_REPLY"
          /\ HeaderIn(OpenAnswer).status = "STATUS_OK"
      BY OpenUnits
    <3>8. \A x, y \in Seq(Units) : Len(x \o y) = Len(x) => x \o y = x
      BY Whole
    <3>9. o.units = OpenAnswer
      BY <3>4, <3>6, <3>7, <3>8
    <3> QED BY <3>4, <3>7, <3>9 DEF IsReply
  <2> HIDE DEF Ok
  <2>3. Ok(o) = TRUE
    BY <2>2
  <2> QED BY <1>4, <2>1, <2>3
<1>6. CASE QuitReply(c)
  <2>1. PICK o \in Received(c, HeaderLen) :
            /\ RecvOrClose(c, o, ~IsReply(o, "QUIT_REPLY") /\ o.end # "eof")
            /\ \E r \in {0, 1} : Return(c, r)
    BY <1>6 DEF QuitReply
  <2>2. Came(k, HeaderLen, o)
    BY <1>2, <1>3, Outcomes
  <2>3. IsReply(o, "QUIT_REPLY") => Over(k)
    <3>1. s2c' = [s2c EXCEPT ![k] = o.rest]
      BY <1>2, <2>1 DEF RecvOrClose
    <3>2. o.end = "full" => (HeaderIn(o.units).type = "QUIT_REPLY" => Over(k))
      BY <1>2, <1>3, <3>1, HeaderCame
    <3> QED BY <3>2 DEF IsReply
  <2>4. o.end = "eof" => Over(k)
    BY <2>2 DEF Came
  <2> DEFINE keep == ~IsReply(o, "QUIT_REPLY") /\ o.end # "eof"
  <2>5. keep \in BOOLEAN /\ (keep \/ Over(k))
    BY <2>3, <2>4
  <2>6. RecvOrClose(c, o, keep)
    BY <2>1
  <2> HIDE DEF keep
  <2> QED BY <1>4, <2>1, <2>5, <2>6
<1> QED BY <1>5, <1>6
-----------------------------------------------------------------------------
(* A client connects where nobody was before.                              *)
LEMMA OpenKeeps ==
    ASSUME Orderly, OrderlyInv, DescriptorInv', UNCHANGED serverVars, NEW c \in Clients, Open(c)
    PROVE  OrderlyInv'
<1>1. made \in 0 .. MaxConns /\ accepted \in 0 .. made /\ MaxConns \in Nat
  BY Numbers DEF OrderlyInv, DescriptorInv, ControlTypeOK
<1>2. PICK k \in Conns : k = made + 1
  BY <1>1 DEF Open, Conns
<1>3. /\ made' = k /\ owner' = [owner EXCEPT ![k] = c] /\ clientEnds' = clientEnds \union {k}
      /\ c_sock' = [c_sock EXCEPT ![c] = k] /\ c2s' = [c2s EXCEPT ![k] = OpenMessage]
      /\ c_cmd' = [c_cmd EXCEPT ![c] = "open"] /\ c_pc' = [c_pc EXCEPT ![c] = "reply"]
      /\ UNCHANGED <<c_ret, c_arg, c_len, c_files, s2c, accepted, fds, reading, listening>>
      /\ c_sock[c] = NoConn
  BY <1>2 DEF Open, Orderly, OpenMessage, Goto
<1>4. /\ ClientTypeOK /\ Streams /\ clientEnds \subseteq Conns
      /\ c_files \in [Clients -> [FileNames -> {NoFile} \union Mixed]]
  BY TypesOf DEF OrderlyInv, FramesInv, FilesAreRaw
<1>5. /\ k > made /\ k > accepted /\ k # NoConn
  BY <1>1, <1>2, Numbers
<1>6. StreamsFramed(k) /\ ThreadInPlace(k) /\ HasOwn(k) /\ QuitLast(k)
  BY DEF OrderlyInv, FramesInv, ThreadInv
<1>7. /\ t_pc[k] = "idle" /\ c2s[k] = <<>> /\ s2c[k] = <<>> /\ t_got[k] = <<>>
  <2>1. t_pc[k] = "idle" /\ c2s[k] = <<>> /\ s2c[k] = <<>>
    BY <1>5, <1>6 DEF HasOwn, QuitLast
  <2> QED BY <1>6, <2>1 DEF ThreadInPlace, RecvPlaces
<1>8. OpenMessage \in Seq(Units) /\ Framed(OpenMessage)
  BY OpenUnits
<1> HIDE DEF OpenMessage
<1>9. /\ c2s'[k] = OpenMessage /\ s2c'[k] = <<>> /\ c_sock'[c] = k /\ c_cmd'[c] = "open"
      /\ c_pc'[c] = "reply" /\ owner'[k] = c /\ t_got'[k] = <<>> /\ t_pc'[k] = "idle"
  BY <1>3, <1>4, <1>7 DEF ClientTypeOK, Streams, serverVars
<1>10. ClientOnly(c, k)
  <2>1. \A d \in Clients \ {c} :
          /\ c_pc'[d] = c_pc[d] /\ c_cmd'[d] = c_cmd[d] /\ c_arg'[d] = c_arg[d]
          /\ c_sock'[d] = c_sock[d] /\ c_len'[d] = c_len[d] /\ c_files'[d] = c_files[d]
    BY <1>3, <1>4 DEF ClientTypeOK
  <2>2. \A j \in Conns \ {k} :
          /\ c2s'[j] = c2s[j] /\ s2c'[j] = s2c[j] /\ owner'[j] = owner[j]
          /\ j \in clientEnds' <=> j \in clientEnds
    BY <1>3, <1>4 DEF ClientTypeOK, Streams
  <2> QED BY <1>2, <1>3, <1>9, <2>1, <2>2 DEF ClientOnly
<1>11. Streams' /\ clientEnds' \subseteq Conns
  BY <1>3, <1>4, <1>8 DEF Streams, serverVars
<1>12. ClientTypeOK'
  BY <1>3, <1>4 DEF ClientTypeOK, ClientPlaces
<1>13. <<>> \o OpenMessage = OpenMessage /\ OpenMessage \o <<>> = OpenMessage
       /\ <<>> \o <<>> = <<>> /\ Framed(<<>>)
  BY <1>8, EmptySeq, ConcatEmptySeq DEF Framed
<1>14. ToThread(k)' = OpenMessage /\ ToClient(k)' = <<>>
  <2>1. Upload(k)' = <<>> /\ Download(k)' = <<>>
    BY <1>9 DEF Upload, Uploads, Download
  <2> QED BY <1>9, <1>13, <2>1 DEF ToThread, ToClient
<1>15. StreamsFramed(k)'
  BY <1>8, <1>13, <1>14 DEF StreamsFramed
<1>16. ThreadInPlace(k)'
  <2>1. t_cmd' = t_cmd
    BY DEF serverVars
  <2> QED BY <1>6, <1>9, <2>1 DEF ThreadInPlace, RecvPlaces
<1>17. QuitLast(k)'
  <2>1. ~(k > made') /\ k \in clientEnds'
    BY <1>1, <1>2, <1>3
  <2> QED BY <1>9, <2>1, EmptySeq DEF QuitLast
<1>18. ClientInPlace(c)'
  BY <1>9 DEF ClientInPlace
<1>19. Opening(c)'
  <2>1. OpenGoesWell(k)'
    BY <1>9, <1>13 DEF OpenGoesWell, OpenMessage
  <2>2. c_sock'[c] = k /\ k \in clientEnds'
    BY <1>3, <1>9
  <2> QED BY <2>1, <2>2 DEF Opening
<1>20. /\ c_files' \in [Clients -> [FileNames -> {NoFile} \union Mixed]]
       /\ k =< made' /\ owner'[k] = c
       /\ k \in clientEnds' => c_sock'[c] = k
       /\ c_pc'[c] \notin {"prompt", "exited"} => c_sock'[c] # NoConn
  BY <1>1, <1>2, <1>3, <1>4, <1>5, <1>9
<1> QED BY <1>10, <1>11, <1>12, <1>15, <1>16, <1>17, <1>18, <1>19, <1>20, ClientFrame

(* And what it types that goes nowhere.                                    *)
LEMMA NothingSentKeeps ==
    ASSUME Orderly, OrderlyInv, DescriptorInv', UNCHANGED serverVars, NEW c \in Clients,
           OpenRefused(c) \/ Exit(c) \/ Killed(c) \/ PutMissing(c)
    PROVE  OrderlyInv'
<1>1. /\ ClientTypeOK /\ Streams /\ clientEnds \subseteq Conns
      /\ c_files \in [Clients -> [FileNames -> {NoFile} \union Mixed]]
      /\ listening /\ OneSocket(c) /\ \A j \in clientEnds : owner[j] \in Clients
  BY TypesOf DEF OrderlyInv, FramesInv, FilesAreRaw, SessionInv
<1>2. CASE Exit(c)
  <2>1. /\ c_sock[c] = NoConn /\ c_pc' = [c_pc EXCEPT ![c] = "exited"]
        /\ clientEnds' = {k \in clientEnds : owner[k] # c}
        /\ c_sock' = [c_sock EXCEPT ![c] = NoConn]
        /\ UNCHANGED <<c_ret, c_cmd, c_arg, c_len, c_files, owner, c2s, s2c, serverSide>>
    BY <1>2 DEF Exit, Gone, Goto, Disconnected
  <2>2. clientEnds' = clientEnds
    BY <1>1, <2>1, Numbers DEF OneSocket
  <2>3. ClientTypeOK' /\ Streams' /\ clientEnds' \subseteq Conns
    BY <1>1, <2>1, <2>2 DEF ClientTypeOK, ClientPlaces, Streams, serverVars
  <2>4. c_pc'[c] = "exited" /\ c_sock'[c] = NoConn
    BY <1>1, <2>1 DEF ClientTypeOK
  <2>5. \A d \in Clients \ {c} :
          /\ c_pc'[d] = c_pc[d] /\ c_cmd'[d] = c_cmd[d] /\ c_arg'[d] = c_arg[d]
          /\ c_sock'[d] = c_sock[d] /\ c_len'[d] = c_len[d] /\ c_files'[d] = c_files[d]
    BY <1>1, <2>1 DEF ClientTypeOK
  <2>6. ClientOnly(c, NoConn)
    BY <2>1, <2>2, <2>4, <2>5, Numbers DEF ClientOnly, serverSide
  <2>7. ClientInPlace(c)' /\ Opening(c)'
    BY <2>4 DEF ClientInPlace, Opening
  <2>8. /\ c_files' \in [Clients -> [FileNames -> {NoFile} \union Mixed]]
        /\ NoConn \notin Conns /\ NoConn \notin clientEnds'
    BY <1>1, <2>1, <2>2, Numbers
  <2> QED BY <2>3, <2>4, <2>6, <2>7, <2>8, ClientFrame
<1>3. CASE PutMissing(c)
  <2>1. PICK k \in Conns : c_sock[c] = k /\ k # NoConn /\ k =< made /\ owner[k] = c
    BY <1>3, ClientStands DEF PutMissing
  <2>2. /\ c_pc' = [c_pc EXCEPT ![c] = "prompt"] /\ c_ret' = [c_ret EXCEPT ![c] = 1]
        /\ UNCHANGED <<c_cmd, c_arg, c_sock, c_len, c_files, owner>>
        /\ UNCHANGED <<c2s, s2c, clientEnds, made, accepted, fds, reading, listening>>
    BY <1>3 DEF PutMissing, Return, wire
  <2>3. ClientTypeOK' /\ Streams' /\ clientEnds' \subseteq Conns
    BY <1>1, <2>2 DEF ClientTypeOK, ClientPlaces, Streams, serverVars
  <2>4. c_pc'[c] = "prompt" /\ \A d \in Clients \ {c} : c_pc'[d] = c_pc[d]
    BY <1>1, <2>2 DEF ClientTypeOK
  <2>5. ClientOnly(c, k)
    BY <2>1, <2>2, <2>4 DEF ClientOnly
  <2>6. ClientInPlace(c)' /\ Opening(c)'
    BY <2>4 DEF ClientInPlace, Opening
  <2>7. c_pc[c] = "prompt"
    BY <1>3 DEF PutMissing
  <2>8. ToThread(k)' = ToThread(k) /\ ToClient(k)' = ToClient(k) /\ (Over(k)' <=> Over(k))
    BY <2>1, <2>2, <2>4, <2>7
       DEF ToThread, ToClient, Upload, Uploads, Download, Over, serverVars
  <2>9. StreamsFramed(k)' /\ QuitLast(k)' /\ ThreadInPlace(k)'
    <3>1. StreamsFramed(k) /\ QuitLast(k)
      BY DEF OrderlyInv, FramesInv, ThreadInv
    <3> QED BY <2>2, <2>8, <3>1, ThreadUntouched DEF StreamsFramed, QuitLast
  <2>10. /\ c_files' \in [Clients -> [FileNames -> {NoFile} \union Mixed]]
         /\ k =< made' /\ owner'[k] = c /\ c_sock'[c] = k
    BY <1>1, <2>1, <2>2
  <2> QED BY <2>3, <2>4, <2>5, <2>6, <2>9, <2>10, ClientFrame
<1> QED BY <1>1, <1>2, <1>3 DEF OpenRefused, Killed, Orderly
-----------------------------------------------------------------------------
LEMMA OrderlyStutter == ASSUME OrderlyInv, DescriptorInv', UNCHANGED vars PROVE OrderlyInv'
<1>1. /\ UNCHANGED <<c2s, s2c, clientEnds, made, accepted, fds, reading, listening>>
      /\ UNCHANGED clientVars /\ UNCHANGED serverVars
  BY DEF vars, wire
<1>2. UNCHANGED <<t_pc, t_fd, t_cmd, t_dir, t_name, t_len, t_got, t_buf, files>>
  BY <1>1 DEF serverVars
<1>3. UNCHANGED <<c_pc, c_cmd, c_arg, c_sock, c_len, c_ret, c_files, owner>>
  BY <1>1 DEF clientVars
<1>4. TypeOK' /\ FilesAreRaw'
  BY <1>1, <1>2, <1>3 DEF OrderlyInv, TypeOK, WireTypeOK, ClientTypeOK, ServerTypeOK,
                          FramesInv, FilesAreRaw
<1>5. ASSUME NEW k \in Conns
      PROVE  ThreadInv(k)' /\ ToClient(k)' = ToClient(k) /\ OpenGoesWell(k)' = OpenGoesWell(k)
  <2>1. ToClient(k)' = ToClient(k) /\ ToThread(k)' = ToThread(k)
    BY <1>1, <1>2, <1>3 DEF ToClient, ToThread, Download, Upload, Uploads
  <2>2. ThreadInv(k)
    BY DEF OrderlyInv, FramesInv
  <2>3. StreamsFramed(k)' /\ HasOwn(k)' /\ QuitLast(k)'
    BY <1>1, <1>2, <2>1, <2>2 DEF ThreadInv, StreamsFramed, HasOwn, Running, QuitLast, Over
  <2>4. ThreadInPlace(k)'
    BY <1>1, <2>1, ThreadUntouched
  <2> QED BY <1>1, <1>2, <2>1, <2>3, <2>4 DEF ThreadInv, OpenGoesWell
<1>6. ASSUME NEW c \in Clients PROVE SessionInv(c)'
  <2>1. SessionInv(c) /\ clientEnds \subseteq Conns
    BY TypesOf DEF OrderlyInv, FramesInv
  <2>2. OneSocket(c)'
    BY <1>1, <1>3, <2>1 DEF SessionInv, OneSocket
  <2>3. ClientInPlace(c)'
    <3>1. ClientInPlace(c)
      BY <2>1 DEF SessionInv
    <3>2. ASSUME NEW k \in Conns, c_sock[c] = k
          PROVE  FileAt(ToClient(c_sock[c]), 0, c_len[c])
                    => FileAt(ToClient(c_sock[c]), 0, c_len[c])'
      <4>1. ToClient(k)' = ToClient(k) /\ c_sock'[c] = k /\ c_len' = c_len
        BY <1>3, <1>5, <3>2
      <4>2. FileAt(ToClient(k), 0, c_len[c]) => FileAt(ToClient(k)', 0, c_len'[c])
        BY <4>1
      <4> QED BY <3>2, <4>1, <4>2
    <3>3. c_sock[c] \in clientEnds /\ FileAt(ToClient(c_sock[c]), 0, c_len[c])
             => FileAt(ToClient(c_sock[c]), 0, c_len[c])'
      BY <2>1, <3>2
    <3> QED BY <1>1, <1>3, <3>1, <3>3 DEF ClientInPlace
  <2>4. Opening(c)'
    BY <1>1, <1>3, <1>5, <2>1 DEF SessionInv, Opening
  <2> QED BY <2>2, <2>3, <2>4 DEF SessionInv
<1> QED BY <1>1, <1>3, <1>4, <1>5, <1>6 DEF OrderlyInv, FramesInv

LEMMA OrderlyNext == Orderly /\ OrderlyInv /\ [Next]_vars => OrderlyInv'
<1> SUFFICES ASSUME Orderly, OrderlyInv, [Next]_vars PROVE OrderlyInv'
  OBVIOUS
<1>1. DescriptorInv'
  BY DescriptorNext DEF OrderlyInv
<1>2. CASE AcceptStep
  BY <1>1, <1>2, AcceptKeeps DEF AcceptStep
<1>3. ASSUME NEW c \in Clients, ProgramStep(c), UNCHANGED serverVars PROVE OrderlyInv'
  <2>1. CASE SendName(c)
    BY <1>1, <1>3, <2>1, SendNameKeeps
  <2>2. CASE FileHeader(c) \/ FileBody(c)
    BY <1>1, <1>3, <2>2, SendFileKeeps
  <2>3. CASE OpenReply(c) \/ QuitReply(c)
    BY <1>1, <1>3, <2>3, ClosingKeeps
  <2>4. CASE CdReply(c) \/ GetReply(c) \/ PutReply(c) \/ ShaReply(c) \/ LsReply(c)
    BY <1>1, <1>3, <2>4, RepliesKeep
  <2>5. CASE GetHeader(c) \/ ShaHeader(c)
    BY <1>1, <1>3, <2>5, HeadersKeep
  <2>6. CASE GetBody(c) \/ LsBody(c) \/ ShaBody(c)
    BY <1>1, <1>3, <2>6, BodiesKeep
  <2> QED BY <1>3, <2>1, <2>2, <2>3, <2>4, <2>5, <2>6 DEF ProgramStep
<1>4. ASSUME NEW c \in Clients, UserStep(c), UNCHANGED serverVars PROVE OrderlyInv'
  <2>1. CASE Open(c)
    BY <1>1, <1>4, <2>1, OpenKeeps
  <2>2. CASE OpenRefused(c) \/ Exit(c) \/ Killed(c) \/ PutMissing(c)
    BY <1>1, <1>4, <2>2, NothingSentKeeps
  <2>3. CASE Quit(c) \/ Ls(c) \/ Cd(c) \/ Get(c) \/ Put(c) \/ Sha256(c)
    BY <1>1, <1>4, <2>3, CommandsKeep
  <2> QED BY <1>4, <2>1, <2>2, <2>3 DEF UserStep
<1>5. ASSUME NEW t \in Conns, ThreadStep(t) \/ BrokenPipe(t), UNCHANGED clientVars
      PROVE  OrderlyInv'
  <2>1. ~(ReadClosedFd(t) \/ ReadReset(t) \/ ReadEof(t) \/ BrokenPipe(t))
    BY ReadsWell
  <2>2. CASE CloseFd(t)
    BY <1>1, <1>5, <2>2, CloseKeeps
  <2>3. CASE EnterRead(t)
    BY <1>1, <1>5, <2>3, EnterReadKeeps
  <2>4. CASE ReadPart(t)
    BY <1>1, <1>5, <2>4, ReadPartKeeps
  <2>5. CASE ReadRequest(t)
    BY <1>1, <1>5, <2>5, ReadRequestKeeps
  <2>6. CASE ReadPayload(t)
    BY <1>1, <1>5, <2>6, ReadPayloadKeeps
  <2>7. CASE ReadPutHeader(t)
    BY <1>1, <1>5, <2>7, ReadPutHeaderKeeps
  <2>8. CASE ReadPutBody(t)
    BY <1>1, <1>5, <2>8, ReadPutBodyKeeps
  <2>9. CASE \/ handle_open_conn_request(t) \/ handle_quit_request(t) \/ handle_ls_request(t)
             \/ handle_cd_request(t) \/ handle_get(t) \/ handle_put(t) \/ handle_sha256(t)
    BY <1>1, <1>5, <2>9, HandlersKeep
  <2>10. CASE SendDataHeader(t) \/ SendDataBody(t) \/ SendListing(t)
    BY <1>1, <1>5, <2>10, DataSendsKeep
  <2>11. CASE \/ LsFails(t) \/ ReadFile(t) \/ Sha256Sum(t) \/ ReadFileFails(t)
              \/ PutOpen(t) \/ PutWrite(t)
    BY <1>1, <1>5, <2>11, FileStepsKeep
  <2> QED BY <1>5, <2>1, <2>2, <2>3, <2>4, <2>5, <2>6, <2>7, <2>8, <2>9, <2>10, <2>11
          DEF ThreadStep
<1>6. CASE UNCHANGED vars
  BY <1>1, <1>6, OrderlyStutter
<1> QED BY <1>2, <1>3, <1>4, <1>5, <1>6 DEF Next, ClientStep, ServerStep

(* Every variable of clients and server keeps to its type.  In particular  *)
(* no length is negative: safe_recv is never asked for a number of bytes   *)
(* that wraps round.                                                       *)
THEOREM OrderlyTypes == ASSUME Orderly PROVE Spec => []TypeOK
<1>1. OrderlyInv => TypeOK
  BY DEF OrderlyInv
<1>2. Init => OrderlyInv
  BY OrderlyInit
<1>3. OrderlyInv /\ [Next]_vars => OrderlyInv'
  BY OrderlyNext
<1> QED BY <1>1, <1>2, <1>3, PTL DEF Spec

(* Behind the header of a file, on its way in either direction, there are  *)
(* always the units of that file and as many as it tells.                  *)
THEOREM FramesKept == ASSUME Orderly PROVE Spec => []FramesInv
<1>1. OrderlyInv => FramesInv
  BY DEF OrderlyInv
<1>2. Init => OrderlyInv
  BY OrderlyInit
<1>3. OrderlyInv /\ [Next]_vars => OrderlyInv'
  BY OrderlyNext
<1> QED BY <1>1, <1>2, <1>3, PTL DEF Spec

(* The descriptor a thread uses stands for its own connection: client_fd,  *)
(* of which safe_recv and safe_send have copies, is never the number that  *)
(* accept has given to somebody else since.                                *)
THEOREM OwnDescriptors == ASSUME Orderly PROVE Spec => []OwnDescriptor
<1>1. OrderlyInv => OwnDescriptor
  BY DEF OrderlyInv, FramesInv, ThreadInv, HasOwn, OwnDescriptor
<1>2. Init => OrderlyInv
  BY OrderlyInit
<1>3. OrderlyInv /\ [Next]_vars => OrderlyInv'
  BY OrderlyNext
<1> QED BY <1>1, <1>2, <1>3, PTL DEF Spec

(* Where no client asks for a digest, every file anywhere, and what is     *)
(* being read of one, is a mixture of the originals, byte by byte.         *)
THEOREM BytesKept == ASSUME Orderly, ~DigestsAsked PROVE Spec => []BytesInPlace
<1>1. OrderlyInv => BytesInPlace
  <2> SUFFICES ASSUME OrderlyInv PROVE BytesInPlace
    OBVIOUS
  <2>1. FilesAreRaw
    BY DEF OrderlyInv, FramesInv
  <2>2. ASSUME NEW s \in Mixed PROVE Mixture(s)
    BY DEF Mixed, UnitsAt, Mixture
  <2> QED BY <2>1, <2>2 DEF FilesAreRaw, BytesInPlace, Mixture
<1>2. Init => OrderlyInv
  BY OrderlyInit
<1>3. OrderlyInv /\ [Next]_vars => OrderlyInv'
  BY OrderlyNext
<1> QED BY <1>1, <1>2, <1>3, PTL DEF Spec

(* No write of the server meets a connection that its client has closed:   *)
(* no SIGPIPE ends it.                                                     *)
THEOREM NoBrokenPipe == ASSUME Orderly PROVE Spec => []ServerSurvives
<1>1. OrderlyInv => ServerSurvives
  BY DEF OrderlyInv, FramesInv, ServerSurvives
<1>2. Init => OrderlyInv
  BY OrderlyInit
<1>3. OrderlyInv /\ [Next]_vars => OrderlyInv'
  BY OrderlyNext
<1> QED BY <1>1, <1>2, <1>3, PTL DEF Spec
=============================================================================
