------------------------------ MODULE FtpClient ------------------------------
(***************************************************************************)
(* The client program (ftp_client.cpp).  c_pc says at which getline, send  *)
(* or receive the single thread is; an action is what it does from there   *)
(* to the next.  A command that ends goes back to the prompt with the      *)
(* result its handler returned.                                            *)
(***************************************************************************)
EXTENDS FtpWire

CONSTANTS LocalFiles,    \* the files each client starts with
          Commands,      \* the commands each user types, besides open and quit
          Backlog,       \* bound: units unread when a command is typed
          Reopen,        \* the user may type open while connected
          Vanish         \* the process may be killed

ASSUME FtpClientAssumption ==
    /\ LocalFiles \in [Clients -> [FileNames -> {NoFile} \union Contents]]
    /\ Commands \in [Clients -> SUBSET {"ls", "cd", "get", "put", "sha256"}]
    /\ Backlog \in Nat
    /\ Reopen \in BOOLEAN /\ Vanish \in BOOLEAN

VARIABLES c_pc, c_cmd,
          c_arg,         \* the file or directory name of the command
          c_sock,        \* sockfd: a connection, or NoConn for -1
          c_len,         \* payload_len, file_size
          c_ret,         \* what the last handler returned
          c_files,
          owner          \* which client made a connection

clientVars == <<c_pc, c_cmd, c_arg, c_sock, c_len, c_ret, c_files, owner>>

ClientPlaces == {"prompt", "name", "reply", "header", "body", "fileHeader",
                 "fileBody", "exited"}

ClientTypeOK ==
    /\ c_pc \in [Clients -> ClientPlaces]
    /\ c_cmd \in [Clients -> {"open", "ls", "cd", "get", "put", "sha256", "quit"}]
    /\ c_arg \in [Clients -> FileNames \union Dirs \union {"none"}]
    /\ c_sock \in [Clients -> Conns \union {NoConn}]
    /\ c_len \in [Clients -> Nat]
    /\ c_ret \in [Clients -> {0, 1}]
    /\ c_files \in [Clients -> [FileNames -> {NoFile} \union Seq(Units)]]
    /\ owner \in [Conns -> Clients \union {"nobody"}]

ClientInit == /\ c_pc = [c \in Clients |-> "prompt"]
              /\ c_cmd = [c \in Clients |-> "quit"]
              /\ c_arg = [c \in Clients |-> "none"]
              /\ c_sock = [c \in Clients |-> NoConn]
              /\ c_len = [c \in Clients |-> 0]
              /\ c_ret = [c \in Clients |-> 0]
              /\ c_files = LocalFiles
              /\ owner = [k \in Conns |-> "nobody"]
-----------------------------------------------------------------------------
(* The handler returns r, 0 or (for -1) 1, to the command loop.            *)
Return(c, r) == /\ c_pc' = [c_pc EXCEPT ![c] = "prompt"]
                /\ c_ret' = [c_ret EXCEPT ![c] = r]
Goto(c, place) == c_pc' = [c_pc EXCEPT ![c] = place] /\ UNCHANGED c_ret
Disconnected(c) == c_sock' = [c_sock EXCEPT ![c] = NoConn]

(* safe_send: all the units go out, or the call fails, closes the socket   *)
(* and leaves sockfd at -1, of which sha256 has only a copy.  On a reset   *)
(* connection it may still succeed.                                        *)
ClientSends(c, units) == /\ c_sock[c] \in clientEnds
                         /\ c2s' = [c2s EXCEPT ![c_sock[c]] = @ \o units]
                         /\ UNCHANGED <<c_sock, clientEnds>>
CannotSend(c, cmd) == /\ c_sock[c] \in clientEnds => Reset(c_sock[c])
                      /\ clientEnds' = clientEnds \ {c_sock[c]}
                      /\ IF cmd = "sha256" THEN UNCHANGED c_sock ELSE Disconnected(c)
                      /\ UNCHANGED c2s

(* What safe_recv(n) may do: return n units; return what there is, having  *)
(* closed the socket, when the server has closed its end; or return -1 and *)
(* close nothing, on a reset connection or a stale descriptor.             *)
Outcome(end, units, rest) == [end |-> end, units |-> units, rest |-> rest]
Received(c, n) ==
    LET k == c_sock[c]
        open == k \in clientEnds
    IN  (IF open /\ Len(s2c[k]) >= n
         THEN {Outcome("full", First(s2c[k], n), After(s2c[k], n))} ELSE {})
        \union
        (IF open /\ Len(s2c[k]) < n /\ ~ServerEnd(k)
         THEN {Outcome("eof", s2c[k], <<>>)} ELSE {})
        \union
        (IF ~open \/ Reset(k) THEN {Outcome("error", <<>>, <<>>)} ELSE {})

(* The connection after safe_recv has ended with outcome o, for a handler  *)
(* that passes sockfd by reference and one that has a copy of it.          *)
RecvByValue(c, o) ==
    /\ s2c' = [s2c EXCEPT ![c_sock[c]] = o.rest]
    /\ clientEnds' = IF o.end = "eof" THEN clientEnds \ {c_sock[c]} ELSE clientEnds
    /\ UNCHANGED c_sock
(* Mutant of it: the socket is closed whenever read is done.               *)
RecvClosesAlways(c, o) ==
    /\ s2c' = [s2c EXCEPT ![c_sock[c]] = o.rest]
    /\ clientEnds' = clientEnds \ {c_sock[c]}
    /\ Disconnected(c)
RecvByRef(c, o) ==
    /\ s2c' = [s2c EXCEPT ![c_sock[c]] = o.rest]
    /\ IF o.end = "eof"
       THEN clientEnds' = clientEnds \ {c_sock[c]} /\ Disconnected(c)
       ELSE UNCHANGED <<clientEnds, c_sock>>
RecvOrClose(c, o, keep) ==
    /\ s2c' = [s2c EXCEPT ![c_sock[c]] = o.rest]
    /\ IF keep
       THEN UNCHANGED <<clientEnds, c_sock>>
       ELSE clientEnds' = clientEnds \ {c_sock[c]} /\ Disconnected(c)

serverSide == <<made, accepted, fds, reading, listening>>
-----------------------------------------------------------------------------
(* handle_open up to the request.  A socket that is already open is left   *)
(* behind, and stays open.                                                 *)
Open(c) == /\ c_pc[c] = "prompt"
           /\ c_sock[c] = NoConn \/ Reopen
           /\ listening /\ made < MaxConns
           /\ made' = made + 1
           /\ owner' = [owner EXCEPT ![made'] = c]
           /\ clientEnds' = clientEnds \union {made'}
           /\ c_sock' = [c_sock EXCEPT ![c] = made']
           /\ c2s' = [c2s EXCEPT ![made'] = Header("OPEN_CONN_REQUEST", "STATUS_UNUSED", 0)]
           /\ c_cmd' = [c_cmd EXCEPT ![c] = "open"]
           /\ Goto(c, "reply")
           /\ UNCHANGED <<c_arg, c_len, c_files, s2c, accepted, fds, reading, listening>>

(* connect fails: nobody listens.                                          *)
OpenRefused(c) == /\ c_pc[c] = "prompt"
                  /\ c_sock[c] = NoConn \/ Reopen
                  /\ ~listening
                  /\ Disconnected(c)
                  /\ Return(c, 1)
                  /\ UNCHANGED <<c_cmd, c_arg, c_len, c_files, owner, wire>>

(* quit without a connection leaves the program; the system closes its     *)
(* sockets, as it does when the process is killed.                         *)
Gone(c) == /\ Goto(c, "exited")
           /\ clientEnds' = {k \in clientEnds : owner[k] # c}
           /\ Disconnected(c)
           /\ UNCHANGED <<c_cmd, c_arg, c_len, c_files, owner, c2s, s2c, serverSide>>
Exit(c) == c_pc[c] = "prompt" /\ c_sock[c] = NoConn /\ Gone(c)
Killed(c) == Vanish /\ c_pc[c] # "exited" /\ Gone(c)
-----------------------------------------------------------------------------
Request(cmd) == CASE cmd = "ls" -> "LIST_REQUEST"
                  [] cmd = "cd" -> "CHANGE_DIR_REQUEST"
                  [] cmd = "get" -> "GET_REQUEST"
                  [] cmd = "put" -> "PUT_REQUEST"
                  [] cmd = "sha256" -> "SHA_REQUEST"
                  [] cmd = "quit" -> "QUIT_REQUEST"

(* A command typed at the prompt of a connected client, up to the header   *)
(* of its request; units is the length of the payload.                     *)
Command(c, cmd, units) ==
    /\ c_pc[c] = "prompt" /\ c_sock[c] # NoConn
    /\ Len(c2s[c_sock[c]]) =< Backlog /\ Len(s2c[c_sock[c]]) =< Backlog
    /\ c_cmd' = [c_cmd EXCEPT ![c] = cmd]
    /\ \/ /\ ClientSends(c, Header(Request(cmd), "STATUS_UNUSED", units))
          /\ Goto(c, IF units = 0 THEN "reply" ELSE "name")
       \/ CannotSend(c, cmd) /\ Return(c, 1)
    /\ UNCHANGED <<c_len, c_files, owner, s2c, serverSide>>

Quit(c) == Command(c, "quit", 0) /\ UNCHANGED c_arg
Ls(c) == "ls" \in Commands[c] /\ Command(c, "ls", 0) /\ UNCHANGED c_arg
Cd(c) == "cd" \in Commands[c] /\ Command(c, "cd", 1)
             /\ \E d \in Dirs : c_arg' = [c_arg EXCEPT ![c] = d]
NamesFile(c, cmd, n) == /\ cmd \in Commands[c]
                        /\ Command(c, cmd, 1)
                        /\ c_arg' = [c_arg EXCEPT ![c] = n]
Get(c) == \E n \in FileNames : NamesFile(c, "get", n)
Put(c) == \E n \in FileNames : c_files[c][n] # NoFile /\ NamesFile(c, "put", n)
Sha256(c) == \E n \in FileNames : NamesFile(c, "sha256", n)

(* put of a file that cannot be read: the server hears nothing of it.      *)
PutMissing(c) == /\ "put" \in Commands[c]
                 /\ c_pc[c] = "prompt" /\ c_sock[c] # NoConn
                 /\ OpenFails \/ \E n \in FileNames : c_files[c][n] = NoFile
                 /\ Return(c, 1)
                 /\ UNCHANGED <<c_cmd, c_arg, c_sock, c_len, c_files, owner, wire>>

SendName(c) ==
    /\ c_pc[c] = "name"
    /\ \/ ClientSends(c, <<Data(c_arg[c])>>) /\ Goto(c, "reply")
       \/ CannotSend(c, c_cmd[c]) /\ Return(c, 1)
    /\ UNCHANGED <<c_cmd, c_arg, c_len, c_files, owner, s2c, serverSide>>
-----------------------------------------------------------------------------
Awaits(c, place, cmd) == /\ c_pc[c] = place /\ c_cmd[c] = cmd
                         /\ UNCHANGED <<c_cmd, c_arg, owner, c2s, serverSide>>

IsReply(o, type) == /\ o.end = "full"
                    /\ MagicOk(o.units)
                    /\ HeaderIn(o.units).type = type
Refused(o) == HeaderIn(o.units).status = "STATUS_ERR"

(* recv_open_conn_reply: a handshake that fails closes the socket.         *)
OpenReply(c) ==
    /\ Awaits(c, "reply", "open")
    /\ \E o \in Received(c, HeaderLen) :
          LET ok == IsReply(o, "OPEN_CONN_REPLY") /\ HeaderIn(o.units).status = "STATUS_OK"
          IN  RecvOrClose(c, o, ok) /\ Return(c, IF ok THEN 0 ELSE 1)
    /\ UNCHANGED <<c_len, c_files>>

(* recv_quit_reply and the end of handle_quit                              *)
QuitReply(c) ==
    /\ Awaits(c, "reply", "quit")
    /\ \E o \in Received(c, HeaderLen) :
          LET ok == IsReply(o, "QUIT_REPLY")
          IN  RecvOrClose(c, o, ~ok /\ o.end # "eof") /\ Return(c, IF ok THEN 0 ELSE 1)
    /\ UNCHANGED <<c_len, c_files>>

(* recv_ls_reply.  A payload of one unit, the NUL alone, is not read.      *)
LsReply(c) ==
    /\ Awaits(c, "reply", "ls")
    /\ \E o \in Received(c, HeaderLen) :
          /\ RecvByRef(c, o)
          /\ IF ~IsReply(o, "LIST_REPLY")
             THEN Return(c, 1) /\ UNCHANGED c_len
             ELSE LET len == PayloadLen(HeaderIn(o.units))
                  IN  /\ c_len' = [c_len EXCEPT ![c] = len]
                      /\ IF len = 1 THEN Return(c, 0) ELSE Goto(c, "body")
    /\ UNCHANGED c_files

(* recv_cd_reply returns 0 whatever the status, and takes an incomplete    *)
(* header for a whole one.                                                 *)
CdReply(c) ==
    /\ Awaits(c, "reply", "cd")
    /\ \E o \in Received(c, HeaderLen) :
          /\ RecvByRef(c, o)
          /\ Return(c, IF /\ MagicOk(o.units)
                          /\ HeaderIn(o.units).type = "CHANGE_DIR_REPLY" THEN 0 ELSE 1)
    /\ UNCHANGED <<c_len, c_files>>

GetReply(c) ==
    /\ Awaits(c, "reply", "get")
    /\ \E o \in Received(c, HeaderLen) :
          /\ RecvByRef(c, o)
          /\ IF IsReply(o, "GET_REPLY") /\ ~Refused(o) THEN Goto(c, "header")
                                                       ELSE Return(c, 1)
    /\ UNCHANGED <<c_len, c_files>>

PutReply(c) ==
    /\ Awaits(c, "reply", "put")
    /\ \E o \in Received(c, HeaderLen) :
          /\ RecvByRef(c, o)
          /\ IF o.end = "full" /\ HeaderIn(o.units).type = "PUT_REPLY"
             THEN Goto(c, "fileHeader") ELSE Return(c, 1)
    /\ UNCHANGED <<c_len, c_files>>

(* handle_sha256 has its own copy of sockfd: after an end of file the      *)
(* command loop goes on with the closed descriptor.                        *)
ShaReply(c) ==
    /\ Awaits(c, "reply", "sha256")
    /\ \E o \in Received(c, HeaderLen) :
          /\ RecvByValue(c, o)
          /\ IF HeaderIn(o.units).type = "SHA_REPLY" /\ ~Refused(o)
             THEN Goto(c, "header") ELSE Return(c, 1)
    /\ UNCHANGED <<c_len, c_files>>
-----------------------------------------------------------------------------
(* The length in the FILE_DATA header of get, and in that of sha256, where *)
(* it is not converted from network order and may be less than 12: size_t  *)
(* has twice the bytes of m_length, and no sign.                           *)
(* Mutant: get does not convert it either.                                 *)
GetLenUnconverted(h) == h.length - HeaderLen
GetLen(h) == PayloadLen(h)
SizeT == Radix * Radix * Radix * Radix
ShaLen(h) == (h.length - HeaderLen) % SizeT

GetHeader(c) ==
    /\ Awaits(c, "header", "get")
    /\ \E o \in Received(c, HeaderLen) :
          /\ RecvByRef(c, o)
          /\ IF o.end = "full" /\ HeaderIn(o.units).type = "FILE_DATA"
             THEN Goto(c, "body") /\ c_len' = [c_len EXCEPT ![c] = GetLen(HeaderIn(o.units))]
             ELSE Return(c, 1) /\ UNCHANGED c_len
    /\ UNCHANGED c_files

ShaHeader(c) ==
    /\ Awaits(c, "header", "sha256")
    /\ \E o \in Received(c, HeaderLen) :
          /\ RecvByValue(c, o)
          /\ IF HeaderIn(o.units).type = "FILE_DATA"
             THEN Goto(c, "body") /\ c_len' = [c_len EXCEPT ![c] = ShaLen(HeaderIn(o.units))]
             ELSE Return(c, 1) /\ UNCHANGED c_len
    /\ UNCHANGED c_files

(* get writes the local file once everything has come.                     *)
GetBody(c) ==
    /\ Awaits(c, "body", "get")
    /\ \E o \in Received(c, c_len[c]), fails \in OpenMayFail :
          /\ RecvByRef(c, o)
          /\ IF o.end = "full" /\ ~fails
             THEN c_files' = [c_files EXCEPT ![c][c_arg[c]] = o.units] /\ Return(c, 0)
             ELSE Return(c, 1) /\ UNCHANGED c_files
    /\ UNCHANGED c_len

(* ls and sha256 print what safe_recv has read, if it is anything.         *)
LsBody(c) ==
    /\ Awaits(c, "body", "ls")
    /\ \E o \in Received(c, c_len[c]) :
          RecvByRef(c, o) /\ Return(c, IF o.units = <<>> THEN 1 ELSE 0)
    /\ UNCHANGED <<c_len, c_files>>
ShaBody(c) ==
    /\ Awaits(c, "body", "sha256")
    /\ \E o \in Received(c, c_len[c]) :
          RecvByValue(c, o) /\ Return(c, IF o.units = <<>> THEN 1 ELSE 0)
    /\ UNCHANGED <<c_len, c_files>>

(* The second half of put: the FILE_DATA message.  No reply follows it.    *)
FileHeader(c) ==
    /\ c_pc[c] = "fileHeader"
    /\ LET n == Len(c_files[c][c_arg[c]])
       IN  \/ /\ ClientSends(c, Header("FILE_DATA", "STATUS_UNUSED", n))
              /\ IF n = 0 THEN Return(c, 0) ELSE Goto(c, "fileBody")
           \/ CannotSend(c, c_cmd[c]) /\ Return(c, 1)
    /\ UNCHANGED <<c_cmd, c_arg, c_len, c_files, owner, s2c, serverSide>>
FileBody(c) ==
    /\ c_pc[c] = "fileBody"
    /\ \/ ClientSends(c, c_files[c][c_arg[c]]) /\ Return(c, 0)
       \/ CannotSend(c, c_cmd[c]) /\ Return(c, 1)
    /\ UNCHANGED <<c_cmd, c_arg, c_len, c_files, owner, s2c, serverSide>>
-----------------------------------------------------------------------------
(* What the user starts, and what the program does by itself.              *)
UserStep(c) == \/ Open(c) \/ OpenRefused(c) \/ Exit(c) \/ Killed(c)
               \/ Quit(c) \/ Ls(c) \/ Cd(c) \/ Get(c) \/ Put(c) \/ Sha256(c)
               \/ PutMissing(c)
ProgramStep(c) == \/ SendName(c)
                  \/ OpenReply(c) \/ QuitReply(c) \/ LsReply(c) \/ CdReply(c)
                  \/ GetReply(c) \/ PutReply(c) \/ ShaReply(c)
                  \/ GetHeader(c) \/ ShaHeader(c)
                  \/ GetBody(c) \/ LsBody(c) \/ ShaBody(c)
                  \/ FileHeader(c) \/ FileBody(c)
=============================================================================
