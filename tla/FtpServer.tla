------------------------------ MODULE FtpServer ------------------------------
(***************************************************************************)
(* The server program (ftp_server.cpp): the accept loop and one thread per *)
(* connection, numbered as the connection it was made for.  t_pc says at   *)
(* which call a thread is; an action is what it does from there to the     *)
(* next.  Threads share the descriptor table and the files.  A thread uses *)
(* its descriptor by number: whatever connection has that number when the  *)
(* call is made is the one it reads, writes or closes.                     *)
(***************************************************************************)
EXTENDS FtpWire

CONSTANT ServerFiles     \* the files the server starts with

ASSUME FtpServerAssumption == /\ ServerFiles \in [Files -> {NoFile} \union Contents]
                              /\ NoFile \notin Seq(Units)

VARIABLES t_pc,
          t_fd,          \* client_fd, captured by the thread
          t_cmd,         \* type of the request being handled
          t_dir,         \* context.current_dir
          t_name,        \* the name that came with the request
          t_len,         \* length of the payload to be read
          t_got,         \* units the safe_recv under way has read
          t_buf,         \* data to be sent or stored
          files

serverVars == <<t_pc, t_fd, t_cmd, t_dir, t_name, t_len, t_got, t_buf, files>>
handler == <<t_cmd, t_name, t_len, t_buf>>

RecvPlaces == {"request", "payload", "putHeader", "putBody"}
SendPlaces == {"reply", "listing", "dataHeader", "dataBody"}
ServerPlaces == {"idle", "readFile", "putOpen", "putWrite", "close", "ended"}
                    \union RecvPlaces \union SendPlaces

ServerTypeOK ==
    /\ t_pc \in [Conns -> ServerPlaces]
    /\ t_fd \in [Conns -> Fds \union {0}]
    /\ t_cmd \in [Conns -> Types \union {"none"}]
    /\ t_dir \in [Conns -> Dirs]
    /\ t_name \in [Conns -> FileNames \union Dirs \union {"none"}]
    /\ t_len \in [Conns -> Nat]
    /\ t_got \in [Conns -> Seq(Units)]
    /\ t_buf \in [Conns -> Seq(Units)]
    /\ files \in [Files -> {NoFile} \union Seq(Units)]

ServerInit == /\ t_pc = [t \in Conns |-> "idle"]
              /\ t_fd = [t \in Conns |-> 0]
              /\ t_cmd = [t \in Conns |-> "none"]
              /\ t_dir = [t \in Conns |-> TopDir]
              /\ t_name = [t \in Conns |-> "none"]
              /\ t_len = [t \in Conns |-> 0]
              /\ t_got = [t \in Conns |-> <<>>]
              /\ t_buf = [t \in Conns |-> <<>>]
              /\ files = ServerFiles
-----------------------------------------------------------------------------
clientSide == <<c2s, s2c, clientEnds, made>>
Jump(t, place) == t_pc' = [t_pc EXCEPT ![t] = place]

(* The variables of request_processing and its handlers, at its start.     *)
NewLocals(t) == /\ t_cmd' = [t_cmd EXCEPT ![t] = "none"]
                /\ t_name' = [t_name EXCEPT ![t] = "none"]
                /\ t_len' = [t_len EXCEPT ![t] = 0]
                /\ t_buf' = [t_buf EXCEPT ![t] = <<>>]

(* close(client_fd), whatever the number stands for by now                 *)
(* Mutant: it is forgotten.                                                *)
NotClosed(t) == fds
Closed(t) == [fds EXCEPT ![t_fd[t]] = NoConn]

(* The accept loop.  The system gives the lowest free descriptor; without  *)
(* one accept fails, and the loop tries again.                             *)
Accept == /\ listening
          /\ Queued(accepted + 1)
          /\ \E f \in Fds :
                /\ fds[f] = NoConn
                /\ \A g \in 1 .. f - 1 : fds[g] # NoConn
                /\ fds' = [fds EXCEPT ![f] = accepted + 1]
                /\ t_fd' = [t_fd EXCEPT ![accepted + 1] = f]
          /\ accepted' = accepted + 1
          /\ Jump(accepted', "request")
          /\ UNCHANGED <<clientSide, reading, listening, t_dir, t_got, handler, files>>

(* The end of the thread, and of its variables.                            *)
CloseFd(t) == /\ t_pc[t] = "close"
              /\ fds' = Closed(t)
              /\ Jump(t, "ended")
              /\ NewLocals(t)
              /\ t_dir' = [t_dir EXCEPT ![t] = TopDir]
              /\ UNCHANGED <<clientSide, accepted, reading, listening, t_fd, t_got, files>>

(* A write to a connection that the client has closed, after the reset has *)
(* come, raises SIGPIPE: the whole process ends.                           *)
BrokenPipe(t) ==
    /\ t_pc[t] \in SendPlaces
    /\ fds[t_fd[t]] # NoConn /\ Reset(fds[t_fd[t]])
    /\ listening' = FALSE
    /\ accepted' = made
    /\ fds' = [f \in Fds |-> NoConn]
    /\ reading' = [r \in Conns |-> NoConn]
    /\ t_pc' = [r \in Conns |-> "ended"]
    /\ UNCHANGED <<clientSide, t_fd, t_dir, t_got, handler, files>>

(* safe_send(units), going on at ok or, when it fails, at bad.  It fails   *)
(* on a descriptor that is closed or a connection that is reset, and       *)
(* closes the descriptor.  (write, which sha256 uses for its reply, does   *)
(* not.)                                                                   *)
ServerSends(t, units, ok, bad, closes) ==
    LET k == fds[t_fd[t]]
    IN  /\ \/ /\ k # NoConn
              /\ s2c' = [s2c EXCEPT ![k] = @ \o units]
              /\ Jump(t, ok)
              /\ UNCHANGED fds
           \/ /\ k # NoConn => Reset(k)
              /\ fds' = IF closes THEN Closed(t) ELSE fds
              /\ Jump(t, bad)
              /\ UNCHANGED s2c
        /\ UNCHANGED <<c2s, clientEnds, made, accepted, reading, listening, t_fd, t_got>>
-----------------------------------------------------------------------------
(* safe_recv.  A read keeps the connection it has found until it returns,  *)
(* even when the descriptor is closed meanwhile.                           *)
Needed(t) == IF t_pc[t] \in {"request", "putHeader"} THEN HeaderLen ELSE t_len[t]

EnterRead(t) ==
    /\ t_pc[t] \in RecvPlaces /\ reading[t] = NoConn
    /\ fds[t_fd[t]] # NoConn
    /\ reading' = [reading EXCEPT ![t] = fds[t_fd[t]]]
    /\ IF t_pc[t] = "request" THEN NewLocals(t) ELSE UNCHANGED handler
    /\ UNCHANGED <<clientSide, accepted, fds, listening, t_pc, t_fd, t_dir, t_got, files>>

(* Where the handlers go on when safe_recv returns less than they need:    *)
(* get and put return 0, the others -1.                                    *)
AfterShortRead(t) ==
    IF \/ t_pc[t] = "putBody"
       \/ t_pc[t] = "payload" /\ t_cmd[t] \in {"GET_REQUEST", "PUT_REQUEST"}
    THEN "request" ELSE "close"

ShortRead(t) == /\ Jump(t, AfterShortRead(t))
                /\ reading' = [reading EXCEPT ![t] = NoConn]
                /\ t_got' = [t_got EXCEPT ![t] = <<>>]
                /\ UNCHANGED <<clientSide, accepted, listening, t_fd, t_dir, handler, files>>

(* EBADF: the descriptor is closed when the read is made.                  *)
ReadClosedFd(t) == /\ t_pc[t] \in RecvPlaces /\ reading[t] = NoConn
                   /\ fds[t_fd[t]] = NoConn
                   /\ ShortRead(t)
                   /\ UNCHANGED fds

(* ECONNRESET                                                              *)
ReadReset(t) == /\ reading[t] # NoConn
                /\ c2s[reading[t]] = <<>> /\ Reset(reading[t])
                /\ ShortRead(t)
                /\ UNCHANGED fds

(* End of file: safe_recv closes the descriptor, of which it has a copy.   *)
ReadEof(t) == /\ reading[t] # NoConn
              /\ c2s[reading[t]] = <<>> /\ reading[t] \notin clientEnds
              /\ ShortRead(t)
              /\ fds' = Closed(t)

(* Otherwise it takes some of what there is, up to what is lacking.        *)
Lacking(t) == Needed(t) - Len(t_got[t])
Have(t, n) == t_got[t] \o First(c2s[reading[t]], n)
Takes(t, n) ==
    /\ reading[t] # NoConn /\ Len(c2s[reading[t]]) >= n
    /\ c2s' = [c2s EXCEPT ![reading[t]] = After(@, n)]
    /\ reading' = [reading EXCEPT ![t] = NoConn]
    /\ UNCHANGED <<s2c, clientEnds, made, accepted, fds, listening, t_fd, files>>

ReadPart(t) == \E n \in 1 .. Lacking(t) - 1 :
    /\ Takes(t, n)
    /\ t_got' = [t_got EXCEPT ![t] = Have(t, n)]
    /\ UNCHANGED <<t_pc, t_dir, handler>>

(* safe_recv at place returns everything it was asked for.                 *)
Message(t) == Have(t, Lacking(t))
ReadAll(t, place) == /\ t_pc[t] = place
                     /\ Takes(t, Lacking(t))
                     /\ t_got' = [t_got EXCEPT ![t] = <<>>]
-----------------------------------------------------------------------------
(* request_processing                                                      *)
WithPayload == {"CHANGE_DIR_REQUEST", "GET_REQUEST", "PUT_REQUEST", "SHA_REQUEST"}
WithoutPayload == {"OPEN_CONN_REQUEST", "LIST_REQUEST", "QUIT_REQUEST"}

ReadRequest(t) ==
    /\ ReadAll(t, "request")
    /\ LET h == HeaderIn(Message(t))
           known == MagicOk(Message(t)) /\ h.type \in WithPayload \union WithoutPayload
       IN  /\ Jump(t, IF ~known THEN "close"
                      ELSE IF h.type \in WithPayload THEN "payload" ELSE "reply")
           /\ t_cmd' = [t_cmd EXCEPT ![t] = h.type]
           /\ t_len' = [t_len EXCEPT ![t] = IF known /\ h.type \in WithPayload
                                            THEN PayloadLen(h) ELSE 0]
    /\ UNCHANGED <<t_dir, t_name, t_buf>>

NameIn(u) == IF u \in {Data(n) : n \in FileNames \union Dirs} THEN u.byte ELSE "none"
ReadPayload(t) ==
    /\ ReadAll(t, "payload")
    /\ t_name' = [t_name EXCEPT ![t] = NameIn(Message(t)[1])]
    /\ Jump(t, "reply")
    /\ UNCHANGED <<t_dir, t_cmd, t_len, t_buf>>

(* The handlers, at their reply.  Reply sends the header and goes on at ok *)
(* or at bad, which is the value they return: "request" for 0, "close" for *)
(* -1.                                                                     *)
Replies(t, request, header, ok, bad) ==
    /\ t_pc[t] = "reply" /\ t_cmd[t] = request
    /\ ServerSends(t, header, ok, bad, request # "SHA_REQUEST")
    /\ UNCHANGED <<t_cmd, t_name, t_len, files>>

(* Mutant: the file name is not joined to the current directory.           *)
FileAtTop(t) == <<TopDir, t_name[t]>>
FileOf(t) == <<t_dir[t], t_name[t]>>
FileThere(t) == FileOf(t) \in Files /\ files[FileOf(t)] # NoFile
StatusOf(there) == IF there THEN "STATUS_OK" ELSE "STATUS_ERR"

handle_open_conn_request(t) ==
    /\ Replies(t, "OPEN_CONN_REQUEST", Header("OPEN_CONN_REPLY", "STATUS_OK", 0),
               "request", "close")
    /\ UNCHANGED <<t_dir, t_buf>>

(* Mutant: handle_quit_request returns 0.                                  *)
GoesOnAfterQuit == "request"
AfterQuit == "close"
handle_quit_request(t) ==
    /\ Replies(t, "QUIT_REQUEST", Header("QUIT_REPLY", "STATUS_UNUSED", 0), AfterQuit, "close")
    /\ UNCHANGED <<t_dir, t_buf>>

(* ls prints nothing for an empty directory; the NUL is sent all the same. *)
(* A pipe that cannot be opened ends the connection.                       *)
Listing(dir) == (IF \/ \E n \in FileNames : files[<<dir, n>>] # NoFile
                    \/ \E d \in Dirs : <<dir, d>> \in Subdirs
                 THEN <<Data(dir)>> ELSE <<>>) \o <<Data("NUL")>>
(* Mutants: the length forgets the NUL, or counts it twice.                *)
ListingLenShort(listing) == Len(listing) - 1
ListingLenLong(listing) == Len(listing) + 1
ListingLen(listing) == Len(listing)
handle_ls_request(t) ==
    LET listing == Listing(t_dir[t])
    IN  /\ Replies(t, "LIST_REQUEST", Header("LIST_REPLY", "STATUS_UNUSED", ListingLen(listing)),
                   "listing", "close")
        /\ t_buf' = [t_buf EXCEPT ![t] = listing]
        /\ UNCHANGED t_dir
LsFails(t) == /\ OpenFails
              /\ t_pc[t] = "reply" /\ t_cmd[t] = "LIST_REQUEST"
              /\ Jump(t, "close")
              /\ UNCHANGED <<wire, t_fd, t_dir, t_got, handler, files>>

handle_cd_request(t) ==
    LET there == <<t_dir[t], t_name[t]>> \in Subdirs
    IN  /\ Replies(t, "CHANGE_DIR_REQUEST", Header("CHANGE_DIR_REPLY", StatusOf(there), 0),
                   "request", "close")
        /\ t_dir' = IF there THEN [t_dir EXCEPT ![t] = t_name[t]] ELSE t_dir
        /\ UNCHANGED t_buf

handle_get(t) ==
    /\ Replies(t, "GET_REQUEST", Header("GET_REPLY", StatusOf(FileThere(t)), 0),
               IF FileThere(t) THEN "readFile" ELSE "request", "request")
    /\ t_buf' = [t_buf EXCEPT ![t] = <<>>]
    /\ UNCHANGED t_dir

handle_put(t) ==
    /\ Replies(t, "PUT_REQUEST", Header("PUT_REPLY", "STATUS_UNUSED", 0), "putHeader", "close")
    /\ UNCHANGED <<t_dir, t_buf>>

handle_sha256(t) ==
    /\ Replies(t, "SHA_REQUEST", Header("SHA_REPLY", StatusOf(FileThere(t)), 0),
               IF FileThere(t) THEN "readFile" ELSE "request", "request")
    /\ t_buf' = [t_buf EXCEPT ![t] = <<>>]
    /\ UNCHANGED t_dir
-----------------------------------------------------------------------------
(* The file of get, a unit at a time: others may write it meanwhile.  When *)
(* the file or the pipe cannot be opened nothing more is sent.             *)
WithFile(t, place) == t_pc[t] = place /\ UNCHANGED <<wire, t_fd, t_dir, t_got, t_cmd, t_name, t_len>>

ReadFile(t) ==
    LET content == files[FileOf(t)]
    IN  /\ WithFile(t, "readFile")
        /\ t_cmd[t] = "GET_REQUEST"
        /\ IF Len(content) > Len(t_buf[t])
           THEN t_buf' = [t_buf EXCEPT ![t] = Append(@, content[Len(@) + 1])] /\ UNCHANGED t_pc
           ELSE Jump(t, "dataHeader") /\ UNCHANGED t_buf
        /\ UNCHANGED files

Sha256Sum(t) == /\ WithFile(t, "readFile")
                /\ t_cmd[t] = "SHA_REQUEST"
                /\ t_buf' = [t_buf EXCEPT ![t] = <<Data("digest"), Data("NUL")>>]
                /\ Jump(t, "dataHeader")
                /\ UNCHANGED files

ReadFileFails(t) == /\ OpenFails
                    /\ WithFile(t, "readFile")
                    /\ t_buf[t] = <<>>
                    /\ Jump(t, "request")
                    /\ UNCHANGED <<t_buf, files>>

(* The FILE_DATA message of get and sha256.                                *)
Then(t) == IF t_cmd[t] = "GET_REQUEST" THEN "request" ELSE "close"
SendDataHeader(t) ==
    /\ t_pc[t] = "dataHeader"
    /\ ServerSends(t, Header("FILE_DATA", "STATUS_UNUSED", Len(t_buf[t])),
             IF t_buf[t] = <<>> THEN "request" ELSE "dataBody", Then(t), TRUE)
    /\ UNCHANGED <<t_dir, handler, files>>
SendDataBody(t) ==
    /\ t_pc[t] = "dataBody"
    /\ ServerSends(t, t_buf[t], "request", Then(t), TRUE)
    /\ UNCHANGED <<t_dir, handler, files>>
SendListing(t) ==
    /\ t_pc[t] = "listing"
    /\ ServerSends(t, t_buf[t], "request", "close", TRUE)
    /\ UNCHANGED <<t_dir, handler, files>>
-----------------------------------------------------------------------------
(* The second half of put.                                                 *)
(* Mutant: the header is taken off the length twice.                       *)
PutLenTwice(h) == PayloadLen(h) - HeaderLen
PutLen(h) == PayloadLen(h)

ReadPutHeader(t) ==
    /\ ReadAll(t, "putHeader")
    /\ LET h == HeaderIn(Message(t))
       IN  IF h.type # "FILE_DATA"
           THEN Jump(t, "request") /\ UNCHANGED <<t_len, t_buf>>
           ELSE /\ Jump(t, IF PutLen(h) = 0 THEN "putOpen" ELSE "putBody")
                /\ t_len' = [t_len EXCEPT ![t] = PutLen(h)]
                /\ t_buf' = [t_buf EXCEPT ![t] = <<>>]
    /\ UNCHANGED <<t_dir, t_cmd, t_name>>

ReadPutBody(t) ==
    /\ ReadAll(t, "putBody")
    /\ t_buf' = [t_buf EXCEPT ![t] = Message(t)]
    /\ Jump(t, "putOpen")
    /\ UNCHANGED <<t_dir, t_cmd, t_name, t_len>>

(* Opening the file empties it; a failure is told to nobody.               *)
(* Mutant: without std::ios::trunc.                                        *)
NotEmptied(content) == IF content = NoFile THEN <<>> ELSE content
Emptied(content) == <<>>
PutOpen(t) == \E fails \in OpenMayFail :
    /\ WithFile(t, "putOpen")
    /\ IF fails \/ FileOf(t) \notin Files
       THEN Jump(t, "request") /\ UNCHANGED files
       ELSE files' = [files EXCEPT ![FileOf(t)] = Emptied(@)] /\ Jump(t, "putWrite")
    /\ UNCHANGED t_buf

(* The data go to the start of the file, over what is there by then.       *)
(* Mutant: they go to its end.                                             *)
Appended(content, data) == content \o data
Written(content, data) == data \o After(content, Len(data))
PutWrite(t) ==
    /\ WithFile(t, "putWrite")
    /\ files' = [files EXCEPT ![FileOf(t)] = Written(@, t_buf[t])]
    /\ Jump(t, "request")
    /\ UNCHANGED t_buf
-----------------------------------------------------------------------------
ThreadStep(t) ==
    \/ CloseFd(t)
    \/ EnterRead(t) \/ ReadClosedFd(t) \/ ReadReset(t) \/ ReadEof(t) \/ ReadPart(t)
    \/ ReadRequest(t) \/ ReadPayload(t) \/ ReadPutHeader(t) \/ ReadPutBody(t)
    \/ handle_open_conn_request(t) \/ handle_quit_request(t)
    \/ handle_ls_request(t) \/ LsFails(t) \/ handle_cd_request(t)
    \/ handle_get(t) \/ handle_put(t) \/ handle_sha256(t)
    \/ ReadFile(t) \/ Sha256Sum(t) \/ ReadFileFails(t)
    \/ SendDataHeader(t) \/ SendDataBody(t) \/ SendListing(t)
    \/ PutOpen(t) \/ PutWrite(t)
=============================================================================
