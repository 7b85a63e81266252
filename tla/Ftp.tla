--------------------------------- MODULE Ftp ---------------------------------
(***************************************************************************)
(* Clients and the server, connected by TCP.                               *)
(***************************************************************************)
EXTENDS FtpClient, FtpServer

vars == <<wire, clientVars, serverVars>>

Init == WireInit /\ ClientInit /\ ServerInit

ClientStep(c) == ProgramStep(c) /\ UNCHANGED serverVars
AcceptStep == Accept /\ UNCHANGED clientVars
ServerStep(t) == ThreadStep(t) /\ UNCHANGED clientVars

Next == \/ AcceptStep
        \/ \E c \in Clients : ClientStep(c) \/ (UserStep(c) /\ UNCHANGED serverVars)
        \/ \E t \in Conns : ServerStep(t) \/ (BrokenPipe(t) /\ UNCHANGED clientVars)

Spec == Init /\ [][Next]_vars

(* Every program and every thread keeps running.  Nothing is assumed of    *)
(* the users: they type when they like.                                    *)
FairSpec == /\ Spec
            /\ WF_vars(AcceptStep)
            /\ \A c \in Clients : WF_vars(ClientStep(c))
            /\ \A t \in Conns : WF_vars(ServerStep(t))
-----------------------------------------------------------------------------
(* Each variable keeps to the type of what it stands for: a payload length *)
(* is never negative, a descriptor in use belongs to a connection.         *)
TypeOK == WireTypeOK /\ ClientTypeOK /\ ServerTypeOK

Running(t) == t_pc[t] \notin {"idle", "ended"}

(* A thread never reads, writes or closes a connection that is not its     *)
(* own: client_fd, which it goes on using after safe_recv has closed it,   *)
(* is free or stands for that connection.                                  *)
OwnDescriptor == \A t \in Conns :
    Running(t) => /\ fds[t_fd[t]] \in {t, NoConn}
                  /\ reading[t] \in {t, NoConn}

(* No descriptor is lost: behind each that accept has returned there is    *)
(* the thread that will close that number, however often safe_recv,        *)
(* safe_send and other threads have closed it before.                      *)
EveryDescriptorServed == \A f \in Fds :
    fds[f] # NoConn => Running(fds[f]) /\ t_fd[fds[f]] = f

(* No client ends the server: no write meets a connection that is reset.   *)
ServerSurvives == listening

(* When a handler of the client returns nothing of its reply is left in    *)
(* the stream: the next reply is read from its first byte on.              *)
InStep == \A c \in Clients :
    c_pc[c] = "prompt" /\ c_sock[c] \in clientEnds => s2c[c_sock[c]] = <<>>

(* A client and its thread are never both inside safe_recv, with nothing   *)
(* on the way to the thread and less than it needs to the client.          *)
Missing(c) == CASE c_pc[c] \in {"reply", "header"} -> HeaderLen
                [] c_pc[c] = "body" -> c_len[c]
                [] OTHER -> 0
NoMutualWait == \A c \in Clients :
    LET k == c_sock[c]
    IN  ~ /\ c_pc[c] \in {"reply", "header", "body"}
          /\ k \in clientEnds
          /\ Len(s2c[k]) < Missing(c)
          /\ t_pc[k] \in RecvPlaces
          /\ c2s[k] = <<>>
          /\ fds[t_fd[k]] = k

(* handle_put and handle_get take no lock: transfers of one file at the    *)
(* same time may mix what they write and read, but every byte stays at its *)
(* place in the file and was in one of the originals.                      *)
Originals == {ServerFiles[x] : x \in Files} \union {LocalFiles[c][n] : c \in Clients, n \in FileNames}
Mixture(content) == content = NoFile \/ \A i \in DOMAIN content :
    \E original \in Originals \ {NoFile} : i \in DOMAIN original /\ content[i] = original[i]
BytesInPlace == /\ \A x \in Files : Mixture(files[x])
                /\ \A c \in Clients, n \in FileNames : Mixture(c_files[c][n])

(* What handle_put of the client has reported as uploaded is there, in the *)
(* directory of its session, once the thread is back at its next request   *)
(* (as long as no other client has the file).                              *)
UploadKept == \A c \in Clients :
    LET k == c_sock[c]
    IN  /\ c_pc[c] = "prompt" /\ c_cmd[c] = "put" /\ c_ret[c] = 0
        /\ k \in clientEnds
        /\ t_pc[k] = "request" /\ c2s[k] = <<>>
        => files[<<t_dir[k], c_arg[c]>>] = c_files[c][c_arg[c]]

(* The descriptor of a client that is gone is free some day, whichever of  *)
(* the handlers the thread is in when it finds out.                        *)
DescriptorFreed == \A k \in Conns :
    (k =< accepted /\ k \notin clientEnds) ~> (\A f \in Fds : fds[f] # k)

(* Every command that is typed comes back to the prompt: no receive of the *)
(* client, which has no timeout, waits for ever.                           *)
CommandEnds == \A c \in Clients : c_pc[c] # "prompt" ~> c_pc[c] \in {"prompt", "exited"}
-----------------------------------------------------------------------------
(* The session of the user of client c, as RemoteFiles sees it, when c is  *)
(* the only client.  Its connection is the last that was made.             *)
Uploading(t) ==
    \/ t_pc[t] \in {"putOpen", "putWrite"}
    \/ t_pc[t] = "putBody" /\ Len(t_got[t]) + Len(c2s[t]) >= t_len[t]
    \/ t_pc[t] = "putHeader" /\ Len(t_got[t]) + Len(c2s[t]) >= HeaderLen
          /\ LET h == HeaderIn(First(t_got[t] \o c2s[t], HeaderLen))
             IN  Len(t_got[t]) + Len(c2s[t]) >= HeaderLen + PayloadLen(h)

TheClient == CHOOSE c \in Clients : TRUE
CurrentDir == IF made = 0 THEN TopDir ELSE t_dir[made]
OnItsWay == IF made # 0 /\ Uploading(made)
            THEN {[name |-> t_name[made], data |-> c_files[TheClient][t_name[made]]]}
            ELSE {}
Session == INSTANCE RemoteFiles WITH
    cwd <- CurrentDir,
    stored <- files,
    local <- c_files[TheClient],
    upload <- OnItsWay,
    InitialStored <- ServerFiles,
    InitialLocal <- LocalFiles[TheClient]

(* The programs implement the session they promise, although put returns   *)
(* before the server has stored, or even emptied, the file.                *)
SessionSpec == Session!Spec
=============================================================================
