----------------------------- MODULE FtpSession -----------------------------
(***************************************************************************)
(* Why a client and its thread stay in step: the inductive invariant of    *)
(* Ftp when nothing fails.  What the client has still to send, with what   *)
(* is on the way and what the thread has read of it, and what the thread   *)
(* has still to send, with what is on the way to the client, are together  *)
(* the exchange the client is in.                                          *)
(***************************************************************************)
EXTENDS FtpFrames

(* The commands that send a name, and the request each command sends.      *)
Naming == {"cd", "get", "put"}
RequestOf(c) == IF c_cmd[c] = "open" THEN "OPEN_CONN_REQUEST" ELSE Request(c_cmd[c])
NameOf(c) == <<Data(c_arg[c])>>
Asked(c) == IF c_cmd[c] \in Naming
            THEN Header(RequestOf(c), "STATUS_UNUSED", 1) \o NameOf(c)
            ELSE Header(RequestOf(c), "STATUS_UNUSED", 0)

FileMessage(s) == Header("FILE_DATA", "STATUS_UNUSED", Len(s)) \o s

(* All the thread will read of what the client sends, and all the client   *)
(* will read of what the thread sends.                                     *)
Unsent(c) == CASE c_pc[c] = "name" -> NameOf(c)
               [] c_pc[c] = "fileHeader" -> FileMessage(c_files[c][c_arg[c]])
               [] c_pc[c] = "fileBody" -> c_files[c][c_arg[c]]
               [] OTHER -> <<>>
Ahead(c, k) == (t_got[k] \o c2s[k]) \o Unsent(c)

Unanswered(k) == CASE t_pc[k] = "dataHeader" -> FileMessage(t_buf[k])
                   [] t_pc[k] \in {"dataBody", "listing"} -> t_buf[k]
                   [] OTHER -> <<>>
ToCome(k) == s2c[k] \o Unanswered(k)
Tails(s) == {After(s, n) : n \in 0 .. Len(s)}

(* With one client its files and those of its directory are not changed    *)
(* behind its back.                                                        *)
Sole == \A c, d \in Clients : c = d
TheFile(c, k) == files[<<t_dir[k], c_arg[c]>>]
-----------------------------------------------------------------------------
(* The thread is in the second half of put, with the file of the client.   *)
Original(c, k) == c_files[c][t_name[k]]
ToStore(c, k) == CASE t_pc[k] = "putHeader" -> FileMessage(Original(c, k))
                   [] t_pc[k] = "putBody" -> Original(c, k)
                   [] OTHER -> <<>>
Storing(c, k) == /\ t_pc[k] \in {"putHeader", "putBody", "putOpen", "putWrite"}
                 /\ t_name[k] \in FileNames /\ Original(c, k) \in Mixed
                 /\ t_pc[k] = "putBody" => t_len[k] = Len(Original(c, k))
                 /\ t_pc[k] \in {"putOpen", "putWrite"} => t_buf[k] = Original(c, k)
                 /\ t_pc[k] = "putWrite" /\ Sole => files[FileOf(k)] = <<>>

(* It will read v when it has been accepted, for open, or has stored what  *)
(* it may be storing.                                                      *)
Ready(c, k, v) == /\ \/ t_pc[k] = "idle" /\ c_pc[c] = "reply" /\ c_cmd[c] = "open"
                     \/ t_pc[k] = "request"
                     \/ Storing(c, k)
                  /\ Ahead(c, k) = ToStore(c, k) \o v

(* It has not answered.                                                    *)
Asking(c, k) ==
    /\ s2c[k] = <<>>
    /\ \/ Ready(c, k, Asked(c))
       \/ /\ t_pc[k] = "payload" /\ t_cmd[k] = RequestOf(c) /\ t_len[k] = 1
          /\ c_cmd[c] \in Naming
          /\ Ahead(c, k) = NameOf(c)
       \/ /\ t_pc[k] = "reply" /\ t_cmd[k] = RequestOf(c)
          /\ c_cmd[c] \in Naming => t_name[k] = c_arg[c]
          /\ Ahead(c, k) = <<>>

(* It answers, or has answered: what each command has still to receive.    *)
Answer(type, status) == Header(type, status, 0)
OpenAnswered(c, k) == /\ c_cmd[c] = "open" /\ c_pc[c] = "reply"
                      /\ t_pc[k] = "request"
                      /\ s2c[k] = OpenAnswer
QuitAnswered(c, k) == /\ c_cmd[c] = "quit" /\ c_pc[c] = "reply"
                      /\ Over(k)
                      /\ s2c[k] = Answer("QUIT_REPLY", "STATUS_UNUSED")
CdAnswered(c, k) == /\ c_cmd[c] = "cd" /\ c_pc[c] = "reply"
                    /\ t_pc[k] = "request"
                    /\ \E there \in BOOLEAN : s2c[k] = Answer("CHANGE_DIR_REPLY", StatusOf(there))
PutAnswered(c, k) == /\ c_cmd[c] = "put" /\ c_pc[c] = "reply"
                     /\ t_pc[k] = "putHeader" /\ t_name[k] = c_arg[c]
                     /\ s2c[k] = Answer("PUT_REPLY", "STATUS_UNUSED")
LsAnswered(c, k) ==
    /\ c_cmd[c] = "ls" /\ c_pc[c] \in {"reply", "body"}
    /\ t_pc[k] \in {"listing", "request"} /\ (t_pc[k] = "listing" => t_buf[k] # <<>>)
    /\ \E l \in Tails(ToCome(k)) :
          /\ Len(l) \in 2 .. Longest
          /\ ToCome(k) = IF c_pc[c] = "body" THEN l
                         ELSE Header("LIST_REPLY", "STATUS_UNUSED", Len(l)) \o l
          /\ c_pc[c] = "body" => c_len[c] = Len(l)
GetRefused(c, k) == /\ c_cmd[c] = "get" /\ c_pc[c] = "reply"
                    /\ t_pc[k] = "request"
                    /\ s2c[k] = Answer("GET_REPLY", "STATUS_ERR")
GetBegun(c, k) == /\ c_cmd[c] = "get" /\ c_pc[c] \in {"reply", "header"}
                  /\ t_pc[k] = "readFile" /\ t_cmd[k] = "GET_REQUEST"
                  /\ s2c[k] = IF c_pc[c] = "reply" THEN Answer("GET_REPLY", "STATUS_OK") ELSE <<>>
                  /\ Sole => /\ t_name[k] = c_arg[c]
                             /\ Len(t_buf[k]) =< Len(TheFile(c, k))
                             /\ t_buf[k] = First(TheFile(c, k), Len(t_buf[k]))
GetAnswered(c, k) ==
    /\ c_cmd[c] = "get" /\ c_pc[c] \in {"reply", "header", "body"}
    /\ t_pc[k] \in {"dataHeader", "dataBody", "request"} /\ (t_pc[k] = "dataBody" => t_buf[k] # <<>>)
    /\ \E b \in Tails(ToCome(k)) :
          /\ b \in Short
          /\ ToCome(k) = CASE c_pc[c] = "reply" -> Answer("GET_REPLY", "STATUS_OK") \o FileMessage(b)
                           [] c_pc[c] = "header" -> FileMessage(b)
                           [] c_pc[c] = "body" -> b
          /\ c_pc[c] = "body" => c_len[c] = Len(b)
          /\ Sole => b = TheFile(c, k)
Answered(c, k) == /\ Ahead(c, k) = <<>>
                  /\ \/ OpenAnswered(c, k) \/ QuitAnswered(c, k) \/ CdAnswered(c, k)
                     \/ PutAnswered(c, k) \/ LsAnswered(c, k)
                     \/ GetRefused(c, k) \/ GetBegun(c, k) \/ GetAnswered(c, k)

(* What the last put has reported is on its way to the file, or is there.  *)
Stored(c, k) == c_cmd[c] = "put" /\ c_ret[c] = 0 =>
                    /\ Storing(c, k) => t_name[k] = c_arg[c]
                    /\ t_pc[k] = "request" => TheFile(c, k) = c_files[c][c_arg[c]]
-----------------------------------------------------------------------------
Paired(c, k) ==
    /\ c_pc[c] # "exited"
    /\ c_pc[c] = "prompt" => s2c[k] = <<>> /\ Ready(c, k, <<>>) /\ (Sole => Stored(c, k))
    /\ c_pc[c] = "name" => Asking(c, k)
    /\ c_pc[c] = "reply" => Asking(c, k) \/ Answered(c, k)
    /\ c_pc[c] \in {"header", "body"} => Answered(c, k)
    /\ c_pc[c] \in {"fileHeader", "fileBody"} =>
           /\ s2c[k] = <<>> /\ Ready(c, k, <<>>) /\ Storing(c, k) /\ t_name[k] = c_arg[c]
           /\ c_pc[c] = "fileBody" => c_files[c][c_arg[c]] # <<>>

(* A thread inside safe_recv lacks something.                              *)
ReadingOn(k) == t_pc[k] \in RecvPlaces => t_got[k] = <<>> \/ Len(t_got[k]) < Needed(k)

Listed(d) == (\E n \in FileNames : files[<<d, n>>] # NoFile) \/ (\E e \in Dirs : <<d, e>> \in Subdirs)

(* What each user has typed is one of the commands it types, with a name   *)
(* of the right kind.                                                      *)
Typing(c) == /\ c_cmd[c] \in {"open", "quit"} \union Commands[c]
             /\ c_cmd[c] = "cd" => c_arg[c] \in Dirs
             /\ c_cmd[c] \in {"get", "put"} => c_arg[c] \in FileNames

Smoothly(c) == /\ Typing(c)
               /\ \A k \in Conns : c_sock[c] = k => k \in clientEnds /\ Paired(c, k)
StepInv == /\ \A c \in Clients : Smoothly(c)
           /\ \A k \in Conns : ReadingOn(k)
           /\ (\E c \in Clients : "ls" \in Commands[c]) => \A d \in Dirs : Listed(d)
-----------------------------------------------------------------------------
(* With one client its connection is the last that was made; each thread   *)
(* starts in the directory at the top.                                     *)
Newest == /\ \A c \in Clients : c_sock[c] # NoConn => c_sock[c] = made
          /\ \A t \in Conns : t_pc[t] = "idle" => t_dir[t] = TopDir

(* An upload is on its way from the moment handle_put returns: all of it   *)
(* is there for the thread to read, which has answered the request.        *)
UploadSent(c, k) == Storing(c, k) /\ c_pc[c] \notin {"fileHeader", "fileBody"} /\ s2c[k] = <<>>

(* Each step of the programs is one of the session or none: SessionSpec    *)
(* without its fairness.                                                   *)
SessionSteps == Session!Init /\ [][Session!Next]_(Session!vars)
=============================================================================
