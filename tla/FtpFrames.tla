------------------------------ MODULE FtpFrames ------------------------------
(***************************************************************************)
(* Why the sessions of Ftp do not disturb each other as long as no client  *)
(* is lost: the inductive invariant of Ftp without Vanish and Reopen.      *)
(* Clients and threads may fall out of step, so it does not say where in a *)
(* stream a reader is.  It says what is true at every place of it: that    *)
(* behind the header of a file there is the file.                          *)
(***************************************************************************)
EXTENDS Ftp

(* The units of a file, and the longest one whose length the header holds. *)
Raw == [byte : Bytes \union Dirs \union FileNames \union {"digest", "NUL"}]
Longest == Radix * Radix - HeaderLen - 1
Short == {s \in Seq(Raw) : Len(s) =< Longest}

(* What may stand at place p of a file: what an original has there, or a   *)
(* unit of a digest, once a client out of step takes that for its file.    *)
DigestsAsked == \E c \in Clients : "sha256" \in Commands[c]
UnitsAt(p) == {u \in Raw : \/ DigestsAsked /\ u \in {Data("digest"), Data("NUL")}
                          \/ \E original \in Originals \ {NoFile} :
                                p \in DOMAIN original /\ u = original[p]}
Mixed == {s \in Short : \A p \in DOMAIN s : s[p] \in UnitsAt(p)}

(* The part of a header that is read for its fields.                       *)
IsHead(u) == IsPart(u, 2)

(* Behind the i-th unit of s there are the n units of a file.              *)
FileAt(s, i, n) == /\ n \in 0 .. Longest
                   /\ i + n =< Len(s)
                   /\ \A j \in i + 1 .. i + n : s[j] \in UnitsAt(j - i)

(* Each header tells a length, and that of a file the length of what       *)
(* follows it.                                                             *)
Sane(h) == /\ PayloadLen(h) \in 0 .. Longest
           /\ h.type = "SHA_REQUEST" => DigestsAsked
Framed(s) == \A i \in DOMAIN s : IsHead(s[i]) =>
                /\ Sane(s[i].hdr)
                /\ s[i].hdr.type = "FILE_DATA" => FileAt(s, i, PayloadLen(s[i].hdr))

(* All a client will find on its connection when its thread has sent the   *)
(* body it is about to send, and all a thread will find.                   *)
Download(k) == IF t_pc[k] = "dataBody" THEN t_buf[k] ELSE <<>>
ToClient(k) == s2c[k] \o Download(k)

Uploads(k) == owner[k] \in Clients /\ c_sock[owner[k]] = k /\ c_pc[owner[k]] = "fileBody"
Upload(k) == IF Uploads(k) THEN c_files[owner[k]][c_arg[owner[k]]] ELSE <<>>
ToThread(k) == (t_got[k] \o c2s[k]) \o Upload(k)
-----------------------------------------------------------------------------
FilesAreRaw == /\ files \in [Files -> {NoFile} \union Mixed]
               /\ c_files \in [Clients -> [FileNames -> {NoFile} \union Mixed]]
               /\ t_buf \in [Conns -> Short]

Over(t) == t_pc[t] \in {"close", "ended"}

StreamsFramed(k) == /\ Framed(ToClient(k))
                    /\ ~Over(k) => Framed(ToThread(k))

(* safe_recv has not read more than it was asked for; the body of a put is *)
(* there, and so is the file that is being read or written.                *)
ThreadInPlace(t) ==
    /\ t_pc[t] \in RecvPlaces => Len(t_got[t]) =< Needed(t)
    /\ t_pc[t] \notin RecvPlaces => t_got[t] = <<>>
    /\ t_pc[t] = "putBody" => FileAt(ToThread(t), 0, t_len[t])
    /\ t_pc[t] \in {"readFile", "putWrite"} => FileOf(t) \in Files /\ files[FileOf(t)] \in Mixed
    /\ t_pc[t] \in {"readFile", "dataHeader", "dataBody", "putOpen", "putWrite"}
           => t_buf[t] \in Mixed
    /\ t_cmd[t] = "SHA_REQUEST" => DigestsAsked

(* The thread of a connection has it, under its own number, to its end.    *)
HasOwn(t) == /\ t > accepted <=> t_pc[t] = "idle"
             /\ Running(t) => fds[t_fd[t]] = t
             /\ reading[t] \in {t, NoConn}

(* A client closes its end only when the thread is done with it.           *)
IsQuitReply(u) == IsHead(u) /\ u.hdr.type = "QUIT_REPLY"
QuitLast(k) == /\ k =< made /\ k \notin clientEnds => Over(k)
               /\ (\E i \in DOMAIN s2c[k] : IsQuitReply(s2c[k][i])) => Over(k)
               /\ k > made => c2s[k] = <<>> /\ s2c[k] = <<>>

(* The socket of a client is its only one.                                 *)
OneSocket(c) == /\ c_sock[c] # NoConn => c_sock[c] =< made /\ owner[c_sock[c]] = c
                /\ \A k \in clientEnds : k =< made /\ (owner[k] = c => c_sock[c] = k)
                /\ c_pc[c] \notin {"prompt", "exited"} => c_sock[c] # NoConn

(* A file that is awaited comes, one that is sent is there.                *)
ClientInPlace(c) ==
    /\ c_pc[c] = "body" /\ c_cmd[c] = "get" /\ c_sock[c] \in clientEnds
           => FileAt(ToClient(c_sock[c]), 0, c_len[c])
    /\ c_pc[c] = "name" => c_cmd[c] # "open" /\ c_arg[c] \in FileNames \union Dirs
    /\ c_pc[c] \in {"fileHeader", "fileBody"} => c_cmd[c] = "put"
    /\ c_cmd[c] = "put" /\ c_pc[c] \in {"name", "reply", "fileHeader", "fileBody"}
           => c_arg[c] \in FileNames /\ c_files[c][c_arg[c]] \in Mixed

(* The first exchange on a connection cannot fail.                         *)
OpenMessage == Header("OPEN_CONN_REQUEST", "STATUS_UNUSED", 0)
OpenAnswer == Header("OPEN_CONN_REPLY", "STATUS_OK", 0)
OpenGoesWell(k) ==
    \/ t_pc[k] \in {"idle", "request"} /\ s2c[k] = <<>> /\ t_got[k] \o c2s[k] = OpenMessage
    \/ /\ t_pc[k] = "reply" /\ t_cmd[k] = "OPEN_CONN_REQUEST"
       /\ s2c[k] = <<>> /\ t_got[k] \o c2s[k] = <<>>
    \/ t_pc[k] = "request" /\ s2c[k] = OpenAnswer /\ t_got[k] \o c2s[k] = <<>>
Opening(c) == c_pc[c] = "reply" /\ c_cmd[c] = "open" =>
                  c_sock[c] \in clientEnds /\ OpenGoesWell(c_sock[c])

ThreadInv(k) == StreamsFramed(k) /\ ThreadInPlace(k) /\ HasOwn(k) /\ QuitLast(k)
SessionInv(c) == OneSocket(c) /\ ClientInPlace(c) /\ Opening(c)

FramesInv == /\ listening
             /\ \A k \in clientEnds : owner[k] \in Clients
             /\ FilesAreRaw
             /\ \A k \in Conns : ThreadInv(k)
             /\ \A c \in Clients : SessionInv(c)
=============================================================================
