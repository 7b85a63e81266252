------------------------------- MODULE FtpWire -------------------------------
(***************************************************************************)
(* myFTP messages and the TCP connections they travel on.  A stream is a   *)
(* sequence of units: a header is two of them (12 bytes in the code), a    *)
(* file name one, a file as many as it has.  A message boundary is nowhere *)
(* in the stream: a reader that takes one unit too few reads every later   *)
(* header askew, as in the code.                                           *)
(*                                                                         *)
(* Also here: which ends of a connection are open.  The server's end is    *)
(* open as long as a descriptor, a thread inside read or the queue of      *)
(* accept refers to it.                                                    *)
(***************************************************************************)
EXTENDS Naturals, Sequences

CONSTANTS Clients,
          MaxConns,      \* bound: connections made in a behaviour
          MaxFds,        \* descriptors the server has for connections
          Radix,         \* values of a byte of m_length, 256 in the code
          Dirs, TopDir,  \* the server's directories, and where it was started
          Subdirs,       \* pairs: a directory and one that is in it
          FileNames, Bytes, NoFile,
          OpenFails      \* opening a file or a pipe may fail

ASSUME FtpWireAssumption ==
    /\ MaxConns \in Nat /\ MaxFds \in Nat
    /\ Radix \in Nat \ {0}
    /\ TopDir \in Dirs
    /\ Subdirs \subseteq Dirs \X Dirs
    /\ OpenFails \in BOOLEAN

VARIABLES c2s, s2c,      \* what is sent on a connection and not yet read
          clientEnds,    \* connections whose client end is open
          made,          \* connections made so far; they are numbered
          accepted,      \* how many of them accept has returned
          fds,           \* the server's descriptors
          reading,       \* the connection a server thread is in read on
          listening      \* the server process is there

wire == <<c2s, s2c, clientEnds, made, accepted, fds, reading, listening>>

Conns == 1 .. MaxConns
NoConn == 0
Fds == 1 .. MaxFds
Files == Dirs \X FileNames

Types == {"OPEN_CONN_REQUEST", "OPEN_CONN_REPLY", "LIST_REQUEST", "LIST_REPLY",
          "CHANGE_DIR_REQUEST", "CHANGE_DIR_REPLY", "GET_REQUEST", "GET_REPLY",
          "PUT_REQUEST", "PUT_REPLY", "SHA_REQUEST", "SHA_REPLY",
          "QUIT_REQUEST", "QUIT_REPLY", "FILE_DATA"}
Statuses == {"STATUS_ERR", "STATUS_OK", "STATUS_UNUSED"}

(* A word of two bytes is enough for what htonl does on a little-endian    *)
(* machine: it swaps them, and a small length becomes a large one.         *)
htonl(n) == (n % Radix) * Radix + (n \div Radix)
ntohl(n) == htonl(n)

HeaderLen == 2
NoHeader == [type |-> "none", status |-> "STATUS_UNUSED", length |-> 0]

(* The header of a message whose payload is n units long                   *)
Header(type, status, n) ==
    LET h == [type |-> type, status |-> status, length |-> htonl(HeaderLen + n)]
    IN  <<[hdr |-> h, part |-> 1], [hdr |-> h, part |-> 2]>>

Data(b) == [byte |-> b]
Units == [byte : Bytes \union Dirs \union FileNames \union {"digest", "NUL"}]
            \union [hdr : [type : Types, status : Statuses, length : Nat], part : {1, 2}]
Contents == Seq([byte : Bytes])

(* What a reader finds in units it takes for a header: the magic number in *)
(* the first, the other fields in the second.                              *)
IsPart(u, i) == "part" \in DOMAIN u /\ u.part = i
MagicOk(units) == units # <<>> /\ IsPart(units[1], 1)
HeaderIn(units) ==
    IF Len(units) = HeaderLen /\ IsPart(units[2], 2) THEN units[2].hdr ELSE NoHeader
PayloadLen(h) == ntohl(h.length) - HeaderLen

Least(m, n) == IF m < n THEN m ELSE n
First(units, n) == SubSeq(units, 1, n)
After(units, n) == SubSeq(units, n + 1, Len(units))
-----------------------------------------------------------------------------
Queued(k) == accepted < k /\ k =< made
ServerEnd(k) == \/ Queued(k)
                \/ \E f \in Fds : fds[f] = k
                \/ \E t \in Conns : reading[t] = k

(* TCP resets a connection when data arrives or is left at a closed end.   *)
Reset(k) == \/ ~ServerEnd(k) /\ c2s[k] # <<>>
            \/ k \notin clientEnds /\ s2c[k] # <<>>

WireInit == /\ c2s = [k \in Conns |-> <<>>]
            /\ s2c = [k \in Conns |-> <<>>]
            /\ clientEnds = {}
            /\ made = 0
            /\ accepted = 0
            /\ fds = [f \in Fds |-> NoConn]
            /\ reading = [t \in Conns |-> NoConn]
            /\ listening = TRUE

WireTypeOK == /\ c2s \in [Conns -> Seq(Units)]
              /\ s2c \in [Conns -> Seq(Units)]
              /\ clientEnds \subseteq Conns
              /\ made \in 0 .. MaxConns
              /\ accepted \in 0 .. made
              /\ fds \in [Fds -> Conns \union {NoConn}]
              /\ reading \in [Conns -> Conns \union {NoConn}]
              /\ listening \in BOOLEAN

OpenMayFail == IF OpenFails THEN BOOLEAN ELSE {FALSE}
=============================================================================
