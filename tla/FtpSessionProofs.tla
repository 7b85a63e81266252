------------------------- MODULE FtpSessionProofs -------------------------
(***************************************************************************)
(* A client and its thread stay in step, for any number of clients, files, *)
(* connections and descriptors, as long as nothing fails: StepInv is       *)
(* inductive relative to OrderlyInv.                                       *)
(***************************************************************************)
EXTENDS FtpSession, FtpFramesProofs

(* Nothing fails, nobody asks for a digest, and where ls is used every     *)
(* directory has something to list: the client does not read the listing   *)
(* of an empty one.                                                        *)
Smooth == /\ Orderly /\ ~OpenFails /\ ~DigestsAsked
          /\ (\E c \in Clients : "ls" \in Commands[c]) =>
                \A d \in Dirs : \/ \E n \in FileNames : ServerFiles[<<d, n>>] # NoFile
                                \/ \E e \in Dirs : <<d, e>> \in Subdirs
-----------------------------------------------------------------------------
LEMMA JoinedUnits ==
    \A x, y \in Seq(Units) : /\ x \o y \in Seq(Units)
                             /\ Len(x) \in Nat /\ Len(y) \in Nat
                             /\ Len(x \o y) = Len(x) + Len(y)
                             /\ \A i \in 1 .. Len(x) : (x \o y)[i] = x[i]
                             /\ \A i \in 1 .. Len(y) : (x \o y)[Len(x) + i] = y[i]
BY Joined

(* Streams that are equal and begin with messages of one length            *)
LEMMA Parts ==
    ASSUME NEW a \in Seq(Units), NEW b \in Seq(Units), NEW x \in Seq(Units), NEW y \in Seq(Units),
           a \o b = x \o y, Len(a) = Len(x)
    PROVE  a = x /\ b = y
<1>1. /\ Len(a) \in Nat /\ Len(b) \in Nat /\ Len(y) \in Nat
      /\ Len(a \o b) = Len(a) + Len(b) /\ Len(x \o y) = Len(x) + Len(y)
      /\ \A i \in 1 .. Len(a) : (a \o b)[i] = a[i]
      /\ \A i \in 1 .. Len(x) : (x \o y)[i] = x[i]
      /\ \A i \in 1 .. Len(b) : (a \o b)[Len(a) + i] = b[i]
      /\ \A i \in 1 .. Len(y) : (x \o y)[Len(x) + i] = y[i]
  BY JoinedUnits
<1>2. Len(b) = Len(y)
  BY <1>1
<1>3. \A i \in 1 .. Len(a) : a[i] = x[i]
  BY <1>1
<1>4. \A i \in 1 .. Len(b) : b[i] = y[i]
  BY <1>1, <1>2
<1> QED BY <1>2, <1>3, <1>4, SeqEqual

(* The message a stream begins with                                        *)
LEMMA Begins ==
    ASSUME NEW s, NEW m, NEW l, s = m \o l, m \in Seq(Units), l \in Seq(Units), Len(m) = 2
    PROVE  \A u, r \in Seq(Units) : s = u \o r /\ Len(u) = 2 => u = m /\ r = l
<1> SUFFICES ASSUME NEW u \in Seq(Units), NEW r \in Seq(Units), s = u \o r, Len(u) = 2
             PROVE  u = m /\ r = l
  OBVIOUS
<1>1. u \o r = m \o l /\ Len(u) = Len(m)
  OBVIOUS
<1> QED BY <1>1, Parts

LEMMA NothingJoined ==
    ASSUME NEW a \in Seq(Units), NEW b \in Seq(Units)
    PROVE  /\ a \o b = <<>> <=> a = <<>> /\ b = <<>>
           /\ <<>> \o a = a /\ a \o <<>> = a /\ <<>> \in Seq(Units)
           /\ Len(a) = 0 <=> a = <<>>
           /\ Len(a) \in Nat
<1>1. Len(a \o b) = Len(a) + Len(b) /\ Len(a) \in Nat /\ Len(b) \in Nat
  BY Joined
<1>2. /\ Len(a) = 0 <=> a = <<>>
      /\ Len(b) = 0 <=> b = <<>>
  BY EmptySeq
<1>3. a \o <<>> = a /\ <<>> \o a = a /\ <<>> \in Seq(Units)
  BY ConcatEmptySeq, EmptySeq
<1>4. a \o b = <<>> => Len(a \o b) = 0
  OBVIOUS
<1> QED BY <1>1, <1>2, <1>3, <1>4

LEMMA NoUnits ==
    /\ <<>> \in Seq(Units) /\ Len(<<>>) = 0 /\ <<>> \o <<>> = <<>>
    /\ \A a \in Seq(Units) : /\ <<>> \o a = a /\ a \o <<>> = a
                            /\ Len(a) \in Nat /\ (Len(a) = 0 <=> a = <<>>)
<1>1. <<>> \in Seq(Units)
  BY EmptySeq
<1> QED BY <1>1, NothingJoined

(* What comes behind the beginning of a stream is one of its tails.        *)
LEMMA TailOf ==
    ASSUME NEW a \in Seq(Units), NEW b \in Seq(Units)
    PROVE  b \in Tails(a \o b) /\ b \in Tails(b)
<1>1. /\ a \o b \in Seq(Units) /\ Len(a \o b) = Len(a) + Len(b)
      /\ Len(a) \in Nat /\ Len(b) \in Nat
  BY Joined
<1>2. ASSUME NEW x \in Seq(Units), x \o b \in Seq(Units), Len(x) \in Nat,
             Len(x \o b) = Len(x) + Len(b)
      PROVE  b \in Tails(x \o b)
  <2>1. Len(x) \in 0 .. Len(x \o b)
    BY <1>1, <1>2
  <2>2. PICK f \in Seq(Units), r \in Seq(Units) :
            r = After(x \o b, Len(x)) /\ Len(f) = Len(x) /\ f \o r = x \o b
    <3>1. /\ First(x \o b, Len(x)) \in Seq(Units) /\ Len(First(x \o b, Len(x))) = Len(x)
          /\ After(x \o b, Len(x)) \in Seq(Units)
          /\ First(x \o b, Len(x)) \o After(x \o b, Len(x)) = x \o b
      BY <1>2, <2>1, Split
    <3> QED BY <3>1
  <2>3. r = b
    BY <2>2, Parts
  <2> QED BY <2>1, <2>2, <2>3 DEF Tails
<1>3. b \in Tails(a \o b)
  BY <1>1, <1>2
<1>4. <<>> \in Seq(Units) /\ <<>> \o b = b /\ Len(<<>>) = 0
  BY EmptySeq, ConcatEmptySeq
<1>5. b \in Tails(<<>> \o b)
  <2>1. Len(<<>>) \in Nat /\ Len(<<>> \o b) = Len(<<>>) + Len(b) /\ <<>> \o b \in Seq(Units)
    BY <1>1, <1>4
  <2> QED BY <1>2, <1>4, <2>1
<1> QED BY <1>3, <1>4, <1>5

LEMMA NameUnits ==
    ASSUME NEW n \in FileNames \union Dirs
    PROVE  /\ <<Data(n)>> \in Seq(Units) /\ Len(<<Data(n)>>) = 1 /\ <<Data(n)>> # <<>>
           /\ <<Data(n)>>[1] = Data(n) /\ NameIn(Data(n)) = n
<1>1. Data(n) \in Units
  BY DataRaw, RawUnits
<1>2. NameIn(Data(n)) = n
  BY DEF NameIn, Data
<1> QED BY <1>1, <1>2

(* The message of a file, and an answer without payload                    *)
LEMMA FileMessageUnits ==
    ASSUME NEW b \in Short
    PROVE  LET m == Header("FILE_DATA", "STATUS_UNUSED", Len(b))
           IN  /\ FileMessage(b) = m \o b /\ FileMessage(b) \in Seq(Units) /\ FileMessage(b) # <<>>
               /\ m \in Seq(Units) /\ Len(m) = 2 /\ MagicOk(m)
               /\ HeaderIn(m).type = "FILE_DATA" /\ PayloadLen(HeaderIn(m)) = Len(b)
               /\ b \in Seq(Units) /\ Len(b) \in 0 .. Longest
<1> DEFINE m == Header("FILE_DATA", "STATUS_UNUSED", Len(b))
<1>1. b \in Seq(Units) /\ Len(b) \in 0 .. Longest
  BY ShortUnits
<1>2. "FILE_DATA" \in Types /\ "STATUS_UNUSED" \in Statuses
  BY DEF Types, Statuses
<1>3. /\ m \in Seq(Units) /\ Len(m) = 2 /\ MagicOk(m)
      /\ HeaderIn(m).type = "FILE_DATA" /\ PayloadLen(HeaderIn(m)) = Len(b)
  BY <1>1, <1>2, HeaderUnits
<1>4. FileMessage(b) = m \o b
  BY DEF FileMessage
<1> HIDE DEF m
<1>5. m \o b \in Seq(Units) /\ m \o b # <<>>
  <2>1. m # <<>>
    BY <1>3
  <2> QED BY <1>1, <1>3, <2>1, NothingJoined, JoinedUnits
<1> QED BY <1>1, <1>3, <1>4, <1>5 DEF m

LEMMA AnswerUnits ==
    ASSUME Orderly, NEW type \in Types, NEW status \in Statuses
    PROVE  LET m == Answer(type, status)
           IN  /\ m \in Seq(Units) /\ Len(m) = 2 /\ MagicOk(m) /\ m # <<>>
               /\ HeaderIn(m).type = type /\ HeaderIn(m).status = status
<1>1. 0 \in 0 .. Longest
  BY FtpWireAssumption DEF Orderly, Longest, HeaderLen
<1>2. \A m : Len(m) = 2 => m # <<>>
  OBVIOUS
<1> QED BY <1>1, <1>2, HeaderUnits DEF Answer

(* The request of a command                                                *)
LEMMA Requests ==
    ASSUME NEW c \in Clients
    PROVE  /\ c_cmd[c] = "open" => RequestOf(c) = "OPEN_CONN_REQUEST"
           /\ c_cmd[c] = "ls" => RequestOf(c) = "LIST_REQUEST"
           /\ c_cmd[c] = "cd" => RequestOf(c) = "CHANGE_DIR_REQUEST"
           /\ c_cmd[c] = "get" => RequestOf(c) = "GET_REQUEST"
           /\ c_cmd[c] = "put" => RequestOf(c) = "PUT_REQUEST"
           /\ c_cmd[c] = "quit" => RequestOf(c) = "QUIT_REQUEST"
BY DEF RequestOf, Request

Typed == {"open", "ls", "cd", "get", "put", "quit"}
Asks(c) == Header(RequestOf(c), "STATUS_UNUSED", IF c_cmd[c] \in Naming THEN 1 ELSE 0)
Names(c) == IF c_cmd[c] \in Naming THEN NameOf(c) ELSE <<>>

LEMMA AskedUnits ==
    ASSUME Orderly, NEW c \in Clients, c_cmd[c] \in Typed,
           c_cmd[c] \in Naming => c_arg[c] \in FileNames \union Dirs
    PROVE  /\ Asked(c) = Asks(c) \o Names(c) /\ Asked(c) \in Seq(Units) /\ Asked(c) # <<>>
           /\ Names(c) \in Seq(Units)
           /\ Asks(c) \in Seq(Units) /\ Len(Asks(c)) = 2 /\ MagicOk(Asks(c))
           /\ HeaderIn(Asks(c)).type = RequestOf(c)
           /\ PayloadLen(HeaderIn(Asks(c))) = IF c_cmd[c] \in Naming THEN 1 ELSE 0
<1>1. 0 \in 0 .. Longest /\ 1 \in 0 .. Longest
  BY FtpWireAssumption DEF Orderly, Longest, HeaderLen
<1>2. RequestOf(c) \in Types /\ "STATUS_UNUSED" \in Statuses
  BY Requests DEF Typed, Types, Statuses
<1>3. \A n \in {0, 1} :
         LET m == Header(RequestOf(c), "STATUS_UNUSED", n)
         IN  /\ m \in Seq(Units) /\ Len(m) = 2 /\ MagicOk(m)
             /\ HeaderIn(m).type = RequestOf(c) /\ PayloadLen(HeaderIn(m)) = n
  BY <1>1, <1>2, HeaderUnits
<1>4. /\ Asks(c) \in Seq(Units) /\ Len(Asks(c)) = 2 /\ MagicOk(Asks(c))
      /\ HeaderIn(Asks(c)).type = RequestOf(c)
      /\ PayloadLen(HeaderIn(Asks(c))) = IF c_cmd[c] \in Naming THEN 1 ELSE 0
  BY <1>3 DEF Asks
<1>5. Names(c) \in Seq(Units)
  BY NameUnits, EmptySeq DEF Names, NameOf
<1>6. Asked(c) = Asks(c) \o Names(c)
  <2>1. CASE c_cmd[c] \in Naming
    BY <2>1 DEF Asked, Asks, Names
  <2>2. CASE c_cmd[c] \notin Naming
    <3>1. Asked(c) = Asks(c) /\ Names(c) = <<>>
      BY <2>2 DEF Asked, Asks, Names
    <3> QED BY <1>4, <3>1, NothingJoined
  <2> QED BY <2>1, <2>2
<1>7. Asks(c) # <<>>
  BY <1>4
<1>8. Asks(c) \o Names(c) \in Seq(Units) /\ Asks(c) \o Names(c) # <<>>
  BY <1>4, <1>5, <1>7, JoinedUnits, NothingJoined
<1> QED BY <1>4, <1>5, <1>6, <1>8
-----------------------------------------------------------------------------
(* Frame conditions.  What Paired speaks of is unchanged.                  *)
SameStore(c, k) ==
    /\ c_files'[c] = c_files[c]
    /\ t_pc'[k] = t_pc[k] /\ t_name'[k] = t_name[k] /\ t_len'[k] = t_len[k]
    /\ t_buf'[k] = t_buf[k] /\ t_dir'[k] = t_dir[k]
    /\ files' = files \/ ~Sole
Same(c, k) ==
    /\ SameStore(c, k)
    /\ c_pc'[c] = c_pc[c] /\ c_cmd'[c] = c_cmd[c] /\ c_arg'[c] = c_arg[c]
    /\ c_len'[c] = c_len[c] /\ c_ret'[c] = c_ret[c]
    /\ t_cmd'[k] = t_cmd[k] /\ s2c'[k] = s2c[k]
    /\ Ahead(c, k)' = Ahead(c, k)

LEMMA StoringSame ==
    ASSUME NEW c \in Clients, NEW k \in Conns, SameStore(c, k)
    PROVE  /\ Storing(c, k)' <=> Storing(c, k)
           /\ ToStore(c, k)' = ToStore(c, k)
           /\ Original(c, k)' = Original(c, k)
           /\ Unanswered(k)' = Unanswered(k)
<1>1. Original(c, k)' = Original(c, k) /\ FileOf(k)' = FileOf(k)
  BY DEF SameStore, Original, FileOf
<1>2. ToStore(c, k)' = ToStore(c, k)
  BY <1>1 DEF ToStore, SameStore, FileMessage
<1>3. Unanswered(k)' = Unanswered(k)
  BY DEF Unanswered, SameStore, FileMessage
<1>4. Storing(c, k)' <=> Storing(c, k)
  BY <1>1 DEF Storing, SameStore, Sole
<1> QED BY <1>1, <1>2, <1>3, <1>4

LEMMA PairedSame ==
    ASSUME NEW c \in Clients, NEW k \in Conns, Same(c, k), Paired(c, k)
    PROVE  Paired(c, k)'
<1>1. /\ Storing(c, k)' <=> Storing(c, k)
      /\ ToStore(c, k)' = ToStore(c, k)
      /\ Unanswered(k)' = Unanswered(k)
      /\ Ahead(c, k)' = Ahead(c, k)
  BY StoringSame DEF Same
<1>2. /\ c_pc'[c] = c_pc[c] /\ c_cmd'[c] = c_cmd[c] /\ c_arg'[c] = c_arg[c]
      /\ c_len'[c] = c_len[c] /\ c_ret'[c] = c_ret[c]
      /\ t_pc'[k] = t_pc[k] /\ t_name'[k] = t_name[k] /\ t_len'[k] = t_len[k]
      /\ t_buf'[k] = t_buf[k] /\ t_dir'[k] = t_dir[k] /\ c_files'[c] = c_files[c]
      /\ t_cmd'[k] = t_cmd[k] /\ s2c'[k] = s2c[k] /\ (files' = files \/ ~Sole)
  BY DEF Same, SameStore
<1>3. RequestOf(c)' = RequestOf(c) /\ NameOf(c)' = NameOf(c) /\ Asked(c)' = Asked(c)
  BY <1>2 DEF RequestOf, NameOf, Asked
<1>4. Asking(c, k) => Asking(c, k)'
  BY <1>1, <1>2, <1>3 DEF Asking, Ready
<1>5. ToCome(k)' = ToCome(k) /\ Over(k)' = Over(k) /\ (TheFile(c, k)' = TheFile(c, k) \/ ~Sole)
  BY <1>1, <1>2 DEF ToCome, Over, TheFile
<1>6. LsAnswered(c, k) => LsAnswered(c, k)'
  BY <1>2, <1>5 DEF LsAnswered
<1>7. GetBegun(c, k) => GetBegun(c, k)'
  BY <1>2, <1>5 DEF GetBegun
<1>8. GetAnswered(c, k) => GetAnswered(c, k)'
  BY <1>2, <1>5 DEF GetAnswered
<1>9. Answered(c, k) => Answered(c, k)'
  BY <1>1, <1>2, <1>5, <1>6, <1>7, <1>8
     DEF Answered, OpenAnswered, QuitAnswered, CdAnswered, PutAnswered, GetRefused
<1>10. Sole /\ Stored(c, k) => Stored(c, k)'
  BY <1>1, <1>2, <1>5 DEF Stored
<1> QED BY <1>1, <1>2, <1>4, <1>9, <1>10 DEF Paired, Ready
-----------------------------------------------------------------------------
(* What the sizes of things are, where a client has a connection.          *)
LEMMA Connected ==
    ASSUME Smooth, OrderlyInv, StepInv, NEW c \in Clients, NEW k \in Conns, c_sock[c] = k
    PROVE  /\ k # NoConn /\ k \in clientEnds /\ owner[k] = c /\ Paired(c, k)
           /\ Typing(c) /\ c_cmd[c] \in Typed
           /\ c_cmd[c] \in Naming => c_arg[c] \in FileNames \union Dirs
           /\ t_got[k] \in Seq(Units) /\ c2s[k] \in Seq(Units) /\ s2c[k] \in Seq(Units)
           /\ t_buf[k] \in Short /\ Unsent(c) \in Seq(Units) /\ Ahead(c, k) \in Seq(Units)
<1>1. k # NoConn /\ owner[k] = c
  BY Numbers, ClientStands
<1>2. k \in clientEnds /\ Paired(c, k) /\ Typing(c)
  BY <1>1 DEF StepInv, Smoothly
<1>3. c_cmd[c] \in Typed
  BY <1>2, FtpClientAssumption DEF Typing, Typed, Smooth, DigestsAsked
<1>4. c_cmd[c] \in Naming => c_arg[c] \in FileNames \union Dirs
  BY <1>2 DEF Typing, Naming
<1>5. t_got[k] \in Seq(Units) /\ c2s[k] \in Seq(Units) /\ s2c[k] \in Seq(Units)
  BY TypesOf DEF Streams
<1>6. t_buf[k] \in Short
  BY DEF OrderlyInv, FramesInv, FilesAreRaw
<1>7. Unsent(c) \in Seq(Units)
  <2>1. ClientInPlace(c)
    BY DEF OrderlyInv, FramesInv, SessionInv
  <2>2. CASE c_pc[c] = "name"
    BY <2>1, <2>2, NameUnits DEF ClientInPlace, Unsent, NameOf
  <2>3. CASE c_pc[c] \in {"fileHeader", "fileBody"}
    <3>1. c_files[c][c_arg[c]] \in Short
      BY <2>1, <2>3, MixedShort DEF ClientInPlace
    <3> QED BY <2>3, <3>1, FileMessageUnits DEF Unsent
  <2>4. CASE c_pc[c] \notin {"name", "fileHeader", "fileBody"}
    BY <2>4, EmptySeq DEF Unsent
  <2> QED BY <2>2, <2>3, <2>4
<1>8. Ahead(c, k) \in Seq(Units)
  BY <1>5, <1>7, JoinedUnits DEF Ahead
<1> QED BY <1>1, <1>2, <1>3, <1>4, <1>5, <1>6, <1>7, <1>8

LEMMA StoringUnits ==
    ASSUME NEW c \in Clients, NEW k \in Conns, Storing(c, k)
    PROVE  /\ Original(c, k) \in Short /\ Original(c, k) \in Seq(Units)
           /\ ToStore(c, k) \in Seq(Units)
<1>1. Original(c, k) \in Short
  BY MixedShort DEF Storing
<1> QED BY <1>1, FileMessageUnits, EmptySeq DEF ToStore

(* A session that no step touches                                          *)
OthersAlone(t) ==
    /\ UNCHANGED <<c_pc, c_cmd, c_arg, c_sock, c_len, c_ret, c_files, clientEnds>>
    /\ \A k \in Conns \ {t} :
          /\ c2s'[k] = c2s[k] /\ s2c'[k] = s2c[k] /\ t_pc'[k] = t_pc[k]
          /\ t_cmd'[k] = t_cmd[k] /\ t_dir'[k] = t_dir[k] /\ t_name'[k] = t_name[k]
          /\ t_len'[k] = t_len[k] /\ t_got'[k] = t_got[k] /\ t_buf'[k] = t_buf[k]

LEMMA StepFrame ==
    ASSUME Smooth, OrderlyInv, StepInv, NEW t \in Conns, OthersAlone(t), ReadingOn(t)',
           files' = files \/ t_pc[t] \in {"putOpen", "putWrite"},
           \A x \in Files : files[x] # NoFile => files'[x] # NoFile,
           \A c \in Clients : c_sock[c] = t /\ Paired(c, t) => Paired(c, t)'
    PROVE  StepInv'
<1>1. ASSUME NEW c \in Clients PROVE Smoothly(c)'
  <2>1. Smoothly(c)
    BY DEF StepInv
  <2>2. Typing(c)'
    BY <2>1 DEF Smoothly, Typing, OthersAlone
  <2>3. ASSUME NEW k \in Conns, c_sock[c] = k PROVE k \in clientEnds' /\ Paired(c, k)'
    <3>2. k \in clientEnds' /\ Paired(c, k)
      BY <2>1, <2>3 DEF Smoothly, OthersAlone
    <3>3. CASE k = t
      BY <2>3, <3>2, <3>3
    <3>4. CASE k # t
      <4>1. files' = files \/ ~Sole
        <5> SUFFICES ASSUME t_pc[t] \in {"putOpen", "putWrite"}, Sole PROVE FALSE
          OBVIOUS
        <5>1. t \in clientEnds
          BY ThreadStands
        <5>2. owner[t] \in Clients /\ OneSocket(owner[t])
          BY <5>1 DEF OrderlyInv, FramesInv, SessionInv
        <5>3. c_sock[owner[t]] = t /\ owner[t] = c
          BY <5>1, <5>2 DEF OneSocket, Sole
        <5> QED BY <2>3, <3>4, <5>3
      <4>2. Ahead(c, k)' = Ahead(c, k)
        BY <3>4 DEF OthersAlone, Ahead, Unsent, NameOf, FileMessage
      <4>3. Same(c, k)
        BY <3>4, <4>1, <4>2 DEF OthersAlone, Same, SameStore
      <4> QED BY <3>2, <4>3, PairedSame
    <3> QED BY <3>3, <3>4
  <2>4. c_sock'[c] = c_sock[c]
    BY DEF OthersAlone
  <2> QED BY <2>2, <2>3, <2>4 DEF Smoothly
<1>2. ASSUME NEW k \in Conns PROVE ReadingOn(k)'
  <2>1. ReadingOn(k)
    BY DEF StepInv
  <2>2. CASE k # t
    BY <2>1, <2>2 DEF OthersAlone, ReadingOn, Needed
  <2>3. CASE k = t
    BY <2>3
  <2> QED BY <2>2, <2>3
<1>3. (\E c \in Clients : "ls" \in Commands[c]) => \A d \in Dirs : Listed(d)'
  <2>1. ASSUME NEW d \in Dirs, Listed(d) PROVE Listed(d)'
    <3>1. \A n \in FileNames : <<d, n>> \in Files
      BY DEF Files
    <3> QED BY <2>1, <3>1 DEF Listed
  <2> QED BY <2>1 DEF StepInv
<1> QED BY <1>1, <1>2, <1>3 DEF StepInv
-----------------------------------------------------------------------------
(* The steps of a thread                                                   *)
LEMMA FunctionsOf ==
    ASSUME OrderlyInv
    PROVE  /\ Streams /\ Handlers /\ t_pc \in [Conns -> ServerPlaces] /\ t_buf \in [Conns -> Short]
           /\ files \in [Files -> {NoFile} \union Mixed]
BY TypesOf DEF OrderlyInv, DescriptorInv, ControlTypeOK, FramesInv, FilesAreRaw

LEMMA ThreadAlone ==
    ASSUME OrderlyInv, NEW t \in Conns, ThreadStep(t), UNCHANGED clientVars
    PROVE  OthersAlone(t)
<1>1. Streams /\ Handlers /\ t_pc \in [Conns -> ServerPlaces] /\ t_buf \in [Conns -> Short]
  BY FunctionsOf
<1>2. UNCHANGED <<c_pc, c_cmd, c_arg, c_sock, c_len, c_ret, c_files>>
  BY DEF clientVars
<1> DEFINE OneThread(k) == /\ c2s'[k] = c2s[k] /\ s2c'[k] = s2c[k] /\ t_pc'[k] = t_pc[k]
                           /\ t_cmd'[k] = t_cmd[k] /\ t_dir'[k] = t_dir[k]
                           /\ t_name'[k] = t_name[k] /\ t_len'[k] = t_len[k]
                           /\ t_got'[k] = t_got[k] /\ t_buf'[k] = t_buf[k]
<1> SUFFICES clientEnds' = clientEnds /\ \A k \in Conns \ {t} : OneThread(k)
  BY <1>2 DEF OthersAlone
<1>3. CASE CloseFd(t)
  BY <1>1, <1>3 DEF CloseFd, clientSide, Jump, NewLocals, Streams, Handlers
<1>4. CASE EnterRead(t)
  BY <1>1, <1>4 DEF EnterRead, clientSide, NewLocals, handler, Streams, Handlers
<1>5. ~(ReadClosedFd(t) \/ ReadReset(t) \/ ReadEof(t))
  BY ReadsWell
<1>6. CASE ReadPart(t) \/ ReadRequest(t) \/ ReadPayload(t) \/ ReadPutHeader(t) \/ ReadPutBody(t)
  <2>1. reading[t] # NoConn => reading[t] = t
    BY ReadsWell
  <2>2. PICK n : Takes(t, n)
    BY <1>6 DEF ReadPart, ReadRequest, ReadPayload, ReadPutHeader, ReadPutBody, ReadAll
  <2>3. /\ c2s' = [c2s EXCEPT ![t] = After(@, n)]
        /\ s2c' = s2c /\ clientEnds' = clientEnds
    BY <2>1, <2>2 DEF Takes
  <2>4. ASSUME NEW k \in Conns \ {t}
        PROVE  /\ t_got'[k] = t_got[k] /\ t_pc'[k] = t_pc[k]
               /\ t_cmd'[k] = t_cmd[k] /\ t_dir'[k] = t_dir[k] /\ t_name'[k] = t_name[k]
               /\ t_len'[k] = t_len[k] /\ t_buf'[k] = t_buf[k]
    <3>1. CASE ReadPart(t)
      BY <1>1, <3>1 DEF ReadPart, handler, Streams
    <3>2. CASE ReadRequest(t) \/ ReadPayload(t) \/ ReadPutBody(t)
      BY <1>1, <3>2 DEF ReadRequest, ReadPayload, ReadPutBody, ReadAll, Jump, Streams, Handlers
    <3>3. CASE ReadPutHeader(t)
      BY <1>1, <3>3 DEF ReadPutHeader, ReadAll, Jump, Streams, Handlers
    <3> QED BY <1>6, <3>1, <3>2, <3>3
  <2> QED BY <1>1, <2>3, <2>4 DEF Streams
<1>7. ASSUME NEW units, NEW ok, NEW bad, NEW closes,
             t_pc[t] \in SendPlaces, ServerSends(t, units, ok, bad, closes)
      PROVE  /\ clientEnds' = clientEnds /\ c2s' = c2s /\ t_got' = t_got
             /\ \A k \in Conns \ {t} : s2c'[k] = s2c[k] /\ t_pc'[k] = t_pc[k]
  <2>1. /\ s2c' = [s2c EXCEPT ![t] = @ \o units]
        /\ t_pc' = [t_pc EXCEPT ![t] = ok]
        /\ UNCHANGED <<c2s, clientEnds, t_got>>
    BY <1>7, SendsWell
  <2> QED BY <1>1, <2>1 DEF Streams
<1>8. ASSUME NEW request, NEW header, NEW ok, NEW bad, Replies(t, request, header, ok, bad)
      PROVE  /\ clientEnds' = clientEnds /\ c2s' = c2s /\ t_got' = t_got
             /\ UNCHANGED <<t_cmd, t_name, t_len>>
             /\ \A k \in Conns \ {t} : s2c'[k] = s2c[k] /\ t_pc'[k] = t_pc[k]
  BY <1>7, <1>8 DEF Replies, SendPlaces
<1>9. CASE \/ handle_open_conn_request(t) \/ handle_quit_request(t) \/ handle_ls_request(t)
           \/ handle_cd_request(t) \/ handle_get(t) \/ handle_put(t) \/ handle_sha256(t)
  <2>1. \E request, header, ok, bad : Replies(t, request, header, ok, bad)
    BY <1>9 DEF handle_open_conn_request, handle_quit_request, handle_ls_request,
                handle_cd_request, handle_get, handle_put, handle_sha256
  <2>2. \A k \in Conns \ {t} : t_dir'[k] = t_dir[k] /\ t_buf'[k] = t_buf[k]
    BY <1>1, <1>9 DEF handle_open_conn_request, handle_quit_request, handle_ls_request,
                handle_cd_request, handle_get, handle_put, handle_sha256, Handlers
  <2> QED BY <1>8, <2>1, <2>2
<1>10. CASE SendDataHeader(t) \/ SendDataBody(t) \/ SendListing(t)
  <2>1. UNCHANGED <<t_dir, t_cmd, t_name, t_len, t_buf>>
    BY <1>10 DEF SendDataHeader, SendDataBody, SendListing, handler
  <2>2. \E units, ok, bad, closes : ServerSends(t, units, ok, bad, closes)
    BY <1>10 DEF SendDataHeader, SendDataBody, SendListing
  <2>3. t_pc[t] \in SendPlaces
    BY <1>10 DEF SendDataHeader, SendDataBody, SendListing, SendPlaces
  <2> QED BY <1>7, <2>1, <2>2, <2>3
<1>11. CASE LsFails(t)
  BY <1>1, <1>11 DEF LsFails, wire, handler, Jump
<1>12. CASE ReadFile(t) \/ Sha256Sum(t) \/ ReadFileFails(t) \/ PutOpen(t) \/ PutWrite(t)
  <2>1. UNCHANGED <<wire, t_fd, t_dir, t_got, t_cmd, t_name, t_len>>
    BY <1>12 DEF ReadFile, Sha256Sum, ReadFileFails, PutOpen, PutWrite, WithFile
  <2>2. \A k \in Conns \ {t} : t_pc'[k] = t_pc[k] /\ t_buf'[k] = t_buf[k]
    BY <1>1, <1>12 DEF ReadFile, Sha256Sum, ReadFileFails, PutOpen, PutWrite, Jump
  <2> QED BY <2>1, <2>2 DEF wire
<1> QED
  BY <1>3, <1>4, <1>5, <1>6, <1>9, <1>10, <1>11, <1>12 DEF ThreadStep

(* A message that is read was the next one.                                *)
LEMMA ReadsAhead ==
    ASSUME Smooth, OrderlyInv, StepInv, NEW t \in Conns, NEW place \in RecvPlaces,
           ReadAll(t, place), UNCHANGED clientVars, NEW c \in Clients, c_sock[c] = t
    PROVE  /\ Message(t) \in Seq(Units) /\ Len(Message(t)) = Needed(t) /\ t_pc[t] = place
           /\ Ahead(c, t) = Message(t) \o Ahead(c, t)' /\ Ahead(c, t)' \in Seq(Units)
           /\ s2c' = s2c
<1>1. /\ t_pc[t] = place /\ t_got'[t] = <<>> /\ s2c' = s2c
      /\ Message(t) \in Seq(Units) /\ Len(Message(t)) = Needed(t)
      /\ Message(t) \o c2s'[t] = t_got[t] \o c2s[t] /\ c2s'[t] \in Seq(Units)
  BY AllRead
<1>2. Unsent(c) \in Seq(Units) /\ Unsent(c)' = Unsent(c)
  BY Connected DEF Unsent, NameOf, FileMessage, clientVars
<1>3. Ahead(c, t)' = c2s'[t] \o Unsent(c)
  <2>1. <<>> \o c2s'[t] = c2s'[t]
    BY <1>1, ConcatEmptySeq
  <2> QED BY <1>1, <1>2, <2>1 DEF Ahead
<1>4. Ahead(c, t) = Message(t) \o (c2s'[t] \o Unsent(c))
  <2>1. Ahead(c, t) = (Message(t) \o c2s'[t]) \o Unsent(c)
    BY <1>1 DEF Ahead
  <2>2. (Message(t) \o c2s'[t]) \o Unsent(c) = Message(t) \o (c2s'[t] \o Unsent(c))
    BY <1>1, <1>2, Chained
  <2> QED BY <2>1, <2>2
<1> QED BY <1>1, <1>2, <1>3, <1>4, JoinedUnits

LEMMA EnterReadStays ==
    ASSUME Smooth, OrderlyInv, StepInv, NEW t \in Conns, UNCHANGED clientVars, EnterRead(t)
    PROVE  StepInv'
<1>1. OthersAlone(t)
  BY ThreadAlone DEF ThreadStep
<1>2. /\ Streams /\ Handlers /\ t_buf \in [Conns -> Short]
      /\ UNCHANGED <<c2s, s2c, t_pc, t_dir, t_got, files>> /\ t_pc[t] \in RecvPlaces
      /\ IF t_pc[t] = "request" THEN NewLocals(t) ELSE UNCHANGED handler
  BY FunctionsOf DEF EnterRead, clientSide
<1>3. ReadingOn(t)'
  BY <1>2 DEF StepInv, ReadingOn, Needed, handler
<1>4. ASSUME NEW c \in Clients, c_sock[c] = t, Paired(c, t) PROVE Paired(c, t)'
  <2>1. Ahead(c, t)' = Ahead(c, t)
    BY <1>2 DEF Ahead, Unsent, NameOf, FileMessage, clientVars
  <2>2. CASE t_pc[t] # "request"
    <3>1. Same(c, t)
      BY <1>2, <2>1, <2>2 DEF Same, SameStore, clientVars, handler
    <3> QED BY <1>4, <3>1, PairedSame
  <2>3. CASE t_pc[t] = "request"
    <3>1. /\ UNCHANGED <<c_pc, c_cmd, c_arg, c_len, c_ret, c_files>>
          /\ t_pc'[t] = "request" /\ s2c'[t] = s2c[t] /\ t_dir'[t] = t_dir[t] /\ files' = files
      BY <1>2, <2>3 DEF clientVars
    <3>2. /\ RequestOf(c)' = RequestOf(c) /\ NameOf(c)' = NameOf(c) /\ Asked(c)' = Asked(c)
          /\ TheFile(c, t)' = TheFile(c, t)
      BY <3>1 DEF RequestOf, NameOf, Asked, TheFile
    <3>3. /\ ~Storing(c, t) /\ ~Storing(c, t)' /\ ToStore(c, t) = <<>> /\ ToStore(c, t)' = <<>>
          /\ ToCome(t)' = ToCome(t)
      BY <2>3, <3>1 DEF Storing, ToStore, ToCome, Unanswered
    <3>4. Asking(c, t) => Asking(c, t)'
      BY <2>1, <2>3, <3>1, <3>2, <3>3 DEF Asking, Ready
    <3>5. Answered(c, t) => Answered(c, t)'
      BY <2>1, <2>3, <3>1, <3>2, <3>3
         DEF Answered, OpenAnswered, QuitAnswered, CdAnswered, PutAnswered, LsAnswered,
             GetRefused, GetBegun, GetAnswered, Over
    <3> QED BY <1>4, <2>1, <2>3, <3>1, <3>2, <3>3, <3>4, <3>5 DEF Paired, Ready, Stored
  <2> QED BY <2>2, <2>3
<1> QED BY <1>1, <1>2, <1>3, <1>4, StepFrame

LEMMA ReadPartStays ==
    ASSUME Smooth, OrderlyInv, StepInv, NEW t \in Conns, UNCHANGED clientVars, ReadPart(t)
    PROVE  StepInv'
<1>1. OthersAlone(t)
  BY ThreadAlone DEF ThreadStep
<1>2. PICK n \in 1 .. Lacking(t) - 1 : Takes(t, n) /\ t_got' = [t_got EXCEPT ![t] = Have(t, n)]
  BY DEF ReadPart
<1>3. /\ Streams /\ Handlers /\ UNCHANGED <<t_pc, t_dir, t_cmd, t_name, t_len, t_buf, s2c, files>>
  BY <1>2, FunctionsOf DEF ReadPart, handler, Takes
<1>4. /\ n \in Nat /\ Needed(t) \in Nat /\ Len(t_got[t]) \in Nat
      /\ Len(Have(t, n)) = Len(t_got[t]) + n /\ t_got'[t] = Have(t, n)
      /\ t_got'[t] \o c2s'[t] = t_got[t] \o c2s[t]
  <2>1. n \in Nat /\ Needed(t) \in Nat
    BY <1>2, <1>3 DEF Needed, HeaderLen, Handlers
  <2>2. /\ Len(t_got[t]) \in Nat /\ Len(Have(t, n)) = Len(t_got[t]) + n
        /\ c2s'[t] = After(c2s[t], n)
        /\ Have(t, n) \o After(c2s[t], n) = t_got[t] \o c2s[t]
    BY <1>2, <2>1, Taken
  <2>3. t_got'[t] = Have(t, n)
    BY <1>2, <1>3 DEF Streams
  <2> QED BY <2>1, <2>2, <2>3
<1>5. ReadingOn(t)'
  <2>1. n =< Needed(t) - Len(t_got[t]) - 1
    BY <1>2, <1>4 DEF Lacking
  <2>2. Len(t_got'[t]) < Needed(t) /\ Needed(t)' = Needed(t)
    BY <1>3, <1>4, <2>1 DEF Needed
  <2> QED BY <2>2 DEF ReadingOn
<1>6. ASSUME NEW c \in Clients, c_sock[c] = t, Paired(c, t) PROVE Paired(c, t)'
  <2>1. Ahead(c, t)' = Ahead(c, t)
    BY <1>4 DEF Ahead, Unsent, NameOf, FileMessage, clientVars
  <2>2. Same(c, t)
    BY <1>3, <2>1 DEF Same, SameStore, clientVars
  <2> QED BY <1>6, <2>2, PairedSame
<1> QED BY <1>1, <1>3, <1>5, <1>6, StepFrame

(* A request that is read is the one the client has sent.                  *)
LEMMA ReadRequestStays ==
    ASSUME Smooth, OrderlyInv, StepInv, NEW t \in Conns, UNCHANGED clientVars, ReadRequest(t)
    PROVE  StepInv'
<1> DEFINE h == HeaderIn(Message(t))
           known == MagicOk(Message(t)) /\ h.type \in WithPayload \union WithoutPayload
<1>1. OthersAlone(t)
  BY ThreadAlone DEF ThreadStep
<1>2. /\ ReadAll(t, "request") /\ Handlers /\ Streams /\ t_pc \in [Conns -> ServerPlaces]
      /\ t_pc' = [t_pc EXCEPT ![t] = IF ~known THEN "close"
                                     ELSE IF h.type \in WithPayload THEN "payload" ELSE "reply"]
      /\ t_cmd' = [t_cmd EXCEPT ![t] = h.type]
      /\ t_len' = [t_len EXCEPT ![t] = IF known /\ h.type \in WithPayload
                                       THEN PayloadLen(h) ELSE 0]
      /\ t_got'[t] = <<>> /\ UNCHANGED <<t_dir, t_name, t_buf, files>>
  BY FunctionsOf DEF ReadRequest, ReadAll, Takes, Jump, Streams
<1>3. t_pc[t] = "request"
  BY <1>2 DEF ReadAll
<1>4. ASSUME NEW c \in Clients, c_sock[c] = t, Paired(c, t) PROVE Paired(c, t)'
  <2>1. /\ Message(t) \in Seq(Units) /\ Len(Message(t)) = 2
        /\ Ahead(c, t) = Message(t) \o Ahead(c, t)' /\ Ahead(c, t)' \in Seq(Units)
        /\ s2c'[t] = s2c[t]
    BY <1>2, <1>3, <1>4, ReadsAhead DEF RecvPlaces, Needed, HeaderLen
  <2>2. Ahead(c, t) # <<>>
    <3>1. Message(t) # <<>>
      <4>1. Message(t) \in Seq(Units) /\ Len(Message(t)) = 2
        BY <2>1
      <4> QED BY <4>1, NoUnits
    <3> QED BY <2>1, <3>1, NothingJoined
  <2>3. /\ ~Storing(c, t) /\ ToStore(c, t) = <<>>
        /\ Ready(c, t, <<>>) => Ahead(c, t) = <<>> \o <<>>
    BY <1>3 DEF Storing, ToStore, Ready
  <2>4. /\ c_cmd[c] \in Typed
        /\ c_cmd[c] \in Naming => c_arg[c] \in FileNames \union Dirs
    BY <1>4, Connected
  <2>5. /\ Asked(c) = Asks(c) \o Names(c) /\ Asked(c) \in Seq(Units)
        /\ Names(c) \in Seq(Units)
        /\ Asks(c) \in Seq(Units) /\ Len(Asks(c)) = 2 /\ MagicOk(Asks(c))
        /\ HeaderIn(Asks(c)).type = RequestOf(c)
        /\ PayloadLen(HeaderIn(Asks(c))) = IF c_cmd[c] \in Naming THEN 1 ELSE 0
    BY <2>4, AskedUnits DEF Smooth
  <2>6. c_pc[c] \in {"name", "reply"} /\ Asking(c, t)
    <3>1. <<>> \o <<>> = <<>>
      BY NothingJoined, EmptySeq
    <3>2. ~Ready(c, t, <<>>) /\ ~Answered(c, t)
      BY <2>2, <2>3, <3>1 DEF Answered
    <3>3. c_pc[c] \in ClientPlaces
      BY TypesOf DEF ClientTypeOK
    <3> QED BY <1>4, <3>2, <3>3 DEF Paired, ClientPlaces
  <2>7. s2c[t] = <<>> /\ Ahead(c, t) = Asked(c)
    <3>1. <<>> \o Asked(c) = Asked(c)
      BY <2>5, NoUnits
    <3> QED BY <1>3, <2>3, <2>6, <3>1 DEF Asking, Ready
  <2>8. Message(t) = Asks(c) /\ Ahead(c, t)' = Names(c)
    BY <2>1, <2>5, <2>7, Parts
  <2>9. h.type = RequestOf(c) /\ MagicOk(Message(t))
        /\ PayloadLen(h) = IF c_cmd[c] \in Naming THEN 1 ELSE 0
    BY <2>5, <2>8
  <2>10. /\ RequestOf(c) \in WithPayload \union WithoutPayload
         /\ RequestOf(c) \in WithPayload <=> c_cmd[c] \in Naming
    BY <2>4, Requests DEF Typed, Naming, WithPayload, WithoutPayload
  <2>11. /\ t_pc'[t] = IF c_cmd[c] \in Naming THEN "payload" ELSE "reply"
         /\ t_cmd'[t] = RequestOf(c)
         /\ c_cmd[c] \in Naming => t_len'[t] = 1
    BY <1>2, <2>9, <2>10 DEF Handlers
  <2>12. UNCHANGED <<c_pc, c_cmd, c_arg>>
    BY DEF clientVars
  <2>13. RequestOf(c)' = RequestOf(c) /\ NameOf(c)' = NameOf(c)
    BY <2>12 DEF RequestOf, NameOf
  <2>14. Asking(c, t)'
    BY <2>1, <2>7, <2>8, <2>11, <2>12, <2>13 DEF Asking, Names
  <2> QED BY <2>6, <2>12, <2>14 DEF Paired
<1>5. ReadingOn(t)'
  BY <1>2 DEF ReadingOn
<1> QED BY <1>1, <1>2, <1>4, <1>5, StepFrame

LEMMA ReadPayloadStays ==
    ASSUME Smooth, OrderlyInv, StepInv, NEW t \in Conns, UNCHANGED clientVars, ReadPayload(t)
    PROVE  StepInv'
<1>1. OthersAlone(t)
  BY ThreadAlone DEF ThreadStep
<1>2. /\ ReadAll(t, "payload") /\ Handlers /\ Streams /\ t_pc \in [Conns -> ServerPlaces]
      /\ t_pc' = [t_pc EXCEPT ![t] = "reply"]
      /\ t_name' = [t_name EXCEPT ![t] = NameIn(Message(t)[1])]
      /\ t_got'[t] = <<>> /\ UNCHANGED <<t_dir, t_cmd, t_len, t_buf, files>>
  BY FunctionsOf DEF ReadPayload, ReadAll, Takes, Jump, Streams
<1>3. t_pc[t] = "payload"
  BY <1>2 DEF ReadAll
<1>4. ASSUME NEW c \in Clients, c_sock[c] = t, Paired(c, t) PROVE Paired(c, t)'
  <2>1. /\ Message(t) \in Seq(Units) /\ Len(Message(t)) = t_len[t]
        /\ Ahead(c, t) = Message(t) \o Ahead(c, t)' /\ Ahead(c, t)' \in Seq(Units)
        /\ s2c'[t] = s2c[t]
    BY <1>2, <1>3, <1>4, ReadsAhead DEF RecvPlaces, Needed
  <2>2. /\ c_pc[c] \in {"name", "reply"} /\ s2c[t] = <<>>
        /\ t_cmd[t] = RequestOf(c) /\ t_len[t] = 1 /\ c_cmd[c] \in Naming
        /\ Ahead(c, t) = NameOf(c)
    <3>1. ~Storing(c, t) /\ ~Ready(c, t, <<>>) /\ ~Ready(c, t, Asked(c))
      BY <1>3 DEF Storing, Ready
    <3>2. ~Answered(c, t)
      BY <1>3 DEF Answered, OpenAnswered, QuitAnswered, CdAnswered, PutAnswered, LsAnswered,
                  GetRefused, GetBegun, GetAnswered, Over
    <3>3. c_pc[c] \in ClientPlaces
      BY TypesOf DEF ClientTypeOK
    <3> QED BY <1>3, <1>4, <3>1, <3>2, <3>3 DEF Paired, ClientPlaces, Asking
  <2>3. /\ NameOf(c) \in Seq(Units) /\ Len(NameOf(c)) = 1
        /\ NameIn(NameOf(c)[1]) = c_arg[c]
    BY <1>4, <2>2, Connected, NameUnits DEF NameOf
  <2>4. Message(t) = NameOf(c) /\ Ahead(c, t)' = <<>>
    <3>1. NameOf(c) \o <<>> = NameOf(c) /\ <<>> \in Seq(Units)
      BY <2>3, NoUnits
    <3> QED BY <2>1, <2>2, <2>3, <3>1, Parts
  <2>5. t_name'[t] = c_arg[c]
    BY <1>2, <2>3, <2>4 DEF Handlers
  <2>6. UNCHANGED <<c_pc, c_cmd, c_arg>>
    BY DEF clientVars
  <2>7. RequestOf(c)' = RequestOf(c)
    BY <2>6 DEF RequestOf
  <2>8. Asking(c, t)'
    BY <1>2, <2>1, <2>2, <2>4, <2>5, <2>6, <2>7 DEF Asking
  <2> QED BY <2>2, <2>6, <2>8 DEF Paired
<1>5. ReadingOn(t)'
  BY <1>2 DEF ReadingOn
<1> QED BY <1>1, <1>2, <1>4, <1>5, StepFrame

(* The second half of put, whatever the client does meanwhile.             *)
PutMoves(c, t) ==
    /\ ~Answered(c, t) /\ Storing(c, t) /\ Storing(c, t)'
    /\ t_name'[t] = t_name[t] /\ s2c'[t] = s2c[t]
    /\ \A v \in Seq(Units) : Ahead(c, t) = ToStore(c, t) \o v
                               => Ahead(c, t)' = ToStore(c, t)' \o v

LEMMA StoringMoves ==
    ASSUME Smooth, OrderlyInv, StepInv, NEW t \in Conns, UNCHANGED clientVars,
           NEW c \in Clients, c_sock[c] = t, PutMoves(c, t)
    PROVE  Paired(c, t)'
<1>1. Paired(c, t) /\ c_cmd[c] \in Typed /\ (c_cmd[c] \in Naming => c_arg[c] \in FileNames \union Dirs)
  BY Connected
<1>2. Asked(c) \in Seq(Units) /\ <<>> \in Seq(Units)
  BY <1>1, AskedUnits, NoUnits DEF Smooth
<1>3. UNCHANGED <<c_pc, c_cmd, c_arg, c_ret, c_files>>
  BY DEF clientVars
<1>4. RequestOf(c)' = RequestOf(c) /\ Asked(c)' = Asked(c)
  BY <1>3 DEF RequestOf, Asked, NameOf
<1>5. /\ t_pc[t] \in {"putHeader", "putBody", "putOpen", "putWrite"}
      /\ t_pc'[t] \in {"putHeader", "putBody", "putOpen", "putWrite"}
  BY DEF PutMoves, Storing
<1>6. Ready(c, t, <<>>) => Ready(c, t, <<>>)'
  BY <1>2, <1>5 DEF PutMoves, Ready
<1>7. Asking(c, t) => Asking(c, t)'
  BY <1>2, <1>3, <1>4, <1>5 DEF PutMoves, Asking, Ready
<1>8. Stored(c, t) => Stored(c, t)'
  BY <1>3, <1>5 DEF PutMoves, Stored
<1> QED BY <1>1, <1>3, <1>6, <1>7, <1>8 DEF PutMoves, Paired

(* The thread reads the header of the file, and its contents.              *)
LEMMA PutHeaderRead ==
    ASSUME Smooth, OrderlyInv, StepInv, NEW t \in Conns, UNCHANGED clientVars, ReadPutHeader(t),
           NEW c \in Clients, c_sock[c] = t
    PROVE  PutMoves(c, t)
<1> DEFINE h == HeaderIn(Message(t))
<1>1. Paired(c, t)
  BY Connected
<1>2. /\ ReadAll(t, "putHeader") /\ Handlers /\ Streams /\ t_pc \in [Conns -> ServerPlaces]
      /\ t_buf \in [Conns -> Short]
      /\ h.type = "FILE_DATA" =>
            /\ t_pc' = [t_pc EXCEPT ![t] = IF PayloadLen(h) = 0 THEN "putOpen" ELSE "putBody"]
            /\ t_len' = [t_len EXCEPT ![t] = PayloadLen(h)]
            /\ t_buf' = [t_buf EXCEPT ![t] = <<>>]
      /\ t_got'[t] = <<>> /\ UNCHANGED <<t_dir, t_cmd, t_name, files>>
  BY FunctionsOf DEF ReadPutHeader, ReadAll, Takes, Jump, Streams, PutLen
<1>3. t_pc[t] = "putHeader"
  BY <1>2 DEF ReadAll
<1> DEFINE f == Original(c, t)
           m == Header("FILE_DATA", "STATUS_UNUSED", Len(f))
<1>4. /\ Message(t) \in Seq(Units) /\ Len(Message(t)) = 2
      /\ Ahead(c, t) = Message(t) \o Ahead(c, t)' /\ Ahead(c, t)' \in Seq(Units)
      /\ s2c'[t] = s2c[t]
  BY <1>2, <1>3, <1>1, ReadsAhead DEF RecvPlaces, Needed, HeaderLen
<1>5. ~Answered(c, t)
  <2>1. Message(t) # <<>>
    <3>1. \A u : Len(u) = 2 => u # <<>>
      OBVIOUS
    <3> QED BY <1>4, <3>1
  <2>2. Ahead(c, t) # <<>>
    BY <1>4, <2>1, NothingJoined
  <2> QED BY <2>2 DEF Answered
<1>6. Storing(c, t) /\ \E v \in Seq(Units) : Ahead(c, t) = ToStore(c, t) \o v
  <2>1. c_pc[c] \in ClientPlaces
    BY TypesOf DEF ClientTypeOK
  <2>2. Ready(c, t, <<>>) \/ Ready(c, t, Asked(c))
    BY <1>3, <1>1, <1>5, <2>1 DEF Paired, Asking, ClientPlaces
  <2>3. Asked(c) \in Seq(Units) /\ <<>> \in Seq(Units)
    BY <1>1, Connected, AskedUnits, NoUnits DEF Smooth
  <2> QED BY <1>3, <2>2, <2>3 DEF Ready
<1>7. /\ ToStore(c, t) = m \o f /\ m \in Seq(Units) /\ Len(m) = 2
      /\ HeaderIn(m).type = "FILE_DATA" /\ PayloadLen(HeaderIn(m)) = Len(f)
      /\ f \in Seq(Units)
  <2>1. f \in Short
    BY <1>6, StoringUnits
  <2>2. ToStore(c, t) = FileMessage(f)
    BY <1>3 DEF ToStore
  <2> QED BY <2>1, <2>2, FileMessageUnits
<1> HIDE DEF f, m
<1>8. ASSUME NEW v \in Seq(Units), Ahead(c, t) = ToStore(c, t) \o v
      PROVE  Message(t) = m /\ Ahead(c, t)' = f \o v
  <2>1. f \in Seq(Units) /\ m \in Seq(Units)
    BY <1>7
  <2>2. f \o v \in Seq(Units) /\ (m \o f) \o v = m \o (f \o v)
    BY <2>1, JoinedUnits, Chained
  <2>3. Message(t) \o Ahead(c, t)' = m \o (f \o v)
    BY <1>4, <1>7, <1>8, <2>2
  <2>4. PICK a, l : a = Ahead(c, t)' /\ l = f \o v
    OBVIOUS
  <2>5. /\ Message(t) \o a = m \o l /\ Len(Message(t)) = Len(m)
        /\ Message(t) \in Seq(Units) /\ a \in Seq(Units)
        /\ m \in Seq(Units) /\ l \in Seq(Units)
    BY <1>4, <1>7, <2>2, <2>3, <2>4
  <2>6. Message(t) = m /\ a = l
    BY <2>5, Parts
  <2> QED BY <2>4, <2>6
<1>9. Message(t) = m
  BY <1>6, <1>8
<1>10. h.type = "FILE_DATA" /\ PayloadLen(h) = Len(f)
  BY <1>7, <1>9
<1>11. /\ t_pc'[t] = IF Len(f) = 0 THEN "putOpen" ELSE "putBody"
      /\ t_len'[t] = Len(f) /\ t_buf'[t] = <<>> /\ t_name'[t] = t_name[t]
  BY <1>2, <1>10 DEF Handlers
<1>12. Len(f) = 0 => f = <<>>
  BY <1>7, NoUnits
<1>13. Original(c, t)' = f
  BY <1>11 DEF Original, f, clientVars
<1>14. Storing(c, t)' /\ ToStore(c, t)' = f
  BY <1>6, <1>11, <1>12, <1>13 DEF Storing, ToStore, f
<1>15. \A v \in Seq(Units) : Ahead(c, t) = ToStore(c, t) \o v
                                 => Ahead(c, t)' = ToStore(c, t)' \o v
  BY <1>8, <1>14
<1> QED BY <1>4, <1>5, <1>6, <1>11, <1>14, <1>15 DEF PutMoves

LEMMA ReadPutHeaderStays ==
    ASSUME Smooth, OrderlyInv, StepInv, NEW t \in Conns, UNCHANGED clientVars, ReadPutHeader(t)
    PROVE  StepInv'
<1>1. OthersAlone(t)
  BY ThreadAlone DEF ThreadStep
<1>2. t_got'[t] = <<>> /\ files' = files
  BY FunctionsOf DEF ReadPutHeader, ReadAll, Takes, Streams
<1>3. ASSUME NEW c \in Clients, c_sock[c] = t, Paired(c, t) PROVE Paired(c, t)'
  BY <1>3, PutHeaderRead, StoringMoves
<1>4. ReadingOn(t)'
  BY <1>2 DEF ReadingOn
<1> QED BY <1>1, <1>2, <1>3, <1>4, StepFrame

(* A place between putHeader and the end of put is one of storing.         *)
LEMMA StoresThere ==
    ASSUME NEW c \in Clients, NEW t \in Conns, c_pc[c] \in ClientPlaces, Paired(c, t),
           t_pc[t] \in {"putBody", "putOpen", "putWrite"}
    PROVE  /\ ~Answered(c, t) /\ Storing(c, t)
           /\ Ahead(c, t) = ToStore(c, t) \o <<>> \/ Ahead(c, t) = ToStore(c, t) \o Asked(c)
<1>1. ~Answered(c, t)
  BY DEF Answered, OpenAnswered, QuitAnswered, CdAnswered, PutAnswered, LsAnswered,
         GetRefused, GetBegun, GetAnswered, Over
<1>2. Ready(c, t, <<>>) \/ Ready(c, t, Asked(c))
  BY <1>1 DEF Paired, Asking, ClientPlaces
<1> QED BY <1>1, <1>2 DEF Ready

LEMMA PutBodyRead ==
    ASSUME Smooth, OrderlyInv, StepInv, NEW t \in Conns, UNCHANGED clientVars, ReadPutBody(t),
           NEW c \in Clients, c_sock[c] = t
    PROVE  PutMoves(c, t)
<1>1. Paired(c, t)
  BY Connected
<1>2. /\ ReadAll(t, "putBody") /\ Handlers /\ Streams /\ t_pc \in [Conns -> ServerPlaces]
      /\ t_buf \in [Conns -> Short]
      /\ t_pc' = [t_pc EXCEPT ![t] = "putOpen"]
      /\ t_buf' = [t_buf EXCEPT ![t] = Message(t)]
      /\ t_got'[t] = <<>> /\ UNCHANGED <<t_dir, t_cmd, t_name, t_len, files>>
  BY FunctionsOf DEF ReadPutBody, ReadAll, Takes, Jump, Streams
<1>3. t_pc[t] = "putBody"
  BY <1>2 DEF ReadAll
<1>4. /\ Message(t) \in Seq(Units) /\ Len(Message(t)) = t_len[t]
      /\ Ahead(c, t) = Message(t) \o Ahead(c, t)' /\ Ahead(c, t)' \in Seq(Units)
      /\ s2c'[t] = s2c[t]
  BY <1>2, <1>3, <1>1, ReadsAhead DEF RecvPlaces, Needed
<1>5. /\ ~Answered(c, t) /\ Storing(c, t)
      /\ Ahead(c, t) = ToStore(c, t) \o <<>> \/ Ahead(c, t) = ToStore(c, t) \o Asked(c)
  BY <1>3, <1>1, TypesOf, StoresThere DEF ClientTypeOK
<1>6. Asked(c) \in Seq(Units) /\ <<>> \in Seq(Units)
  BY <1>1, Connected, AskedUnits, NoUnits DEF Smooth
<1>7. /\ ToStore(c, t) = Original(c, t) /\ Original(c, t) \in Seq(Units)
      /\ t_len[t] = Len(Original(c, t))
  BY <1>3, <1>5, StoringUnits DEF ToStore, Storing
<1>8. ASSUME NEW v \in Seq(Units), Ahead(c, t) = ToStore(c, t) \o v
      PROVE  Message(t) = Original(c, t) /\ Ahead(c, t)' = v
  <2>1. Message(t) \o Ahead(c, t)' = Original(c, t) \o v
    BY <1>4, <1>7, <1>8
  <2> QED BY <1>4, <1>7, <2>1, Parts
<1>9. Message(t) = Original(c, t)
  BY <1>5, <1>6, <1>8
<1>10. /\ t_pc'[t] = "putOpen" /\ t_buf'[t] = Original(c, t) /\ t_name'[t] = t_name[t]
      /\ Original(c, t)' = Original(c, t)
  BY <1>2, <1>9 DEF Handlers, Original, clientVars
<1>11. Storing(c, t)' /\ ToStore(c, t)' = <<>>
  BY <1>5, <1>10 DEF Storing, ToStore
<1>12. \A v \in Seq(Units) : Ahead(c, t) = ToStore(c, t) \o v
                                => Ahead(c, t)' = ToStore(c, t)' \o v
  <2>1. \A v \in Seq(Units) : <<>> \o v = v
    BY NoUnits
  <2> QED BY <1>8, <1>11, <2>1
<1> QED BY <1>4, <1>5, <1>10, <1>11, <1>12 DEF PutMoves

LEMMA ReadPutBodyStays ==
    ASSUME Smooth, OrderlyInv, StepInv, NEW t \in Conns, UNCHANGED clientVars, ReadPutBody(t)
    PROVE  StepInv'
<1>1. OthersAlone(t)
  BY ThreadAlone DEF ThreadStep
<1>2. t_got'[t] = <<>> /\ files' = files
  BY FunctionsOf DEF ReadPutBody, ReadAll, Takes, Streams
<1>3. ASSUME NEW c \in Clients, c_sock[c] = t, Paired(c, t) PROVE Paired(c, t)'
  BY <1>3, PutBodyRead, StoringMoves
<1>4. ReadingOn(t)'
  BY <1>2 DEF ReadingOn
<1> QED BY <1>1, <1>2, <1>3, <1>4, StepFrame

(* No file that can arise, empty ones among them, is taken for none.       *)
LEMMA MixedThere == NoFile \notin Short /\ NoFile \notin Mixed
<1>1. Short \subseteq Seq(Units)
  BY ShortUnits
<1> QED BY <1>1, MixedShort, FtpServerAssumption

LEMMA PutOpenStays ==
    ASSUME Smooth, OrderlyInv, StepInv, NEW t \in Conns, UNCHANGED clientVars, PutOpen(t)
    PROVE  StepInv'
<1>1. OthersAlone(t)
  BY ThreadAlone DEF ThreadStep
<1>2. /\ t_pc[t] = "putOpen" /\ Handlers /\ Streams /\ t_pc \in [Conns -> ServerPlaces]
      /\ files \in [Files -> {NoFile} \union Mixed]
      /\ UNCHANGED <<c2s, s2c, t_dir, t_got, t_cmd, t_name, t_len, t_buf>>
  BY FunctionsOf DEF PutOpen, WithFile, wire
<1>3. \/ t_pc' = [t_pc EXCEPT ![t] = "request"] /\ files' = files /\ FileOf(t) \notin Files
      \/ t_pc' = [t_pc EXCEPT ![t] = "putWrite"] /\ files' = [files EXCEPT ![FileOf(t)] = <<>>]
         /\ FileOf(t) \in Files
  BY DEF PutOpen, OpenMayFail, Smooth, Emptied, Jump
<1>4. \A x \in Files : files[x] # NoFile => files'[x] # NoFile
  <2>1. <<>> # NoFile
    <3>1. Longest \in Int
      BY FtpWireAssumption DEF Longest, HeaderLen
    <3>2. 0 =< Longest
      BY <3>1 DEF Smooth, Orderly
    <3> QED BY <3>2, MixedThere, EmptyMixed
  <2> QED BY <1>2, <1>3, <2>1
<1>5. ASSUME NEW c \in Clients, c_sock[c] = t, Paired(c, t) PROVE Paired(c, t)'
  <2>1. ~Answered(c, t) /\ Storing(c, t)
    BY <1>2, <1>5, TypesOf, StoresThere DEF ClientTypeOK
  <2>2. FileOf(t) \in Files
    BY <1>2, <2>1 DEF FileOf, Files, Storing, Handlers
  <2>3. t_pc'[t] = "putWrite" /\ files'[FileOf(t)] = <<>> /\ FileOf(t)' = FileOf(t)
    BY <1>2, <1>3, <2>2 DEF FileOf
  <2>4. Original(c, t)' = Original(c, t) /\ Ahead(c, t)' = Ahead(c, t)
    BY <1>2 DEF Original, Ahead, Unsent, NameOf, FileMessage, clientVars
  <2>5. Storing(c, t)' /\ ToStore(c, t)' = <<>> /\ ToStore(c, t) = <<>>
    BY <1>2, <2>1, <2>3, <2>4 DEF Storing, ToStore
  <2>6. PutMoves(c, t)
    BY <1>2, <2>1, <2>4, <2>5 DEF PutMoves
  <2> QED BY <1>5, <2>6, StoringMoves
<1>6. ReadingOn(t)'
  BY <1>2, <1>3 DEF StepInv, ReadingOn, RecvPlaces, OrderlyInv, FramesInv, ThreadInv, ThreadInPlace
<1> QED BY <1>1, <1>2, <1>4, <1>5, <1>6, StepFrame

(* What is written over an emptied file is all that is there.              *)
LEMMA WriteStores ==
    ASSUME Sole, NEW c \in Clients, NEW t \in Conns, Storing(c, t), t_pc[t] = "putWrite",
           t_buf[t] \in Short, FileOf(t) \in Files, files \in [Files -> {NoFile} \union Mixed],
           files' = [files EXCEPT ![FileOf(t)] = Written(@, t_buf[t])]
    PROVE  files'[FileOf(t)] = Original(c, t)
<1>1. files[FileOf(t)] = <<>> /\ t_buf[t] = Original(c, t)
  BY DEF Storing
<1>2. files'[FileOf(t)] = t_buf[t] \o After(<<>>, Len(t_buf[t]))
  BY <1>1 DEF Written
<1>3. t_buf[t] \in Seq(Units) /\ Len(t_buf[t]) \in Nat
  BY ShortUnits
<1>4. After(<<>>, Len(t_buf[t])) = <<>>
  <2>1. Len(t_buf[t]) + 1 \in Int /\ Len(<<>>) = 0 /\ 0 < Len(t_buf[t]) + 1
    BY <1>3
  <2>2. SubSeq(<<>>, Len(t_buf[t]) + 1, Len(<<>>)) = <<>>
    BY <2>1, SubSeqEmpty
  <2> QED BY <2>2 DEF After
<1>5. t_buf[t] \o <<>> = t_buf[t]
  BY <1>3, NoUnits
<1> QED BY <1>1, <1>2, <1>4, <1>5

(* The end of put: the file is there.                                      *)
LEMMA PutWriteStays ==
    ASSUME Smooth, OrderlyInv, StepInv, NEW t \in Conns, UNCHANGED clientVars, PutWrite(t)
    PROVE  StepInv'
<1>1. OthersAlone(t)
  BY ThreadAlone DEF ThreadStep
<1>2. /\ t_pc[t] = "putWrite" /\ Handlers /\ Streams /\ t_pc \in [Conns -> ServerPlaces]
      /\ files \in [Files -> {NoFile} \union Mixed] /\ t_buf \in [Conns -> Short]
      /\ t_pc' = [t_pc EXCEPT ![t] = "request"]
      /\ files' = [files EXCEPT ![FileOf(t)] = Written(@, t_buf[t])]
      /\ UNCHANGED <<c2s, s2c, t_dir, t_got, t_cmd, t_name, t_len, t_buf>>
  BY FunctionsOf DEF PutWrite, WithFile, wire, Jump
<1>3. /\ FileOf(t) \in Files /\ files[FileOf(t)] \in Mixed /\ t_buf[t] \in Mixed
      /\ t_got[t] = <<>>
  BY <1>2 DEF OrderlyInv, FramesInv, ThreadInv, ThreadInPlace, RecvPlaces
<1>4. \A x \in Files : files[x] # NoFile => files'[x] # NoFile
  <2>1. Written(files[FileOf(t)], t_buf[t]) # NoFile
    BY <1>3, MixedWritten, MixedThere
  <2> QED BY <1>2, <1>3, <2>1
<1>5. ASSUME NEW c \in Clients, c_sock[c] = t, Paired(c, t) PROVE Paired(c, t)'
  <2>1. /\ ~Answered(c, t) /\ Storing(c, t)
        /\ Ahead(c, t) = ToStore(c, t) \o <<>> \/ Ahead(c, t) = ToStore(c, t) \o Asked(c)
    BY <1>2, <1>5, TypesOf, StoresThere DEF ClientTypeOK
  <2>2. UNCHANGED <<c_pc, c_cmd, c_arg, c_ret, c_files>>
    BY DEF clientVars
  <2>3. /\ t_pc'[t] = "request" /\ ToStore(c, t) = <<>> /\ ToStore(c, t)' = <<>>
        /\ Ahead(c, t)' = Ahead(c, t) /\ Asked(c)' = Asked(c)
    BY <1>2, <2>2 DEF ToStore, Ahead, Unsent, NameOf, FileMessage, Asked, RequestOf
  <2>4. \A v : Ready(c, t, v) => Ready(c, t, v)'
    BY <2>3 DEF Ready
  <2>5. Asking(c, t) => Asking(c, t)'
    BY <1>2, <2>2, <2>3 DEF Asking, Ready
  <2>6. Sole => files'[FileOf(t)] = Original(c, t)
    BY <1>2, <1>3, <2>1, WriteStores
  <2>7. Sole /\ Stored(c, t) => Stored(c, t)'
    <3> SUFFICES ASSUME Sole, Stored(c, t), c_cmd[c] = "put", c_ret[c] = 0
                 PROVE  TheFile(c, t)' = c_files[c][c_arg[c]] /\ ~Storing(c, t)'
      BY <2>2 DEF Stored
    <3>1. t_name[t] = c_arg[c]
      BY <2>1 DEF Stored
    <3> QED BY <1>2, <2>2, <2>3, <2>6, <3>1 DEF TheFile, FileOf, Original, Storing
  <2>8. c_pc[c] \notin {"fileHeader", "fileBody"}
    <3> SUFFICES ASSUME c_pc[c] \in {"fileHeader", "fileBody"} PROVE FALSE
      OBVIOUS
    <3>1. /\ c_files[c][c_arg[c]] \in Short
          /\ c_pc[c] = "fileBody" => c_files[c][c_arg[c]] # <<>>
      BY <1>5, MixedShort DEF Paired, OrderlyInv, FramesInv, SessionInv, ClientInPlace
    <3>2. Unsent(c) # <<>>
      BY <3>1, FileMessageUnits DEF Unsent
    <3>3. Ahead(c, t) = <<>>
      <4>1. <<>> \o <<>> = <<>>
        BY NoUnits
      <4> QED BY <1>5, <2>3, <4>1 DEF Paired, Ready
    <3>4. t_got[t] \o c2s[t] \in Seq(Units) /\ Unsent(c) \in Seq(Units)
      BY <1>5, Connected, JoinedUnits
    <3> QED BY <3>2, <3>3, <3>4, NothingJoined DEF Ahead
  <2> QED BY <1>2, <1>5, <2>1, <2>2, <2>3, <2>4, <2>5, <2>7, <2>8 DEF Paired
<1>6. ReadingOn(t)'
  BY <1>2, <1>3 DEF ReadingOn
<1> QED BY <1>1, <1>2, <1>4, <1>5, <1>6, StepFrame

(* The handlers: the client has asked for this answer, and awaits it.      *)
LEMMA Awaited ==
    ASSUME Smooth, OrderlyInv, StepInv, NEW t \in Conns, t_pc[t] = "reply",
           NEW c \in Clients, c_sock[c] = t, Paired(c, t)
    PROVE  /\ c_pc[c] = "reply" /\ s2c[t] = <<>> /\ t_cmd[t] = RequestOf(c)
           /\ c_cmd[c] \in Naming => t_name[t] = c_arg[c]
           /\ Ahead(c, t) = <<>>
<1>1. ~Storing(c, t) /\ \A v : ~Ready(c, t, v)
  BY DEF Storing, Ready
<1>2. ~Answered(c, t)
  BY DEF Answered, OpenAnswered, QuitAnswered, CdAnswered, PutAnswered, LsAnswered,
         GetRefused, GetBegun, GetAnswered, Over
<1>3. c_pc[c] \in ClientPlaces
  BY TypesOf DEF ClientTypeOK
<1>4. c_pc[c] \in {"name", "reply"} /\ Asking(c, t)
  BY <1>1, <1>2, <1>3 DEF Paired, ClientPlaces
<1>5. /\ s2c[t] = <<>> /\ t_cmd[t] = RequestOf(c)
      /\ c_cmd[c] \in Naming => t_name[t] = c_arg[c]
      /\ Ahead(c, t) = <<>>
  BY <1>1, <1>4 DEF Asking
<1>6. c_pc[c] # "name"
  <2> SUFFICES ASSUME c_pc[c] = "name" PROVE FALSE
    OBVIOUS
  <2>1. Unsent(c) = NameOf(c)
    BY DEF Unsent
  <2>2. c_arg[c] \in FileNames \union Dirs
    BY DEF OrderlyInv, FramesInv, SessionInv, ClientInPlace
  <2>3. NameOf(c) # <<>>
    BY <2>2, NameUnits DEF NameOf
  <2>4. t_got[t] \o c2s[t] \in Seq(Units) /\ Unsent(c) \in Seq(Units)
    BY Connected, JoinedUnits
  <2> QED BY <1>5, <2>1, <2>3, <2>4, NothingJoined DEF Ahead
<1> QED BY <1>4, <1>5, <1>6

LEMMA Replied ==
    ASSUME Smooth, OrderlyInv, StepInv, NEW t \in Conns, UNCHANGED clientVars,
           NEW request, NEW m \in Seq(Units), NEW ok, NEW bad, Replies(t, request, m, ok, bad)
    PROVE  /\ t_pc[t] = "reply" /\ t_cmd[t] = request /\ t_pc'[t] = ok /\ ReadingOn(t)'
           /\ UNCHANGED <<t_cmd, t_name, files, c_pc, c_cmd, c_arg>>
           /\ \A c \in Clients : c_sock[c] = t /\ Paired(c, t) =>
                 /\ c_pc[c] = "reply" /\ RequestOf(c) = request
                 /\ c_cmd[c] \in Naming => t_name[t] = c_arg[c]
                 /\ s2c'[t] = m /\ Ahead(c, t)' = <<>>
                 /\ Answered(c, t)' => Paired(c, t)'
<1>1. t_pc[t] = "reply" /\ t_cmd[t] = request /\ UNCHANGED <<t_cmd, t_name, files>>
  BY DEF Replies
<1>2. /\ s2c' = [s2c EXCEPT ![t] = @ \o m]
      /\ t_pc' = [t_pc EXCEPT ![t] = ok]
      /\ UNCHANGED <<c2s, t_got>>
  BY <1>1, SendsWell DEF Replies, SendPlaces
<1>3. s2c'[t] = s2c[t] \o m /\ t_pc'[t] = ok
  BY <1>2, FunctionsOf DEF Streams
<1>4. t_got'[t] = <<>>
  BY <1>1, <1>2 DEF OrderlyInv, FramesInv, ThreadInv, ThreadInPlace, RecvPlaces
<1>5. ReadingOn(t)'
  BY <1>4 DEF ReadingOn
<1>6. UNCHANGED <<c_pc, c_cmd, c_arg, c_files>>
  BY DEF clientVars
<1>7. ASSUME NEW c \in Clients, c_sock[c] = t, Paired(c, t)
      PROVE  /\ c_pc[c] = "reply" /\ RequestOf(c) = request
             /\ c_cmd[c] \in Naming => t_name[t] = c_arg[c]
             /\ s2c'[t] = m /\ Ahead(c, t)' = <<>>
             /\ Answered(c, t)' => Paired(c, t)'
  <2>1. /\ c_pc[c] = "reply" /\ s2c[t] = <<>> /\ t_cmd[t] = RequestOf(c)
        /\ c_cmd[c] \in Naming => t_name[t] = c_arg[c]
        /\ Ahead(c, t) = <<>>
    BY <1>1, <1>7, Awaited
  <2>2. Ahead(c, t)' = Ahead(c, t)
    BY <1>2, <1>6 DEF Ahead, Unsent, NameOf, FileMessage
  <2>3. <<>> \o m = m
    BY NoUnits
  <2> QED BY <1>1, <1>3, <1>6, <2>1, <2>2, <2>3 DEF Paired
<1> QED BY <1>1, <1>3, <1>5, <1>6, <1>7

(* Where something can be listed, the listing is not the NUL alone.        *)
LEMMA ListingLong ==
    ASSUME Smooth, NEW dir \in Dirs, Listed(dir)
    PROVE  Listing(dir) \in Short /\ Listing(dir) \in Seq(Units) /\ Len(Listing(dir)) \in 2 .. Longest
<1>1. Listing(dir) \in Short /\ Listing(dir) \in Seq(Units) /\ Len(Listing(dir)) \in 0 .. Longest
  BY ListingShort, ShortUnits DEF Smooth, Orderly
<1>2. Listing(dir) = <<Data(dir)>> \o <<Data("NUL")>>
  BY DEF Listing, Listed
<1>3. Data(dir) \in Units /\ Data("NUL") \in Units
  BY DataRaw, RawUnits
<1>4. Len(<<Data(dir)>> \o <<Data("NUL")>>) = 2
  <2>1. \A a, b \in Units : /\ <<a>> \in Seq(Units) /\ <<b>> \in Seq(Units)
                            /\ Len(<<a>>) = 1 /\ Len(<<b>>) = 1
    OBVIOUS
  <2>2. \A a, b \in Units : Len(<<a>> \o <<b>>) = 2
    BY <2>1, JoinedUnits
  <2> QED BY <1>3, <2>2
<1>5. Longest \in Int
  BY FtpWireAssumption DEF Longest, HeaderLen
<1> QED BY <1>1, <1>2, <1>4, <1>5

LEMMA HandlersStay ==
    ASSUME Smooth, OrderlyInv, StepInv, NEW t \in Conns, UNCHANGED clientVars,
           \/ handle_open_conn_request(t) \/ handle_quit_request(t) \/ handle_ls_request(t)
           \/ handle_cd_request(t) \/ handle_get(t) \/ handle_put(t) \/ handle_sha256(t)
    PROVE  StepInv'
<1> DEFINE Meets(c, request, m, ok) ==
             /\ c_sock[c] = t
             /\ c_pc'[c] = "reply" /\ c_cmd'[c] = c_cmd[c] /\ c_arg'[c] = c_arg[c]
             /\ RequestOf(c) = request /\ c_cmd[c] \in Typed
             /\ c_cmd[c] \in Naming => t_name'[t] = c_arg[c]
             /\ s2c'[t] = m /\ Ahead(c, t)' = <<>>
             /\ t_pc'[t] = ok /\ t_cmd'[t] = request
<1>1. OthersAlone(t)
  BY ThreadAlone DEF ThreadStep
<1>2. /\ Streams /\ Handlers /\ t_buf \in [Conns -> Short] /\ Orderly
      /\ files \in [Files -> {NoFile} \union Mixed]
  BY FunctionsOf DEF Smooth
<1>3. \A type \in Types, status \in Statuses : Answer(type, status) \in Seq(Units)
  BY <1>2, AnswerUnits
<1>4. /\ \A b : StatusOf(b) \in Statuses
      /\ "STATUS_OK" \in Statuses /\ "STATUS_UNUSED" \in Statuses
      /\ {"OPEN_CONN_REPLY", "LIST_REPLY", "CHANGE_DIR_REPLY", "GET_REPLY", "PUT_REPLY",
          "QUIT_REPLY"} \subseteq Types
  BY DEF StatusOf, Statuses, Types
<1>5. ASSUME NEW request, NEW m \in Seq(Units), NEW ok, NEW bad, Replies(t, request, m, ok, bad),
             \A c \in Clients : Meets(c, request, m, ok) => Answered(c, t)'
      PROVE  StepInv'
  <2>1. /\ t_pc'[t] = ok /\ t_cmd[t] = request /\ ReadingOn(t)'
        /\ UNCHANGED <<t_cmd, t_name, files, c_pc, c_cmd, c_arg>>
        /\ \A c \in Clients : c_sock[c] = t /\ Paired(c, t) =>
              /\ c_pc[c] = "reply" /\ RequestOf(c) = request
              /\ c_cmd[c] \in Naming => t_name[t] = c_arg[c]
              /\ s2c'[t] = m /\ Ahead(c, t)' = <<>>
              /\ Answered(c, t)' => Paired(c, t)'
    BY <1>5, Replied
  <2>2. ASSUME NEW c \in Clients, c_sock[c] = t, Paired(c, t) PROVE Paired(c, t)'
    <3>1. c_cmd[c] \in Typed
      BY <2>2, Connected
    <3>2. Meets(c, request, m, ok)
      BY <2>1, <2>2, <3>1
    <3> QED BY <1>5, <2>1, <2>2, <3>2
  <2> QED BY <1>1, <2>1, <2>2, StepFrame
<1>6. \A c : c_cmd'[c] = c_cmd[c] =>
          /\ RequestOf(c) = "OPEN_CONN_REQUEST" /\ c_cmd[c] \in Typed => c_cmd'[c] = "open"
          /\ RequestOf(c) = "QUIT_REQUEST" /\ c_cmd[c] \in Typed => c_cmd'[c] = "quit"
          /\ RequestOf(c) = "LIST_REQUEST" /\ c_cmd[c] \in Typed => c_cmd'[c] = "ls"
          /\ RequestOf(c) = "CHANGE_DIR_REQUEST" /\ c_cmd[c] \in Typed => c_cmd'[c] = "cd"
          /\ RequestOf(c) = "GET_REQUEST" /\ c_cmd[c] \in Typed => c_cmd'[c] = "get"
          /\ RequestOf(c) = "PUT_REQUEST" /\ c_cmd[c] \in Typed => c_cmd'[c] = "put"
  BY DEF RequestOf, Request, Typed
<1>7. CASE handle_open_conn_request(t)
  <2>1. Replies(t, "OPEN_CONN_REQUEST", Answer("OPEN_CONN_REPLY", "STATUS_OK"), "request", "close")
    BY <1>7 DEF handle_open_conn_request, Answer
  <2>2. Answer("OPEN_CONN_REPLY", "STATUS_OK") = OpenAnswer
    BY DEF Answer, OpenAnswer
  <2>3. \A c \in Clients :
           Meets(c, "OPEN_CONN_REQUEST", Answer("OPEN_CONN_REPLY", "STATUS_OK"), "request")
              => Answered(c, t)'
    BY <1>6, <2>2 DEF Answered, OpenAnswered
  <2> QED BY <1>3, <1>4, <1>5, <2>1, <2>3
<1>8. CASE handle_quit_request(t)
  <2>1. Replies(t, "QUIT_REQUEST", Answer("QUIT_REPLY", "STATUS_UNUSED"), "close", "close")
    BY <1>8 DEF handle_quit_request, AfterQuit, Answer
  <2>2. \A c \in Clients :
           Meets(c, "QUIT_REQUEST", Answer("QUIT_REPLY", "STATUS_UNUSED"), "close")
              => Answered(c, t)'
    BY <1>6 DEF Answered, QuitAnswered, Over
  <2> QED BY <1>3, <1>4, <1>5, <2>1, <2>2
<1>9. CASE handle_ls_request(t)
  <2> DEFINE l == Listing(t_dir[t])
             m == Header("LIST_REPLY", "STATUS_UNUSED", Len(l))
  <2>1. /\ Replies(t, "LIST_REQUEST", m, "listing", "close")
        /\ t_buf' = [t_buf EXCEPT ![t] = l]
    BY <1>9 DEF handle_ls_request, ListingLen
  <2>2. \A c \in Clients : Meets(c, "LIST_REQUEST", m, "listing") => c_cmd[c] = "ls"
    BY <1>6
  <2>3. ASSUME NEW c \in Clients, c_sock[c] = t, c_cmd[c] = "ls"
        PROVE  l \in Seq(Units) /\ Len(l) \in 2 .. Longest
    <3>1. "ls" \in Commands[c]
      BY <2>3, Connected DEF Typing
    <3>2. Listed(t_dir[t]) /\ t_dir[t] \in Dirs
      BY <1>2, <3>1 DEF StepInv, Handlers
    <3> QED BY <3>2, ListingLong
  <2>4. m \in Seq(Units)
    <3>1. Len(l) \in 0 .. Longest
      BY <1>2, ListingShort, ShortUnits DEF Handlers, Orderly
    <3> QED BY <1>4, <3>1, HeaderUnits
  <2> HIDE DEF m, l
  <2>5. ASSUME NEW c \in Clients, Meets(c, "LIST_REQUEST", m, "listing")
        PROVE  Answered(c, t)'
    <3>1. t_buf'[t] = l /\ Unanswered(t)' = l /\ ToCome(t)' = m \o l
      BY <1>2, <2>1, <2>5 DEF Unanswered, ToCome
    <3>2. l \in Seq(Units) /\ Len(l) \in 2 .. Longest
      BY <2>2, <2>3, <2>5
    <3>3. l \in Tails(m \o l)
      BY <2>4, <3>2, TailOf
    <3>4. l # <<>>
      BY <3>2, NoUnits
    <3>5. c_cmd'[c] = "ls"
      BY <1>6, <2>5
    <3>6. LsAnswered(c, t)'
      BY <2>5, <3>1, <3>2, <3>3, <3>4, <3>5 DEF LsAnswered, Tails, m
    <3> QED BY <2>5, <3>6 DEF Answered
  <2> QED BY <1>5, <2>1, <2>4, <2>5
<1>10. CASE handle_cd_request(t)
  <2> DEFINE there == <<t_dir[t], t_name[t]>> \in Subdirs
  <2>1. Replies(t, "CHANGE_DIR_REQUEST", Answer("CHANGE_DIR_REPLY", StatusOf(there)),
                "request", "close")
    BY <1>10 DEF handle_cd_request, Answer
  <2>2. \A c \in Clients :
           Meets(c, "CHANGE_DIR_REQUEST", Answer("CHANGE_DIR_REPLY", StatusOf(there)), "request")
              => Answered(c, t)'
    <3>1. there \in BOOLEAN
      OBVIOUS
    <3> HIDE DEF there
    <3> QED BY <1>6, <3>1 DEF Answered, CdAnswered, Answer, StatusOf
  <2> QED BY <1>3, <1>4, <1>5, <2>1, <2>2
<1>11. CASE handle_get(t)
  <2> DEFINE m == Answer("GET_REPLY", StatusOf(FileThere(t)))
  <2>1. PICK ok : ok = IF FileThere(t) THEN "readFile" ELSE "request"
    OBVIOUS
  <2>2. /\ Replies(t, "GET_REQUEST", m, ok, "request")
        /\ t_buf' = [t_buf EXCEPT ![t] = <<>>] /\ t_dir' = t_dir /\ files' = files
    BY <1>11, <2>1 DEF handle_get, Answer, Replies
  <2>3. ASSUME NEW c \in Clients, Meets(c, "GET_REQUEST", m, ok) PROVE Answered(c, t)'
    <3>1. c_cmd'[c] = "get"
      BY <1>6, <2>3
    <3>2. CASE ~FileThere(t)
      <4>1. GetRefused(c, t)'
        BY <2>1, <2>3, <3>1, <3>2 DEF GetRefused, StatusOf, Answer
      <4> QED BY <2>3, <4>1 DEF Answered
    <3>3. CASE FileThere(t)
      <4>1. t_name'[t] = c_arg'[c] /\ t_buf'[t] = <<>>
        BY <1>2, <2>2, <2>3, <3>1 DEF Naming
      <4>2. TheFile(c, t)' \in Mixed
        <5>1. FileOf(t) \in Files /\ files[FileOf(t)] # NoFile
          BY <3>3 DEF FileThere
        <5>2. t_name'[t] = t_name[t]
          BY <2>2 DEF Replies
        <5>3. TheFile(c, t)' = files[FileOf(t)]
          BY <2>2, <4>1, <5>2 DEF TheFile, FileOf
        <5> QED BY <1>2, <5>1, <5>3
      <4>3. Len(TheFile(c, t)') \in Nat
        BY <4>2, MixedShort, ShortUnits
      <4>4. Len(<<>>) =< Len(TheFile(c, t)') /\ <<>> = First(TheFile(c, t)', Len(<<>>))
        BY <4>3, SubSeqEmpty DEF First
      <4>5. GetBegun(c, t)'
        BY <2>1, <2>3, <3>1, <3>3, <4>1, <4>4 DEF GetBegun, StatusOf, Answer
      <4> QED BY <2>3, <4>5 DEF Answered
    <3> QED BY <3>2, <3>3
  <2>4. m \in Seq(Units)
    BY <1>3, <1>4
  <2> QED BY <1>5, <2>2, <2>3, <2>4
<1>12. CASE handle_put(t)
  <2>1. Replies(t, "PUT_REQUEST", Answer("PUT_REPLY", "STATUS_UNUSED"), "putHeader", "close")
    BY <1>12 DEF handle_put, Answer
  <2>2. \A c \in Clients :
           Meets(c, "PUT_REQUEST", Answer("PUT_REPLY", "STATUS_UNUSED"), "putHeader")
              => Answered(c, t)'
    BY <1>6 DEF Answered, PutAnswered, Naming
  <2> QED BY <1>3, <1>4, <1>5, <2>1, <2>2
<1>13. ~handle_sha256(t)
  <2>1. t_cmd[t] # "SHA_REQUEST"
    BY DEF Smooth, OrderlyInv, FramesInv, ThreadInv, ThreadInPlace
  <2> QED BY <2>1 DEF handle_sha256, Replies
<1> QED BY <1>7, <1>8, <1>9, <1>10, <1>11, <1>12, <1>13

(* A get that is under way: the thread reads the file unit by unit.        *)
LEMMA FirstLonger ==
    ASSUME NEW s \in Seq(Units), NEW n \in Nat, n < Len(s)
    PROVE  First(s, n + 1) = Append(First(s, n), s[n + 1])
<1>1. n + 1 \in 1 .. Len(s) /\ n \in 0 .. Len(s) /\ n + 1 \in 0 .. Len(s) /\ Len(s) \in Nat
  BY LenProperties
<1>2. \A i \in 1 .. Len(s) : s[i] \in Units
  BY ElementOfSeq
<1>3. First(s, n) \in Seq(Units) /\ Len(First(s, n)) = n
  BY <1>1, Split
<1>4. First(s, n + 1) \in Seq(Units) /\ Len(First(s, n + 1)) = n + 1
  BY <1>1, Split
<1>5. \A i \in 1 .. n : First(s, n)[i] = s[i]
  <2>1. \A i \in 1 .. n : SubSeq(s, 1, n)[i] = s[1 + i - 1]
    BY <1>1, <1>2, SubSeqProperties
  <2> QED BY <1>1, <2>1 DEF First
<1>6. \A i \in 1 .. n + 1 : First(s, n + 1)[i] = s[i]
  <2>1. \A i \in 1 .. n + 1 : SubSeq(s, 1, n + 1)[i] = s[1 + i - 1]
    BY <1>1, <1>2, SubSeqProperties
  <2> QED BY <1>1, <2>1 DEF First
<1> DEFINE a == Append(First(s, n), s[n + 1])
<1>7. /\ a \in Seq(Units) /\ Len(a) = n + 1
      /\ \A i \in 1 .. n : a[i] = First(s, n)[i]
      /\ a[n + 1] = s[n + 1]
  BY <1>1, <1>2, <1>3, AppendProperties
<1> HIDE DEF a
<1>8. \A i \in 1 .. n + 1 : First(s, n + 1)[i] = a[i]
  <2>1. \A i \in 1 .. n + 1 : i \in 1 .. n \/ i = n + 1
    OBVIOUS
  <2> QED BY <1>5, <1>6, <1>7, <2>1
<1> QED BY <1>4, <1>7, <1>8, SeqEqual DEF a

LEMMA ReadFileStays ==
    ASSUME Smooth, OrderlyInv, StepInv, NEW t \in Conns, UNCHANGED clientVars, ReadFile(t)
    PROVE  StepInv'
<1> DEFINE content == files[FileOf(t)]
           b == t_buf[t]
<1>1. OthersAlone(t)
  BY ThreadAlone DEF ThreadStep
<1>2. /\ t_pc[t] = "readFile" /\ Handlers /\ Streams /\ t_pc \in [Conns -> ServerPlaces]
      /\ t_buf \in [Conns -> Short]
      /\ UNCHANGED <<c2s, s2c, t_dir, t_got, t_cmd, t_name, t_len, files>>
      /\ IF Len(content) > Len(b)
         THEN t_buf' = [t_buf EXCEPT ![t] = Append(@, content[Len(@) + 1])] /\ t_pc' = t_pc
         ELSE t_pc' = [t_pc EXCEPT ![t] = "dataHeader"] /\ t_buf' = t_buf
  BY FunctionsOf DEF ReadFile, WithFile, wire, Jump
<1>3. /\ content \in Mixed /\ b \in Mixed /\ t_got[t] = <<>>
  BY <1>2 DEF OrderlyInv, FramesInv, ThreadInv, ThreadInPlace, RecvPlaces
<1>4. /\ content \in Seq(Units) /\ Len(content) \in Nat
      /\ b \in Short /\ b \in Seq(Units) /\ Len(b) \in Nat
  BY <1>3, MixedShort, ShortUnits
<1>5. ASSUME NEW c \in Clients, c_sock[c] = t, Paired(c, t) PROVE Paired(c, t)'
  <2>1. UNCHANGED <<c_pc, c_cmd, c_arg, c_ret, c_files>>
    BY DEF clientVars
  <2>2. c_pc[c] \in {"reply", "header"} /\ GetBegun(c, t) /\ Ahead(c, t) = <<>>
    <3>1. ~Storing(c, t) /\ ~Asking(c, t) /\ \A v : ~Ready(c, t, v)
      BY <1>2 DEF Storing, Ready, Asking
    <3>2. c_pc[c] \in ClientPlaces
      BY TypesOf DEF ClientTypeOK
    <3>3. Answered(c, t)
      BY <1>5, <3>1, <3>2 DEF Paired, ClientPlaces
    <3> QED BY <1>2, <3>3
            DEF Answered, OpenAnswered, QuitAnswered, CdAnswered, PutAnswered, LsAnswered,
                GetRefused, GetBegun, GetAnswered, Over
  <2>3. Ahead(c, t)' = <<>> /\ TheFile(c, t)' = TheFile(c, t)
    BY <1>2, <2>1, <2>2 DEF Ahead, Unsent, NameOf, FileMessage, TheFile
  <2>4. Sole => content = TheFile(c, t) /\ Len(b) =< Len(content) /\ b = First(content, Len(b))
    BY <2>2 DEF GetBegun, TheFile, FileOf
  <2> HIDE DEF content
  <2>5. CASE Len(content) > Len(b)
    <3>1. t_buf'[t] = Append(b, content[Len(b) + 1]) /\ t_pc'[t] = "readFile"
      BY <1>2, <2>5
    <3>2. Len(t_buf'[t]) = Len(b) + 1
      <4>1. content[Len(b) + 1] \in Units
        BY <1>4, <2>5, ElementOfSeq
      <4> QED BY <1>4, <3>1, <4>1, AppendProperties
    <3>3. Sole => /\ t_name'[t] = c_arg'[c] /\ Len(t_buf'[t]) =< Len(TheFile(c, t)')
                  /\ t_buf'[t] = First(TheFile(c, t)', Len(t_buf'[t]))
      <4> SUFFICES ASSUME Sole
                   PROVE  /\ t_name'[t] = c_arg'[c] /\ Len(t_buf'[t]) =< Len(content)
                          /\ t_buf'[t] = First(content, Len(t_buf'[t]))
        BY <2>3, <2>4
      <4>1. t_name'[t] = c_arg'[c]
        BY <1>2, <2>1, <2>2 DEF GetBegun
      <4>2. Len(t_buf'[t]) =< Len(content)
        BY <1>4, <2>5, <3>2
      <4>3. First(content, Len(b) + 1) = Append(First(content, Len(b)), content[Len(b) + 1])
        BY <1>4, <2>5, FirstLonger
      <4> QED BY <2>4, <3>1, <3>2, <4>1, <4>2, <4>3
    <3>4. GetBegun(c, t)'
      BY <1>2, <2>1, <2>2, <3>1, <3>3 DEF GetBegun, Answer
    <3> QED BY <2>1, <2>2, <2>3, <3>4 DEF Paired, Answered
  <2>6. CASE Len(content) =< Len(b)
    <3> DEFINE m == Header("FILE_DATA", "STATUS_UNUSED", Len(b))
               a == s2c[t]
    <3>1. t_buf'[t] = b /\ t_pc'[t] = "dataHeader"
      BY <1>2, <1>4, <2>6
    <3>2. ToCome(t)' = a \o FileMessage(b)
      BY <1>2, <3>1 DEF ToCome, Unanswered
    <3>3. a \in Seq(Units) /\ m \in Seq(Units) /\ FileMessage(b) = m \o b /\ FileMessage(b) \in Seq(Units)
      BY <1>2, <1>4, FileMessageUnits DEF Streams
    <3>4. b \in Tails(ToCome(t)')
      <4> HIDE DEF m, a, b
      <4>1. (a \o m) \o b = a \o (m \o b) /\ a \o m \in Seq(Units)
        BY <1>4, <3>3, Chained, JoinedUnits
      <4>2. b \in Tails((a \o m) \o b)
        BY <1>4, <4>1, TailOf
      <4> QED BY <3>2, <3>3, <4>1, <4>2
    <3>5. ToCome(t)' = IF c_pc[c] = "reply" THEN Answer("GET_REPLY", "STATUS_OK") \o FileMessage(b)
                                            ELSE FileMessage(b)
      <4>1. a = IF c_pc[c] = "reply" THEN Answer("GET_REPLY", "STATUS_OK") ELSE <<>>
        BY <2>2 DEF GetBegun
      <4>2. <<>> \o FileMessage(b) = FileMessage(b)
        BY <3>3, NoUnits
      <4> QED BY <3>2, <4>1, <4>2
    <3>6. Sole => b = TheFile(c, t)'
      <4> SUFFICES ASSUME Sole PROVE b = content
        BY <2>3, <2>4
      <4>1. Len(b) = Len(content)
        BY <1>4, <2>4, <2>6
      <4>2. First(content, Len(content)) = content
        BY <1>4, SubSeqFull DEF First
      <4> QED BY <2>4, <4>1, <4>2
    <3>7. c_cmd[c] = "get"
      BY <2>2 DEF GetBegun
    <3> HIDE DEF b
    <3>8. GetAnswered(c, t)'
      <4>1. /\ b \in Tails(ToCome(t))' /\ b \in Short
            /\ ToCome(t)' = CASE c_pc'[c] = "reply" -> Answer("GET_REPLY", "STATUS_OK") \o FileMessage(b)
                             [] c_pc'[c] = "header" -> FileMessage(b)
                             [] c_pc'[c] = "body" -> b
            /\ c_pc'[c] = "body" => c_len'[c] = Len(b)
            /\ Sole => b = TheFile(c, t)'
        BY <1>4, <2>1, <2>2, <3>4, <3>5, <3>6 DEF Tails
      <4> QED BY <2>1, <2>2, <3>1, <3>7, <4>1 DEF GetAnswered, Answer, FileMessage, Sole
    <3> QED BY <2>1, <2>2, <2>3, <3>8 DEF Paired, Answered
  <2> QED BY <1>4, <2>5, <2>6
<1>6. ReadingOn(t)'
  BY <1>2, <1>3 DEF ReadingOn
<1> QED BY <1>1, <1>2, <1>5, <1>6, StepFrame

(* Sending what it has to send does not change what is to come.            *)
LEMMA SendMoves ==
    ASSUME OrderlyInv, NEW t \in Conns, UNCHANGED clientVars,
           NEW c \in Clients, c_sock[c] = t, Paired(c, t),
           t_pc[t] \in {"dataHeader", "dataBody", "listing"}, t_pc'[t] \in {"dataBody", "request"},
           t_pc'[t] = "dataBody" => t_pc[t] = "dataHeader" /\ t_buf'[t] # <<>>,
           UNCHANGED <<c2s, t_got, t_dir, t_buf, files>>, ToCome(t)' = ToCome(t)
    PROVE  Paired(c, t)'
<1>1. UNCHANGED <<c_pc, c_cmd, c_arg, c_len, c_files>>
  BY DEF clientVars
<1>2. ~Storing(c, t) /\ ~Asking(c, t) /\ \A v : ~Ready(c, t, v)
  BY DEF Storing, Ready, Asking
<1>3. c_pc[c] \in ClientPlaces
  BY TypesOf DEF ClientTypeOK
<1>4. c_pc[c] \in {"reply", "header", "body"} /\ Answered(c, t)
  BY <1>2, <1>3 DEF Paired, ClientPlaces
<1>5. Ahead(c, t) = <<>> /\ (LsAnswered(c, t) \/ GetAnswered(c, t))
  BY <1>4 DEF Answered, OpenAnswered, QuitAnswered, CdAnswered, PutAnswered,
              GetRefused, GetBegun, Over
<1>6. Ahead(c, t)' = <<>> /\ TheFile(c, t)' = TheFile(c, t)
  BY <1>1, <1>5 DEF Ahead, Unsent, NameOf, FileMessage, TheFile
<1>7. LsAnswered(c, t) => LsAnswered(c, t)'
  BY <1>1 DEF LsAnswered
<1>8. GetAnswered(c, t) => GetAnswered(c, t)'
  BY <1>1, <1>6 DEF GetAnswered
<1> QED BY <1>1, <1>4, <1>5, <1>6, <1>7, <1>8 DEF Paired, Answered

LEMMA SendsStay ==
    ASSUME Smooth, OrderlyInv, StepInv, NEW t \in Conns, UNCHANGED clientVars,
           SendDataHeader(t) \/ SendDataBody(t) \/ SendListing(t)
    PROVE  StepInv'
<1> DEFINE b == t_buf[t]
           m == Header("FILE_DATA", "STATUS_UNUSED", Len(b))
<1>1. OthersAlone(t)
  BY ThreadAlone DEF ThreadStep
<1>2. /\ Handlers /\ Streams /\ t_pc \in [Conns -> ServerPlaces]
      /\ t_buf \in [Conns -> Short] /\ t_pc[t] \in {"dataHeader", "dataBody", "listing"}
      /\ UNCHANGED <<t_dir, t_cmd, t_name, t_len, t_buf, files>>
  BY FunctionsOf DEF SendDataHeader, SendDataBody, SendListing, handler
<1>3. s2c[t] \in Seq(Units) /\ b \in Seq(Units) /\ b \in Short
  BY <1>2, ShortUnits DEF Streams
<1>4. PICK units \in Seq(Units), ok \in {"dataBody", "request"} :
         /\ \E bad, closes : ServerSends(t, units, ok, bad, closes)
         /\ ok = "dataBody" => t_pc[t] = "dataHeader" /\ b # <<>>
         /\ Unanswered(t) = units \o (IF ok = "dataBody" THEN b ELSE <<>>)
  <2>1. CASE SendDataHeader(t)
    <3>1. /\ t_pc[t] = "dataHeader"
          /\ ServerSends(t, m, IF b = <<>> THEN "request" ELSE "dataBody", Then(t), TRUE)
      BY <2>1 DEF SendDataHeader
    <3>2. Unanswered(t) = m \o b /\ m \in Seq(Units)
      BY <1>3, <3>1, FileMessageUnits DEF Unanswered
    <3>3. Unanswered(t) = m \o (IF b = <<>> THEN <<>> ELSE b)
      BY <3>2
    <3> HIDE DEF m, b
    <3>4. CASE b = <<>>
      BY <3>1, <3>2, <3>3, <3>4
    <3>5. CASE b # <<>>
      BY <3>1, <3>2, <3>3, <3>5
    <3> QED BY <3>4, <3>5
  <2>2. CASE SendDataBody(t)
    <3>1. t_pc[t] = "dataBody" /\ ServerSends(t, b, "request", Then(t), TRUE)
      BY <2>2 DEF SendDataBody
    <3>2. Unanswered(t) = b \o <<>>
      BY <1>3, <3>1, NoUnits DEF Unanswered
    <3> QED BY <1>3, <3>1, <3>2
  <2>3. CASE SendListing(t)
    <3>1. t_pc[t] = "listing" /\ ServerSends(t, b, "request", "close", TRUE)
      BY <2>3 DEF SendListing
    <3>2. Unanswered(t) = b \o <<>>
      BY <1>3, <3>1, NoUnits DEF Unanswered
    <3> QED BY <1>3, <3>1, <3>2
  <2> QED BY <2>1, <2>2, <2>3
<1>5. /\ s2c' = [s2c EXCEPT ![t] = @ \o units] /\ t_pc' = [t_pc EXCEPT ![t] = ok]
      /\ UNCHANGED <<c2s, t_got>>
  BY <1>2, <1>4, SendsWell DEF SendPlaces
<1>6. s2c'[t] = s2c[t] \o units /\ t_pc'[t] = ok
  BY <1>2, <1>5 DEF Streams
<1>7. ToCome(t)' = ToCome(t)
  <2> DEFINE r == IF ok = "dataBody" THEN b ELSE <<>>
  <2>1. Unanswered(t)' = r
    BY <1>2, <1>4, <1>6 DEF Unanswered
  <2>2. r \in Seq(Units)
    BY <1>3, NoUnits
  <2> HIDE DEF r
  <2>3. (s2c[t] \o units) \o r = s2c[t] \o (units \o r)
    BY <1>3, <1>4, <2>2, Chained
  <2>4. Unanswered(t) = units \o r
    BY <1>4 DEF r
  <2> QED BY <1>6, <2>1, <2>3, <2>4 DEF ToCome
<1>8. ReadingOn(t)'
  <2>1. t_got'[t] = <<>>
    BY <1>2, <1>5 DEF OrderlyInv, FramesInv, ThreadInv, ThreadInPlace, RecvPlaces
  <2> QED BY <2>1 DEF ReadingOn
<1>9. ASSUME NEW c \in Clients, c_sock[c] = t, Paired(c, t) PROVE Paired(c, t)'
  BY <1>2, <1>4, <1>5, <1>6, <1>7, <1>9, SendMoves
<1> QED BY <1>1, <1>2, <1>8, <1>9, StepFrame

(* The end of a thread that has answered quit                              *)
LEMMA CloseStays ==
    ASSUME Smooth, OrderlyInv, StepInv, NEW t \in Conns, UNCHANGED clientVars, CloseFd(t)
    PROVE  StepInv'
<1>1. OthersAlone(t)
  BY ThreadAlone DEF ThreadStep
<1>2. /\ t_pc[t] = "close" /\ t_pc'[t] = "ended" /\ UNCHANGED <<c2s, s2c, t_got, files>>
  BY FunctionsOf DEF CloseFd, clientSide, Jump
<1>3. ReadingOn(t)'
  BY <1>2 DEF ReadingOn, RecvPlaces
<1>4. ASSUME NEW c \in Clients, c_sock[c] = t, Paired(c, t) PROVE Paired(c, t)'
  <2>1. UNCHANGED <<c_pc, c_cmd, c_arg, c_files>>
    BY DEF clientVars
  <2>2. ~Storing(c, t) /\ ~Asking(c, t) /\ \A v : ~Ready(c, t, v)
    BY <1>2 DEF Storing, Ready, Asking
  <2>3. c_pc[c] \in ClientPlaces
    BY TypesOf DEF ClientTypeOK
  <2>4. Answered(c, t)
    BY <1>4, <2>2, <2>3 DEF Paired, ClientPlaces
  <2>5. Ahead(c, t) = <<>> /\ QuitAnswered(c, t)
    BY <1>2, <2>4 DEF Answered, OpenAnswered, CdAnswered, PutAnswered, LsAnswered,
                      GetRefused, GetBegun, GetAnswered
  <2>6. Ahead(c, t)' = <<>>
    BY <1>2, <2>1, <2>5 DEF Ahead, Unsent, NameOf, FileMessage
  <2>7. QuitAnswered(c, t)'
    BY <1>2, <2>1, <2>5 DEF QuitAnswered, Over, Answer
  <2> QED BY <2>1, <2>5, <2>6, <2>7 DEF Paired, Answered, QuitAnswered
<1> QED BY <1>1, <1>2, <1>3, <1>4, StepFrame

LEMMA AcceptStays ==
    ASSUME Smooth, OrderlyInv, StepInv, UNCHANGED clientVars, Accept
    PROVE  StepInv'
<1>1. /\ Streams /\ Handlers /\ t_pc \in [Conns -> ServerPlaces] /\ t_buf \in [Conns -> Short]
      /\ accepted \in Nat /\ made \in 0 .. MaxConns /\ MaxConns \in Nat
  BY FunctionsOf, FtpWireAssumption DEF OrderlyInv, TypeOK, WireTypeOK
<1>2. PICK t \in Conns : t = accepted + 1
  BY <1>1 DEF Accept, Queued, Conns
<1>3. /\ UNCHANGED <<c2s, s2c, clientEnds, t_dir, t_got, t_cmd, t_name, t_len, t_buf, files>>
      /\ t_pc' = [t_pc EXCEPT ![t] = "request"]
  BY <1>2 DEF Accept, clientSide, handler, Jump
<1>4. UNCHANGED <<c_pc, c_cmd, c_arg, c_sock, c_len, c_ret, c_files>>
  BY DEF clientVars
<1>5. OthersAlone(t)
  BY <1>1, <1>3, <1>4 DEF OthersAlone
<1>6. t_pc[t] = "idle" /\ t_got[t] = <<>> /\ t_pc'[t] = "request"
  <2>1. t > accepted
    BY <1>1, <1>2
  <2> QED BY <1>1, <1>3, <2>1
          DEF OrderlyInv, FramesInv, ThreadInv, HasOwn, ThreadInPlace, RecvPlaces
<1>7. ReadingOn(t)'
  BY <1>3, <1>6 DEF ReadingOn
<1>8. ASSUME NEW c \in Clients, c_sock[c] = t, Paired(c, t) PROVE Paired(c, t)'
  <2>1. ~Storing(c, t) /\ ~Answered(c, t)
    BY <1>6 DEF Storing, Answered, OpenAnswered, QuitAnswered, CdAnswered, PutAnswered, LsAnswered,
                GetRefused, GetBegun, GetAnswered, Over
  <2>2. c_pc[c] \in ClientPlaces
    BY TypesOf DEF ClientTypeOK
  <2>3. c_pc[c] = "reply" /\ s2c[t] = <<>> /\ Ready(c, t, Asked(c))
    BY <1>6, <1>8, <2>1, <2>2 DEF Paired, Ready, Asking, ClientPlaces
  <2>4. Ahead(c, t)' = Ahead(c, t) /\ Asked(c)' = Asked(c)
    BY <1>3, <1>4 DEF Ahead, Unsent, NameOf, FileMessage, Asked, RequestOf
  <2>5. ToStore(c, t) = <<>> /\ ToStore(c, t)' = <<>>
    BY <1>6 DEF ToStore
  <2>6. Asking(c, t)'
    BY <1>3, <1>6, <2>3, <2>4, <2>5 DEF Asking, Ready
  <2> QED BY <1>4, <2>3, <2>6 DEF Paired
<1> QED BY <1>3, <1>5, <1>7, <1>8, StepFrame

(* All that a thread does                                                  *)
LEMMA ThreadStays ==
    ASSUME Smooth, OrderlyInv, StepInv, NEW t \in Conns, UNCHANGED clientVars,
           ThreadStep(t) \/ BrokenPipe(t)
    PROVE  StepInv'
<1>1. ~(ReadClosedFd(t) \/ ReadReset(t) \/ ReadEof(t) \/ BrokenPipe(t))
  BY ReadsWell
<1>2. ~LsFails(t) /\ ~ReadFileFails(t)
  BY DEF Smooth, LsFails, ReadFileFails
<1>3. ~Sha256Sum(t)
  <2>1. t_cmd[t] # "SHA_REQUEST"
    BY DEF Smooth, OrderlyInv, FramesInv, ThreadInv, ThreadInPlace
  <2> QED BY <2>1 DEF Sha256Sum
<1>4. CASE CloseFd(t)
  BY <1>4, CloseStays
<1>5. CASE EnterRead(t)
  BY <1>5, EnterReadStays
<1>6. CASE ReadPart(t)
  BY <1>6, ReadPartStays
<1>7. CASE ReadRequest(t)
  BY <1>7, ReadRequestStays
<1>8. CASE ReadPayload(t)
  BY <1>8, ReadPayloadStays
<1>9. CASE ReadPutHeader(t)
  BY <1>9, ReadPutHeaderStays
<1>10. CASE ReadPutBody(t)
  BY <1>10, ReadPutBodyStays
<1>11. CASE \/ handle_open_conn_request(t) \/ handle_quit_request(t) \/ handle_ls_request(t)
            \/ handle_cd_request(t) \/ handle_get(t) \/ handle_put(t) \/ handle_sha256(t)
  BY <1>11, HandlersStay
<1>12. CASE ReadFile(t)
  BY <1>12, ReadFileStays
<1>13. CASE SendDataHeader(t) \/ SendDataBody(t) \/ SendListing(t)
  BY <1>13, SendsStay
<1>14. CASE PutOpen(t)
  BY <1>14, PutOpenStays
<1>15. CASE PutWrite(t)
  BY <1>15, PutWriteStays
<1> QED BY <1>1, <1>2, <1>3, <1>4, <1>5, <1>6, <1>7, <1>8, <1>9, <1>10, <1>11, <1>12, <1>13,
           <1>14, <1>15 DEF ThreadStep
-----------------------------------------------------------------------------
(* The steps of a client.  Those of others, and their threads, are left    *)
(* alone.                                                                  *)
OthersQuiet(c, k) ==
    /\ UNCHANGED serverVars
    /\ \A d \in Clients \ {c} :
          /\ c_pc'[d] = c_pc[d] /\ c_cmd'[d] = c_cmd[d] /\ c_arg'[d] = c_arg[d]
          /\ c_sock'[d] = c_sock[d] /\ c_len'[d] = c_len[d] /\ c_ret'[d] = c_ret[d]
          /\ c_files'[d] = c_files[d]
          /\ c_sock[d] # k
    /\ \A j \in Conns \ {k} : c2s'[j] = c2s[j] /\ s2c'[j] = s2c[j]
    /\ clientEnds \ {k} \subseteq clientEnds'

LEMMA QuietFrame ==
    ASSUME Smooth, OrderlyInv, StepInv, NEW c \in Clients, NEW k, OthersQuiet(c, k), Typing(c)',
           \A j \in Conns : c_sock'[c] = j => j \in clientEnds' /\ Paired(c, j)'
    PROVE  StepInv'
<1>1. /\ t_pc' = t_pc /\ t_cmd' = t_cmd /\ t_dir' = t_dir /\ t_name' = t_name
      /\ t_len' = t_len /\ t_got' = t_got /\ t_buf' = t_buf /\ files' = files
  BY DEF OthersQuiet, serverVars
<1>2. ASSUME NEW d \in Clients PROVE Smoothly(d)'
  <2>1. CASE d = c
    BY <2>1 DEF Smoothly
  <2>2. CASE d # c
    <3>1. Smoothly(d)
      BY DEF StepInv
    <3>2. /\ c_pc'[d] = c_pc[d] /\ c_cmd'[d] = c_cmd[d] /\ c_arg'[d] = c_arg[d]
          /\ c_sock'[d] = c_sock[d] /\ c_len'[d] = c_len[d] /\ c_ret'[d] = c_ret[d]
          /\ c_files'[d] = c_files[d] /\ c_sock[d] # k
      BY <2>2 DEF OthersQuiet
    <3>3. Typing(d)'
      BY <3>1, <3>2 DEF Smoothly, Typing
    <3>4. ASSUME NEW j \in Conns, c_sock[d] = j PROVE j \in clientEnds' /\ Paired(d, j)'
      <4>1. j \in clientEnds /\ Paired(d, j)
        BY <3>1, <3>4 DEF Smoothly
      <4>2. /\ j # k /\ c2s'[j] = c2s[j] /\ s2c'[j] = s2c[j]
        BY <3>2, <3>4 DEF OthersQuiet
      <4>3. j \in clientEnds'
        BY <4>1, <4>2 DEF OthersQuiet
      <4>4. Ahead(d, j)' = Ahead(d, j)
        BY <1>1, <3>2, <4>2 DEF Ahead, Unsent, NameOf, FileMessage
      <4>5. Same(d, j)
        BY <1>1, <3>2, <4>2, <4>4 DEF Same, SameStore
      <4> QED BY <4>1, <4>3, <4>5, PairedSame
    <3> QED BY <3>2, <3>3, <3>4 DEF Smoothly
  <2> QED BY <2>1, <2>2
<1>3. \A j \in Conns : ReadingOn(j)'
  BY <1>1 DEF StepInv, ReadingOn, Needed
<1>4. (\E d \in Clients : "ls" \in Commands[d]) => \A e \in Dirs : Listed(e)'
  BY <1>1 DEF StepInv, Listed
<1> QED BY <1>2, <1>3, <1>4 DEF StepInv

(* A client acts on its connection, and keeps it.                          *)
LEMMA ClientMoves ==
    ASSUME Smooth, OrderlyInv, StepInv, NEW c \in Clients, NEW k \in Conns, c_sock[c] = k,
           UNCHANGED serverVars, clientEnds' = clientEnds, c_sock' = c_sock,
           \A d \in Clients \ {c} : /\ c_pc'[d] = c_pc[d] /\ c_cmd'[d] = c_cmd[d]
                                    /\ c_arg'[d] = c_arg[d] /\ c_len'[d] = c_len[d]
                                    /\ c_ret'[d] = c_ret[d] /\ c_files'[d] = c_files[d],
           \A j \in Conns \ {k} : c2s'[j] = c2s[j] /\ s2c'[j] = s2c[j],
           Typing(c)', Paired(c, k)'
    PROVE  StepInv'
<1>1. k \in clientEnds /\ k # NoConn /\ owner[k] = c
  BY Connected
<1>2. ASSUME NEW d \in Clients \ {c} PROVE c_sock[d] # k
  BY <1>1, ClientStands
<1>3. OthersQuiet(c, k)
  BY <1>2 DEF OthersQuiet
<1> QED BY <1>1, <1>3, QuietFrame

(* What a client says is what it had still to say.                         *)
LEMMA Says ==
    ASSUME NEW c \in Clients, NEW k \in Conns, Streams, UNCHANGED t_got,
           NEW m \in Seq(Units), c2s'[k] = c2s[k] \o m,
           Unsent(c)' \in Seq(Units)
    PROVE  /\ Ahead(c, k)' = (t_got[k] \o c2s[k]) \o (m \o Unsent(c)')
           /\ Unsent(c) = m \o Unsent(c)' => Ahead(c, k)' = Ahead(c, k)
<1> DEFINE g == t_got[k]
           s == c2s[k]
           u == Unsent(c)'
<1>1. g \in Seq(Units) /\ s \in Seq(Units) /\ u \in Seq(Units)
  BY DEF Streams
<1>2. Ahead(c, k)' = (g \o (s \o m)) \o u
  BY DEF Ahead
<1>3. Ahead(c, k) = (g \o s) \o Unsent(c)
  BY DEF Ahead
<1> HIDE DEF g, s, u
<1>4. g \o (s \o m) = (g \o s) \o m
  BY <1>1, Chained
<1>5. ((g \o s) \o m) \o u = (g \o s) \o (m \o u)
  <2>1. g \o s \in Seq(Units)
    BY <1>1, JoinedUnits
  <2> QED BY <1>1, <2>1, Chained
<1> QED BY <1>2, <1>3, <1>4, <1>5 DEF g, s, u

(* The connection of a client whose thread is still there does not fail.   *)
LEMMA CanSend ==
    ASSUME Smooth, OrderlyInv, StepInv, NEW c \in Clients, NEW k \in Conns, c_sock[c] = k, ~Over(k)
    PROVE  \A cmd : ~CannotSend(c, cmd)
<1>1. k \in clientEnds /\ k # NoConn
  BY Connected
<1>2. ~Reset(k)
  BY <1>1, ClientStands
<1> QED BY <1>1, <1>2 DEF CannotSend

LEMMA NotOver ==
    ASSUME NEW c \in Clients, NEW k \in Conns
    PROVE  /\ Asking(c, k) => ~Over(k)
           /\ \A v : Ready(c, k, v) => ~Over(k)
           /\ Storing(c, k) => ~Over(k)
BY DEF Asking, Ready, Storing, Over

LEMMA CommandStays ==
    ASSUME Smooth, OrderlyInv, StepInv, UNCHANGED serverVars, NEW c \in Clients,
           NEW cmd \in {"ls", "cd", "get", "put", "quit"}, NEW n \in {0, 1}, Command(c, cmd, n),
           n = 1 <=> cmd \in Naming, cmd = "quit" \/ cmd \in Commands[c],
           NEW a, c_arg' = [c_arg EXCEPT ![c] = a],
           cmd = "cd" => a \in Dirs, cmd \in {"get", "put"} => a \in FileNames
    PROVE  StepInv'
<1> DEFINE m == Header(Request(cmd), "STATUS_UNUSED", n)
<1>0. PICK k \in Conns : c_sock[c] = k
  BY TypesOf DEF Command, ClientTypeOK
<1>1. c_pc[c] = "prompt" /\ ClientTypeOK /\ Streams
  BY TypesOf DEF Command
<1>2. /\ k \in clientEnds /\ Paired(c, k) /\ Unsent(c) = <<>>
      /\ t_got[k] \in Seq(Units) /\ c2s[k] \in Seq(Units)
  BY <1>0, <1>1, Connected DEF Unsent
<1>3. s2c[k] = <<>> /\ Ready(c, k, <<>>)
  BY <1>1, <1>2 DEF Paired
<1>4. ~CannotSend(c, cmd)
  BY <1>0, <1>1, <1>3, NotOver, CanSend
<1>5. /\ c2s' = [c2s EXCEPT ![k] = @ \o m] /\ c_sock' = c_sock /\ clientEnds' = clientEnds
      /\ c_pc' = [c_pc EXCEPT ![c] = IF n = 0 THEN "reply" ELSE "name"] /\ c_ret' = c_ret
      /\ c_cmd' = [c_cmd EXCEPT ![c] = cmd]
      /\ UNCHANGED <<c_len, c_files, s2c>>
  BY <1>0, <1>4 DEF Command, ClientSends, Goto
<1>6. /\ c_cmd'[c] = cmd /\ c_arg'[c] = a /\ c2s'[k] = c2s[k] \o m /\ s2c'[k] = <<>>
      /\ c_pc'[c] = IF n = 0 THEN "reply" ELSE "name"
  BY <1>1, <1>3, <1>5 DEF ClientTypeOK, Streams
<1>7. /\ t_pc' = t_pc /\ t_got' = t_got /\ t_name' = t_name /\ t_len' = t_len /\ t_buf' = t_buf
      /\ t_dir' = t_dir /\ files' = files
  BY DEF serverVars
<1>8. Typing(c)'
  BY <1>6 DEF Typing
<1>9. m \in Seq(Units)
  <2>1. 0 \in 0 .. Longest /\ 1 \in 0 .. Longest
    BY FtpWireAssumption DEF Smooth, Orderly, Longest, HeaderLen
  <2>2. Request(cmd) \in Types /\ "STATUS_UNUSED" \in Statuses
    BY DEF Request, Types, Statuses
  <2> QED BY <2>1, <2>2, HeaderUnits
<1>10. Asked(c)' = m \o Unsent(c)' /\ Unsent(c)' \in Seq(Units)
  <2>1. RequestOf(c)' = Request(cmd)
    BY <1>6 DEF RequestOf
  <2>2. CASE n = 1
    <3>1. Unsent(c)' = <<Data(a)>> /\ Asked(c)' = m \o <<Data(a)>>
      BY <1>6, <2>1, <2>2 DEF Unsent, Asked, NameOf
    <3>2. a \in FileNames \union Dirs
      BY <2>2 DEF Naming
    <3> QED BY <3>1, <3>2, NameUnits
  <2>3. CASE n = 0
    <3>1. Unsent(c)' = <<>> /\ Asked(c)' = m
      BY <1>6, <2>1, <2>3 DEF Unsent, Asked
    <3> QED BY <1>9, <3>1, NoUnits
  <2> QED BY <2>2, <2>3
<1> HIDE DEF m
<1>11. Ahead(c, k)' = ToStore(c, k) \o Asked(c)'
  <2>1. Ahead(c, k)' = (t_got[k] \o c2s[k]) \o (m \o Unsent(c)')
    BY <1>1, <1>6, <1>7, <1>9, <1>10, Says
  <2>2. t_got[k] \o c2s[k] = ToStore(c, k)
    <3>1. t_got[k] \o c2s[k] \in Seq(Units)
      BY <1>2, JoinedUnits
    <3>2. (t_got[k] \o c2s[k]) \o <<>> = ToStore(c, k) \o <<>>
      BY <1>2, <1>3 DEF Ready, Ahead
    <3>3. ToStore(c, k) \in Seq(Units)
      <4>1. CASE Storing(c, k)
        BY <1>1, <4>1, StoringUnits
      <4>2. CASE ~Storing(c, k)
        <5>1. t_pc[k] \in {"idle", "request"}
          BY <1>3, <4>2 DEF Ready
        <5>2. ToStore(c, k) = <<>>
          BY <5>1 DEF ToStore
        <5> QED BY <5>2, NoUnits
      <4> QED BY <4>1, <4>2
    <3> QED BY <3>1, <3>2, <3>3, NoUnits
  <2> QED BY <1>10, <2>1, <2>2
<1>12. /\ Storing(c, k)' <=> Storing(c, k)
       /\ ToStore(c, k)' = ToStore(c, k)
  <2>1. SameStore(c, k)
    BY <1>5, <1>7 DEF SameStore
  <2> QED BY <1>1, <2>1, StoringSame
<1>13. Ready(c, k, Asked(c))'
  <2>1. t_pc[k] = "request" \/ Storing(c, k)
    BY <1>1, <1>3 DEF Ready
  <2> QED BY <1>7, <1>11, <1>12, <2>1 DEF Ready
<1>14. Paired(c, k)'
  BY <1>6, <1>13 DEF Paired, Asking
<1>15. /\ \A d \in Clients \ {c} : /\ c_pc'[d] = c_pc[d] /\ c_cmd'[d] = c_cmd[d]
                                   /\ c_arg'[d] = c_arg[d] /\ c_len'[d] = c_len[d]
                                   /\ c_ret'[d] = c_ret[d] /\ c_files'[d] = c_files[d]
       /\ \A j \in Conns \ {k} : c2s'[j] = c2s[j] /\ s2c'[j] = s2c[j]
  BY <1>1, <1>5 DEF ClientTypeOK, Streams
<1> QED BY <1>0, <1>1, <1>5, <1>8, <1>14, <1>15, ClientMoves

LEMMA CommandsStay ==
    ASSUME Smooth, OrderlyInv, StepInv, UNCHANGED serverVars, NEW c \in Clients,
           Quit(c) \/ Ls(c) \/ Cd(c) \/ Get(c) \/ Put(c) \/ Sha256(c)
    PROVE  StepInv'
<1>1. c_arg = [c_arg EXCEPT ![c] = c_arg[c]]
  BY TypesOf DEF ClientTypeOK
<1>2. CASE Quit(c)
  BY <1>1, <1>2, CommandStays DEF Quit, Naming
<1>3. CASE Ls(c)
  BY <1>1, <1>3, CommandStays DEF Ls, Naming
<1>4. CASE Cd(c)
  BY <1>4, CommandStays DEF Cd, Naming
<1>5. CASE Get(c)
  BY <1>5, CommandStays DEF Get, NamesFile, Naming
<1>6. CASE Put(c)
  BY <1>6, CommandStays DEF Put, NamesFile, Naming
<1>7. ~Sha256(c)
  BY DEF Sha256, NamesFile, Smooth, DigestsAsked
<1> QED BY <1>2, <1>3, <1>4, <1>5, <1>6, <1>7

(* The other sends: what is ahead of the thread does not change.           *)
LEMMA SayingStays ==
    ASSUME Smooth, OrderlyInv, StepInv, UNCHANGED serverVars, NEW c \in Clients, NEW k \in Conns,
           c_sock[c] = k, NEW m \in Seq(Units), ClientSends(c, m),
           NEW place \in ClientPlaces, c_pc' = [c_pc EXCEPT ![c] = place],
           c_ret' = c_ret \/ \E r : c_ret' = [c_ret EXCEPT ![c] = r],
           UNCHANGED <<c_cmd, c_arg, c_len, c_files, s2c>>,
           Unsent(c)' \in Seq(Units), Unsent(c) = m \o Unsent(c)',
           (/\ Ahead(c, k)' = Ahead(c, k) /\ ToStore(c, k)' = ToStore(c, k)
            /\ Storing(c, k)' <=> Storing(c, k)
            /\ c_pc'[c] = place) => Paired(c, k)'
    PROVE  StepInv'
<1>1. ClientTypeOK /\ Streams /\ Typing(c)
  BY Connected, TypesOf
<1>2. c2s' = [c2s EXCEPT ![k] = @ \o m] /\ c_sock' = c_sock /\ clientEnds' = clientEnds
  BY DEF ClientSends
<1>3. c2s'[k] = c2s[k] \o m /\ c_pc'[c] = place
  BY <1>1, <1>2 DEF Streams, ClientTypeOK
<1>4. /\ t_pc' = t_pc /\ t_got' = t_got /\ t_name' = t_name /\ t_len' = t_len /\ t_buf' = t_buf
      /\ t_dir' = t_dir /\ files' = files
  BY DEF serverVars
<1>5. Ahead(c, k)' = Ahead(c, k)
  BY <1>1, <1>3, <1>4, Says
<1>6. (Storing(c, k)' <=> Storing(c, k)) /\ ToStore(c, k)' = ToStore(c, k)
  <2>1. SameStore(c, k)
    BY <1>4 DEF SameStore
  <2> QED BY <2>1, StoringSame
<1>7. Paired(c, k)'
  BY <1>3, <1>5, <1>6
<1>8. Typing(c)'
  BY <1>1 DEF Typing
<1>9. /\ \A d \in Clients \ {c} : /\ c_pc'[d] = c_pc[d] /\ c_cmd'[d] = c_cmd[d]
                                  /\ c_arg'[d] = c_arg[d] /\ c_len'[d] = c_len[d]
                                  /\ c_ret'[d] = c_ret[d] /\ c_files'[d] = c_files[d]
      /\ \A j \in Conns \ {k} : c2s'[j] = c2s[j] /\ s2c'[j] = s2c[j]
  BY <1>1, <1>2 DEF ClientTypeOK, Streams
<1> QED BY <1>2, <1>7, <1>8, <1>9, ClientMoves

LEMMA SendNameStays ==
    ASSUME Smooth, OrderlyInv, StepInv, UNCHANGED serverVars, NEW c \in Clients, SendName(c)
    PROVE  StepInv'
<1>1. c_pc[c] = "name" /\ UNCHANGED <<c_cmd, c_arg, c_len, c_files, s2c>>
  BY DEF SendName
<1>2. PICK k \in Conns : c_sock[c] = k
  <2>1. c_sock[c] # NoConn
    BY <1>1 DEF OrderlyInv, FramesInv, SessionInv, OneSocket
  <2> QED BY <2>1, TypesOf DEF ClientTypeOK
<1>3. Paired(c, k) /\ Asking(c, k)
  BY <1>1, <1>2, Connected DEF Paired
<1>4. ClientSends(c, NameOf(c)) /\ c_pc' = [c_pc EXCEPT ![c] = "reply"] /\ c_ret' = c_ret
  <2>1. ~CannotSend(c, c_cmd[c])
    BY <1>2, <1>3, NotOver, CanSend
  <2> QED BY <2>1 DEF SendName, NameOf, Goto
<1>5. c_pc'[c] = "reply"
  BY <1>4, TypesOf DEF ClientTypeOK
<1>6. /\ NameOf(c) \in Seq(Units) /\ Unsent(c)' \in Seq(Units)
      /\ Unsent(c) = NameOf(c) \o Unsent(c)'
  <2>1. NameOf(c) \in Seq(Units)
    BY <1>1, NameUnits DEF NameOf, OrderlyInv, FramesInv, SessionInv, ClientInPlace
  <2>2. Unsent(c) = NameOf(c) /\ Unsent(c)' = <<>>
    BY <1>1, <1>5 DEF Unsent
  <2> QED BY <2>1, <2>2, NoUnits
<1>7. /\ RequestOf(c)' = RequestOf(c) /\ NameOf(c)' = NameOf(c) /\ Asked(c)' = Asked(c)
      /\ t_pc' = t_pc /\ t_cmd' = t_cmd /\ t_name' = t_name /\ t_len' = t_len
  BY <1>1 DEF RequestOf, NameOf, Asked, serverVars
<1>8. (/\ Ahead(c, k)' = Ahead(c, k) /\ ToStore(c, k)' = ToStore(c, k)
       /\ Storing(c, k)' <=> Storing(c, k)) => Paired(c, k)'
  BY <1>1, <1>3, <1>5, <1>7 DEF Asking, Ready, Paired
<1> QED BY <1>1, <1>2, <1>4, <1>6, <1>8, SayingStays DEF ClientPlaces

LEMMA SendFileStays ==
    ASSUME Smooth, OrderlyInv, StepInv, UNCHANGED serverVars, NEW c \in Clients,
           FileHeader(c) \/ FileBody(c)
    PROVE  StepInv'
<1> DEFINE f == c_files[c][c_arg[c]]
           m == Header("FILE_DATA", "STATUS_UNUSED", Len(f))
<1>1. c_pc[c] \in {"fileHeader", "fileBody"} /\ UNCHANGED <<c_cmd, c_arg, c_len, c_files, s2c>>
  BY DEF FileHeader, FileBody
<1>2. PICK k \in Conns : c_sock[c] = k
  <2>1. c_sock[c] # NoConn
    BY <1>1 DEF OrderlyInv, FramesInv, SessionInv, OneSocket
  <2> QED BY <2>1, TypesOf DEF ClientTypeOK
<1>3. /\ s2c[k] = <<>> /\ Ready(c, k, <<>>) /\ Storing(c, k) /\ t_name[k] = c_arg[c]
      /\ c_pc[c] = "fileBody" => f # <<>>
  BY <1>1, <1>2, Connected DEF Paired
<1>4. f \in Short /\ f \in Seq(Units) /\ (Len(f) = 0 <=> f = <<>>)
  <2>1. f \in Short
    BY <1>1, MixedShort DEF OrderlyInv, FramesInv, SessionInv, ClientInPlace
  <2> QED BY <2>1, ShortUnits, NoUnits
<1>5. m \in Seq(Units) /\ FileMessage(f) = m \o f
  BY <1>4, FileMessageUnits
<1>6. /\ t_pc' = t_pc /\ t_name' = t_name
      /\ Storing(c, k) => t_pc[k] # "request"
  BY DEF serverVars, Storing
<1>7. PICK u \in Seq(Units), place \in {"prompt", "fileBody"} :
         /\ ClientSends(c, u) /\ c_pc' = [c_pc EXCEPT ![c] = place]
         /\ c_ret' = c_ret \/ \E r : c_ret' = [c_ret EXCEPT ![c] = r]
         /\ Unsent(c) = u \o (IF place = "fileBody" THEN f ELSE <<>>)
         /\ place = "fileBody" => f # <<>>
  <2>1. ~CannotSend(c, c_cmd[c])
    BY <1>2, <1>3, NotOver, CanSend
  <2>2. CASE FileHeader(c)
    <3>1. /\ ClientSends(c, m)
          /\ c_pc' = [c_pc EXCEPT ![c] = IF Len(f) = 0 THEN "prompt" ELSE "fileBody"]
          /\ c_ret' = c_ret \/ \E r : c_ret' = [c_ret EXCEPT ![c] = r]
      BY <2>1, <2>2 DEF FileHeader, Goto, Return
    <3>2. Unsent(c) = m \o f
      BY <1>5, <2>2 DEF FileHeader, Unsent
    <3> HIDE DEF m, f
    <3>3. CASE f = <<>>
      BY <1>4, <1>5, <3>1, <3>2, <3>3
    <3>4. CASE f # <<>>
      BY <1>4, <1>5, <3>1, <3>2, <3>4
    <3> QED BY <3>3, <3>4
  <2>3. CASE FileBody(c)
    <3>1. /\ ClientSends(c, f) /\ c_pc' = [c_pc EXCEPT ![c] = "prompt"]
          /\ c_ret' = c_ret \/ \E r : c_ret' = [c_ret EXCEPT ![c] = r]
      BY <2>1, <2>3 DEF FileBody, Return
    <3>2. Unsent(c) = f \o <<>>
      BY <1>4, <2>3, NoUnits DEF FileBody, Unsent
    <3> DEFINE place == "prompt"
    <3>3. Unsent(c) = f \o (IF place = "fileBody" THEN f ELSE <<>>)
      BY <3>2
    <3>4. f \in Seq(Units) /\ place \in {"prompt", "fileBody"} /\ (place = "fileBody" => f # <<>>)
      BY <1>4
    <3>5. ClientSends(c, f) /\ c_pc' = [c_pc EXCEPT ![c] = place]
      BY <3>1
    <3> HIDE DEF f, place
    <3> QED BY <3>1, <3>3, <3>4, <3>5
  <2> QED BY <2>2, <2>3
<1>8. c_pc'[c] = place
  BY <1>7, TypesOf DEF ClientTypeOK
<1>9. Unsent(c)' = (IF place = "fileBody" THEN f ELSE <<>>) /\ Unsent(c)' \in Seq(Units)
  BY <1>1, <1>4, <1>8, NoUnits DEF Unsent
<1>10. Unsent(c) = u \o Unsent(c)'
  BY <1>7, <1>9
<1>11. (/\ Ahead(c, k)' = Ahead(c, k) /\ ToStore(c, k)' = ToStore(c, k)
        /\ Storing(c, k)' <=> Storing(c, k)) => Paired(c, k)'
  <2> SUFFICES ASSUME Ahead(c, k)' = Ahead(c, k), ToStore(c, k)' = ToStore(c, k),
                      Storing(c, k)' <=> Storing(c, k)
               PROVE  Paired(c, k)'
    OBVIOUS
  <2>1. Ready(c, k, <<>>)'
    BY <1>3 DEF Ready
  <2>2. Stored(c, k)'
    BY <1>1, <1>3, <1>6 DEF Stored
  <2> QED BY <1>1, <1>3, <1>6, <1>7, <1>8, <2>1, <2>2 DEF Paired
<1> QED BY <1>1, <1>2, <1>7, <1>9, <1>10, <1>11, SayingStays DEF ClientPlaces

(* put of a file that cannot be read                                       *)
LEMMA PutMissingStays ==
    ASSUME Smooth, OrderlyInv, StepInv, UNCHANGED serverVars, NEW c \in Clients, PutMissing(c)
    PROVE  StepInv'
<1>1. /\ c_pc[c] = "prompt" /\ c_pc' = [c_pc EXCEPT ![c] = "prompt"]
      /\ c_ret' = [c_ret EXCEPT ![c] = 1]
      /\ UNCHANGED <<c_cmd, c_arg, c_sock, c_len, c_files, wire>>
  BY DEF PutMissing, Return
<1>2. PICK k \in Conns : c_sock[c] = k
  BY TypesOf DEF PutMissing, ClientTypeOK
<1>3. Paired(c, k) /\ Typing(c) /\ ClientTypeOK
  BY <1>2, Connected, TypesOf
<1>4. /\ c_pc'[c] = "prompt" /\ c_ret'[c] = 1
      /\ UNCHANGED <<c2s, s2c, clientEnds>>
      /\ t_pc' = t_pc /\ t_got' = t_got /\ t_name' = t_name /\ t_len' = t_len /\ t_buf' = t_buf
      /\ t_dir' = t_dir /\ files' = files
  BY <1>1, <1>3 DEF ClientTypeOK, wire, serverVars
<1>5. (Storing(c, k)' <=> Storing(c, k)) /\ ToStore(c, k)' = ToStore(c, k)
  <2>1. SameStore(c, k)
    BY <1>1, <1>4 DEF SameStore
  <2> QED BY <2>1, StoringSame
<1>6. Ahead(c, k)' = Ahead(c, k)
  BY <1>1, <1>4 DEF Ahead, Unsent
<1>7. Paired(c, k)'
  BY <1>1, <1>3, <1>4, <1>5, <1>6 DEF Paired, Ready, Stored
<1>8. Typing(c)'
  BY <1>1, <1>3 DEF Typing
<1>9. \A d \in Clients \ {c} : /\ c_pc'[d] = c_pc[d] /\ c_cmd'[d] = c_cmd[d]
                               /\ c_arg'[d] = c_arg[d] /\ c_len'[d] = c_len[d]
                               /\ c_ret'[d] = c_ret[d] /\ c_files'[d] = c_files[d]
  BY <1>1, <1>3 DEF ClientTypeOK
<1> QED BY <1>1, <1>2, <1>4, <1>7, <1>8, <1>9, ClientMoves

LEMMA OneMessage ==
    \A a, b, x \in Seq(Units) : x = a \o b /\ Len(a) = Len(x) => a = x /\ b = <<>>
<1> SUFFICES ASSUME NEW a \in Seq(Units), NEW b \in Seq(Units), NEW x \in Seq(Units),
                    x = a \o b, Len(a) = Len(x)
             PROVE  a = x /\ b = <<>>
  OBVIOUS
<1>1. Len(b) \in Nat /\ Len(a) \in Nat /\ Len(x) = Len(a) + Len(b)
  BY JoinedUnits
<1>2. Len(b) = 0
  BY <1>1
<1> QED BY <1>2, NoUnits

(* What a client receives.  It waits as long as it has no answer, and then *)
(* there is all of it.                                                     *)
AllOf(k, n, o) == /\ o.end = "full" /\ o.units \in Seq(Units) /\ o.rest \in Seq(Units)
                  /\ Len(o.units) = n /\ s2c[k] = o.units \o o.rest
LEMMA AllComes ==
    ASSUME Smooth, OrderlyInv, StepInv, NEW c \in Clients, NEW k \in Conns, c_sock[c] = k,
           Ahead(c, k) = <<>>, NEW n \in Nat, ~Over(k) \/ Len(s2c[k]) >= n,
           NEW o \in Received(c, n)
    PROVE  AllOf(k, n, o)
<1>1. Came(k, n, o)
  BY Outcomes
<1>2. CASE ~Over(k)
  BY <1>1, <1>2 DEF Came, AllOf
<1>3. CASE Len(s2c[k]) >= n
  <2>1. k \in clientEnds /\ Len(s2c[k]) \in Nat
    BY Connected, NoUnits
  <2>2. c2s[k] = <<>>
    <3>1. t_got[k] \o c2s[k] = <<>>
      <4>1. t_got[k] \o c2s[k] \in Seq(Units) /\ Unsent(c) \in Seq(Units)
        BY Connected, JoinedUnits
      <4> QED BY <4>1, NothingJoined DEF Ahead
    <3> QED BY <3>1, Connected, NothingJoined
  <2>3. ~Reset(k)
    BY <2>1, <2>2 DEF Reset
  <2>4. ~(Len(s2c[k]) < n)
    BY <1>3, <2>1
  <2>5. o.end = "full"
    BY <2>1, <2>3, <2>4 DEF Received, Outcome
  <2> QED BY <1>1, <2>5 DEF Came, AllOf
<1> QED BY <1>2, <1>3

ReplyOf(c, k, o) ==
    /\ Answered(c, k) /\ Ahead(c, k) = <<>>
    /\ o.end = "full" /\ o.units \in Seq(Units) /\ o.rest \in Seq(Units)
    /\ Len(o.units) = 2 /\ s2c[k] = o.units \o o.rest /\ s2c[k] # <<>>
    /\ \A m \in Seq(Units) : s2c[k] = m /\ Len(m) = 2 => o.units = m /\ o.rest = <<>>
LEMMA ReplyCame ==
    ASSUME Smooth, OrderlyInv, StepInv, NEW c \in Clients, NEW k \in Conns, c_sock[c] = k,
           c_pc[c] \in {"reply", "header"}, NEW o \in Received(c, HeaderLen)
    PROVE  ReplyOf(c, k, o)
<1>1. Paired(c, k) /\ Came(k, 2, o)
  BY Connected, Outcomes DEF HeaderLen
<1>2. s2c[k] = o.units \o o.rest /\ Len(o.units) = 2 /\ o.units \in Seq(Units) /\ o.rest \in Seq(Units)
         => s2c[k] # <<>>
  <2> SUFFICES ASSUME s2c[k] = o.units \o o.rest, Len(o.units) = 2, o.units \in Seq(Units),
                      o.rest \in Seq(Units)
               PROVE  s2c[k] # <<>>
    OBVIOUS
  <2>1. o.units # <<>>
    BY NoUnits
  <2> QED BY <2>1, NothingJoined
<1>3. Answered(c, k)
  <2>1. Asking(c, k) => s2c[k] = <<>> /\ ~Over(k)
    BY NotOver DEF Asking
  <2>2. ~Asking(c, k)
    BY <1>1, <1>2, <2>1 DEF Came
  <2> QED BY <1>1, <2>2 DEF Paired
<1>4. Ahead(c, k) = <<>>
  BY <1>3 DEF Answered
<1>5. ~Over(k) \/ Len(s2c[k]) >= 2
  <2>1. CASE QuitAnswered(c, k)
    <3>1. s2c[k] = Answer("QUIT_REPLY", "STATUS_UNUSED")
      BY <2>1 DEF QuitAnswered
    <3>2. Len(Answer("QUIT_REPLY", "STATUS_UNUSED")) = 2
      BY AnswerUnits DEF Smooth, Types, Statuses
    <3>3. Len(s2c[k]) = 2
      BY <3>1, <3>2
    <3> QED BY <3>3
  <2>2. CASE ~QuitAnswered(c, k)
    BY <1>3, <2>2
       DEF Answered, OpenAnswered, CdAnswered, PutAnswered, LsAnswered,
           GetRefused, GetBegun, GetAnswered, Over
  <2> QED BY <2>1, <2>2
<1>6. /\ o.end = "full" /\ o.units \in Seq(Units) /\ o.rest \in Seq(Units)
      /\ Len(o.units) = 2 /\ s2c[k] = o.units \o o.rest
  <2>1. o \in Received(c, 2)
    BY DEF HeaderLen
  <2>2. AllOf(k, 2, o)
    BY <1>4, <1>5, <2>1, AllComes
  <2> QED BY <2>2 DEF AllOf
<1>7. ASSUME NEW m \in Seq(Units), s2c[k] = m, Len(m) = 2 PROVE o.units = m /\ o.rest = <<>>
  <2>1. m = o.units \o o.rest /\ Len(o.units) = Len(m)
    BY <1>6, <1>7
  <2> QED BY <1>6, <2>1, OneMessage
<1> QED BY <1>2, <1>3, <1>4, <1>6, <1>7 DEF ReplyOf

OnlyReceives(c, k, place, rest) ==
    /\ c_pc' = [c_pc EXCEPT ![c] = place] /\ s2c' = [s2c EXCEPT ![k] = rest]
    /\ UNCHANGED <<c_cmd, c_arg, c2s, clientEnds, c_sock, serverVars>>
    /\ c_ret' = c_ret \/ \E r : c_ret' = [c_ret EXCEPT ![c] = r]
    /\ c_len' = c_len \/ \E l : c_len' = [c_len EXCEPT ![c] = l]
    /\ c_files' = c_files \/ \E b : c_files' = [c_files EXCEPT ![c][c_arg[c]] = b]

LEMMA ReceivingStays ==
    ASSUME Smooth, OrderlyInv, StepInv, NEW c \in Clients, NEW k \in Conns, c_sock[c] = k,
           NEW place \in ClientPlaces, NEW rest \in Seq(Units), OnlyReceives(c, k, place, rest)
    PROVE  /\ c_pc'[c] = place /\ s2c'[k] = rest
           /\ c_pc[c] \notin {"name", "fileHeader", "fileBody"}
                /\ place \notin {"name", "fileHeader", "fileBody"}
                => Ahead(c, k)' = Ahead(c, k)
           /\ Paired(c, k)' => StepInv'
<1>1. ClientTypeOK /\ Streams /\ Typing(c)
  BY Connected, TypesOf
<1>2. c_pc'[c] = place /\ s2c'[k] = rest
  BY <1>1 DEF OnlyReceives, ClientTypeOK, Streams
<1>3. /\ \A d \in Clients \ {c} : /\ c_pc'[d] = c_pc[d] /\ c_cmd'[d] = c_cmd[d]
                                  /\ c_arg'[d] = c_arg[d] /\ c_len'[d] = c_len[d]
                                  /\ c_ret'[d] = c_ret[d] /\ c_files'[d] = c_files[d]
      /\ \A j \in Conns \ {k} : c2s'[j] = c2s[j] /\ s2c'[j] = s2c[j]
  BY <1>1 DEF OnlyReceives, ClientTypeOK, Streams
<1>4. Typing(c)'
  BY <1>1 DEF Typing, OnlyReceives
<1>5. ASSUME Paired(c, k)' PROVE StepInv'
  BY <1>3, <1>4, <1>5, ClientMoves DEF OnlyReceives
<1>6. ASSUME c_pc[c] \notin {"name", "fileHeader", "fileBody"},
             place \notin {"name", "fileHeader", "fileBody"}
      PROVE  Ahead(c, k)' = Ahead(c, k)
  BY <1>2, <1>6 DEF Ahead, Unsent, OnlyReceives, serverVars
<1> QED BY <1>2, <1>5, <1>6

(* A command has ended.                                                    *)
LEMMA Ended ==
    ASSUME Smooth, OrderlyInv, StepInv, NEW c \in Clients, NEW k \in Conns, c_sock[c] = k,
           OnlyReceives(c, k, "prompt", <<>>), c_pc[c] \in {"reply", "body"}, c_cmd[c] # "put",
           t_pc[k] = "request", Ahead(c, k) = <<>>
    PROVE  StepInv'
<1>1. c_pc'[c] = "prompt" /\ s2c'[k] = <<>> /\ Ahead(c, k)' = <<>> /\ (Paired(c, k)' => StepInv')
  BY ReceivingStays, NoUnits DEF ClientPlaces
<1>2. t_pc'[k] = "request" /\ c_cmd'[c] # "put"
  BY DEF OnlyReceives, serverVars
<1>3. ToStore(c, k)' = <<>> /\ <<>> \o <<>> = <<>>
  BY <1>2, NoUnits DEF ToStore
<1>4. Ready(c, k, <<>>)' /\ Stored(c, k)'
  BY <1>1, <1>2, <1>3 DEF Ready, Stored
<1> QED BY <1>1, <1>4 DEF Paired

(* The rest of the answer is to come.                                      *)
LEMMA Continued ==
    ASSUME Smooth, OrderlyInv, StepInv, NEW c \in Clients, NEW k \in Conns, c_sock[c] = k,
           NEW place \in {"header", "body"}, NEW rest \in Seq(Units), OnlyReceives(c, k, place, rest),
           c_pc[c] \in {"reply", "header"}, Ahead(c, k) = <<>>,
           LsAnswered(c, k)' \/ GetBegun(c, k)' \/ GetAnswered(c, k)'
    PROVE  StepInv'
<1>1. c_pc'[c] = place /\ Ahead(c, k)' = <<>> /\ (Paired(c, k)' => StepInv')
  BY ReceivingStays DEF ClientPlaces
<1> QED BY <1>1 DEF Paired, Answered

LEMMA HasConn ==
    ASSUME OrderlyInv, NEW c \in Clients, c_pc[c] \notin {"prompt", "exited"}
    PROVE  \E k \in Conns : c_sock[c] = k
<1>1. c_sock[c] # NoConn
  BY DEF OrderlyInv, FramesInv, SessionInv, OneSocket
<1> QED BY <1>1, TypesOf DEF ClientTypeOK

LEMMA OpenReplyStays ==
    ASSUME Smooth, OrderlyInv, StepInv, UNCHANGED serverVars, NEW c \in Clients, OpenReply(c)
    PROVE  StepInv'
<1>1. /\ c_pc[c] = "reply" /\ c_cmd[c] = "open"
      /\ UNCHANGED <<c_cmd, c_arg, c2s, c_len, c_files>>
  BY DEF OpenReply, Awaits
<1>2. PICK k \in Conns : c_sock[c] = k
  BY <1>1, HasConn
<1>3. PICK o \in Received(c, HeaderLen) :
         LET ok == IsReply(o, "OPEN_CONN_REPLY") /\ HeaderIn(o.units).status = "STATUS_OK"
         IN  RecvOrClose(c, o, ok) /\ Return(c, IF ok THEN 0 ELSE 1)
  BY DEF OpenReply
<1>4. ReplyOf(c, k, o)
  BY <1>1, <1>2, ReplyCame
<1>5. Answered(c, k) /\ Ahead(c, k) = <<>> /\ o.end = "full"
  BY <1>4 DEF ReplyOf
<1>6. t_pc[k] = "request" /\ s2c[k] = OpenAnswer
  BY <1>1, <1>5 DEF Answered, OpenAnswered, QuitAnswered, CdAnswered, PutAnswered, LsAnswered,
                    GetRefused, GetBegun, GetAnswered
<1>7. o.units = OpenAnswer /\ o.rest = <<>>
  BY <1>6, <1>4, OpenUnits DEF Smooth, ReplyOf
<1>8. IsReply(o, "OPEN_CONN_REPLY") /\ HeaderIn(o.units).status = "STATUS_OK"
  BY <1>5, <1>7, OpenUnits DEF Smooth, IsReply
<1>9. OnlyReceives(c, k, "prompt", <<>>)
  BY <1>1, <1>2, <1>3, <1>7, <1>8 DEF RecvOrClose, Return, OnlyReceives
<1> QED BY <1>1, <1>2, <1>5, <1>6, <1>9, Ended

(* quit: the client closes its end.                                        *)
LEMMA QuitReplyStays ==
    ASSUME Smooth, OrderlyInv, StepInv, UNCHANGED serverVars, NEW c \in Clients, QuitReply(c)
    PROVE  StepInv'
<1>1. /\ c_pc[c] = "reply" /\ c_cmd[c] = "quit"
      /\ UNCHANGED <<c_cmd, c_arg, c2s, c_len, c_files>>
  BY DEF QuitReply, Awaits
<1>2. PICK k \in Conns : c_sock[c] = k
  BY <1>1, HasConn
<1>3. PICK o \in Received(c, HeaderLen) :
         LET ok == IsReply(o, "QUIT_REPLY")
         IN  RecvOrClose(c, o, ~ok /\ o.end # "eof") /\ Return(c, IF ok THEN 0 ELSE 1)
  BY DEF QuitReply
<1>4. ReplyOf(c, k, o)
  BY <1>1, <1>2, ReplyCame
<1>5. Answered(c, k) /\ o.end = "full"
  BY <1>4 DEF ReplyOf
<1>6. s2c[k] = Answer("QUIT_REPLY", "STATUS_UNUSED")
  BY <1>1, <1>5 DEF Answered, OpenAnswered, QuitAnswered, CdAnswered, PutAnswered, LsAnswered,
                    GetRefused, GetBegun, GetAnswered
<1>7. Orderly /\ "QUIT_REPLY" \in Types /\ "STATUS_UNUSED" \in Statuses
  BY DEF Smooth, Types, Statuses
<1>8. o.units = Answer("QUIT_REPLY", "STATUS_UNUSED")
  BY <1>6, <1>7, <1>4, AnswerUnits DEF ReplyOf
<1>9. IsReply(o, "QUIT_REPLY")
  BY <1>5, <1>7, <1>8, AnswerUnits DEF IsReply
<1>10. ClientTypeOK /\ Streams /\ Typing(c)
  BY <1>2, Connected, TypesOf
<1>11. /\ s2c' = [s2c EXCEPT ![k] = o.rest] /\ clientEnds' = clientEnds \ {k}
       /\ c_sock' = [c_sock EXCEPT ![c] = NoConn] /\ c_pc' = [c_pc EXCEPT ![c] = "prompt"]
       /\ c_ret' = [c_ret EXCEPT ![c] = 0]
  BY <1>2, <1>3, <1>9 DEF RecvOrClose, Return, Disconnected
<1>12. OthersQuiet(c, k)
  <2>1. \A d \in Clients \ {c} : c_sock[d] # k
    BY <1>2, Connected
  <2>2. \A d \in Clients \ {c} : c_pc'[d] = c_pc[d] /\ c_sock'[d] = c_sock[d] /\ c_ret'[d] = c_ret[d]
    BY <1>10, <1>11 DEF ClientTypeOK
  <2> QED BY <1>1, <1>10, <1>11, <2>1, <2>2 DEF OthersQuiet, Streams
<1>13. c_sock'[c] = NoConn /\ NoConn \notin Conns
  BY <1>10, <1>11 DEF ClientTypeOK, Conns, NoConn
<1>14. Typing(c)'
  BY <1>1, <1>10 DEF Typing
<1> QED BY <1>12, <1>13, <1>14, QuietFrame

LEMMA CdReplyStays ==
    ASSUME Smooth, OrderlyInv, StepInv, UNCHANGED serverVars, NEW c \in Clients, CdReply(c)
    PROVE  StepInv'
<1>1. /\ c_pc[c] = "reply" /\ c_cmd[c] = "cd"
      /\ UNCHANGED <<c_cmd, c_arg, c2s, c_len, c_files>>
  BY DEF CdReply, Awaits
<1>2. PICK k \in Conns : c_sock[c] = k
  BY <1>1, HasConn
<1>3. PICK o \in Received(c, HeaderLen), r \in {0, 1} : RecvByRef(c, o) /\ Return(c, r)
  BY DEF CdReply
<1>4. ReplyOf(c, k, o)
  BY <1>1, <1>2, ReplyCame
<1>5. CdAnswered(c, k) /\ Ahead(c, k) = <<>> /\ o.end = "full"
  BY <1>1, <1>4 DEF ReplyOf, Answered, OpenAnswered, QuitAnswered, PutAnswered, LsAnswered,
                    GetRefused, GetBegun, GetAnswered
<1>6. o.rest = <<>>
  <2>1. PICK there \in BOOLEAN : s2c[k] = Answer("CHANGE_DIR_REPLY", StatusOf(there))
    BY <1>5 DEF CdAnswered
  <2>2. Orderly /\ "CHANGE_DIR_REPLY" \in Types /\ StatusOf(there) \in Statuses
    BY DEF Smooth, Types, Statuses, StatusOf
  <2> QED BY <1>4, <2>1, <2>2, AnswerUnits DEF ReplyOf
<1>7. OnlyReceives(c, k, "prompt", <<>>)
  BY <1>1, <1>2, <1>3, <1>5, <1>6 DEF RecvByRef, Return, OnlyReceives
<1>8. t_pc[k] = "request"
  BY <1>5 DEF CdAnswered
<1> QED BY <1>1, <1>2, <1>5, <1>7, <1>8, Ended

LEMMA PutReplyStays ==
    ASSUME Smooth, OrderlyInv, StepInv, UNCHANGED serverVars, NEW c \in Clients, PutReply(c)
    PROVE  StepInv'
<1>1. /\ c_pc[c] = "reply" /\ c_cmd[c] = "put"
      /\ UNCHANGED <<c_cmd, c_arg, c2s, c_len, c_files>>
  BY DEF PutReply, Awaits
<1>2. PICK k \in Conns : c_sock[c] = k
  BY <1>1, HasConn
<1>3. PICK o \in Received(c, HeaderLen) :
         /\ RecvByRef(c, o)
         /\ IF o.end = "full" /\ HeaderIn(o.units).type = "PUT_REPLY"
            THEN Goto(c, "fileHeader") ELSE Return(c, 1)
  BY DEF PutReply
<1>4. ReplyOf(c, k, o)
  BY <1>1, <1>2, ReplyCame
<1>5. PutAnswered(c, k) /\ Ahead(c, k) = <<>> /\ o.end = "full"
  BY <1>1, <1>4 DEF ReplyOf, Answered, OpenAnswered, QuitAnswered, CdAnswered, LsAnswered,
                    GetRefused, GetBegun, GetAnswered
<1>6. o.rest = <<>> /\ HeaderIn(o.units).type = "PUT_REPLY"
  <2>1. Orderly /\ "PUT_REPLY" \in Types /\ "STATUS_UNUSED" \in Statuses
    BY DEF Smooth, Types, Statuses
  <2> QED BY <1>4, <1>5, <2>1, AnswerUnits DEF ReplyOf, PutAnswered
<1>7. OnlyReceives(c, k, "fileHeader", <<>>)
  BY <1>1, <1>2, <1>3, <1>5, <1>6 DEF RecvByRef, Goto, OnlyReceives
<1>8. c_pc'[c] = "fileHeader" /\ s2c'[k] = <<>> /\ (Paired(c, k)' => StepInv')
  <2>1. "fileHeader" \in ClientPlaces /\ <<>> \in Seq(Units)
    BY NoUnits DEF ClientPlaces
  <2> QED BY <1>2, <1>7, <2>1, ReceivingStays
<1>9. /\ c_arg[c] \in FileNames /\ c_files[c][c_arg[c]] \in Mixed
      /\ t_pc[k] = "putHeader" /\ t_name[k] = c_arg[c]
  BY <1>1, <1>5 DEF PutAnswered, OrderlyInv, FramesInv, SessionInv, ClientInPlace
<1>10. /\ c_arg' = c_arg /\ c_files' = c_files /\ c2s' = c2s
       /\ t_pc' = t_pc /\ t_name' = t_name /\ t_got' = t_got
  BY <1>1 DEF serverVars
<1>11. Storing(c, k)'
  BY <1>9, <1>10 DEF Storing, Original
<1>12. Ahead(c, k)' = ToStore(c, k)' \o <<>>
  <2> DEFINE m == FileMessage(c_files[c][c_arg[c]])
  <2>1. t_got[k] \o c2s[k] = <<>>
    <3>1. t_got[k] \o c2s[k] \in Seq(Units) /\ Unsent(c) \in Seq(Units)
      BY <1>2, Connected, JoinedUnits
    <3> QED BY <1>5, <3>1, NothingJoined DEF Ahead
  <2>2. m \in Seq(Units)
    BY <1>9, MixedShort, FileMessageUnits
  <2>3. Unsent(c)' = m
    BY <1>8, <1>10 DEF Unsent, FileMessage
  <2>4. ToStore(c, k)' = m
    BY <1>9, <1>10 DEF ToStore, Original, FileMessage
  <2>5. Ahead(c, k)' = <<>> \o m
    BY <1>10, <2>1, <2>3 DEF Ahead
  <2> HIDE DEF m
  <2> QED BY <2>2, <2>4, <2>5, NoUnits
<1>13. Ready(c, k, <<>>)'
  BY <1>11, <1>12 DEF Ready
<1> QED BY <1>8, <1>9, <1>10, <1>11, <1>13 DEF Paired

(* What the thread is about to send                                        *)
LEMMA RestComes ==
    ASSUME OrderlyInv, NEW k \in Conns, NEW u \in Seq(Units), NEW rest \in Seq(Units),
           s2c[k] = u \o rest
    PROVE  /\ Unanswered(k) \in Seq(Units) /\ rest \o Unanswered(k) \in Seq(Units)
           /\ ToCome(k) = u \o (rest \o Unanswered(k))
<1>1. Unanswered(k) \in Seq(Units)
  <2>1. t_buf[k] \in Short
    BY DEF OrderlyInv, FramesInv, FilesAreRaw
  <2> QED BY <2>1, ShortUnits, FileMessageUnits, NoUnits DEF Unanswered
<1>2. (u \o rest) \o Unanswered(k) = u \o (rest \o Unanswered(k))
  BY <1>1, Chained
<1> QED BY <1>1, <1>2, JoinedUnits DEF ToCome

LEMMA GetReplyStays ==
    ASSUME Smooth, OrderlyInv, StepInv, UNCHANGED serverVars, NEW c \in Clients, GetReply(c)
    PROVE  StepInv'
<1>1. /\ c_pc[c] = "reply" /\ c_cmd[c] = "get"
      /\ UNCHANGED <<c_cmd, c_arg, c2s, c_len, c_files>>
  BY DEF GetReply, Awaits
<1>2. PICK k \in Conns : c_sock[c] = k
  BY <1>1, HasConn
<1>3. PICK o \in Received(c, HeaderLen) :
         /\ RecvByRef(c, o)
         /\ IF IsReply(o, "GET_REPLY") /\ ~Refused(o) THEN Goto(c, "header") ELSE Return(c, 1)
  BY DEF GetReply
<1>4. ReplyOf(c, k, o)
  BY <1>1, <1>2, ReplyCame
<1>5. /\ Ahead(c, k) = <<>> /\ o.end = "full"
      /\ GetRefused(c, k) \/ GetBegun(c, k) \/ GetAnswered(c, k)
  BY <1>1, <1>4 DEF ReplyOf, Answered, OpenAnswered, QuitAnswered, CdAnswered, PutAnswered, LsAnswered
<1>6. /\ o.units \in Seq(Units) /\ o.rest \in Seq(Units) /\ Len(o.units) = 2
      /\ s2c[k] = o.units \o o.rest
  BY <1>4 DEF ReplyOf
<1>7. /\ Orderly
      /\ "GET_REPLY" \in Types /\ "STATUS_ERR" \in Statuses /\ "STATUS_OK" \in Statuses
  BY DEF Smooth, Types, Statuses
<1>8. /\ s2c' = [s2c EXCEPT ![k] = o.rest] /\ UNCHANGED <<clientEnds, c_sock>>
  BY <1>2, <1>3, <1>5 DEF RecvByRef
<1>9. ASSUME o.units = Answer("GET_REPLY", "STATUS_OK")
      PROVE  /\ OnlyReceives(c, k, "header", o.rest)
             /\ c_pc'[c] = "header" /\ s2c'[k] = o.rest
  <2>1. IsReply(o, "GET_REPLY") /\ ~Refused(o)
    BY <1>5, <1>7, <1>9, AnswerUnits DEF IsReply, Refused
  <2>2. OnlyReceives(c, k, "header", o.rest)
    BY <1>1, <1>3, <1>8, <2>1 DEF Goto, OnlyReceives
  <2>3. "header" \in ClientPlaces
    BY DEF ClientPlaces
  <2> QED BY <1>2, <1>6, <2>2, <2>3, ReceivingStays
<1>10. /\ t_pc' = t_pc /\ t_cmd' = t_cmd /\ t_name' = t_name /\ t_buf' = t_buf /\ t_dir' = t_dir
       /\ files' = files
  BY DEF serverVars
<1>11. CASE GetRefused(c, k)
  <2>1. o.units = Answer("GET_REPLY", "STATUS_ERR") /\ o.rest = <<>>
    BY <1>4, <1>7, <1>11, AnswerUnits DEF ReplyOf, GetRefused
  <2>2. Refused(o)
    BY <1>7, <2>1, AnswerUnits DEF Refused
  <2>3. OnlyReceives(c, k, "prompt", <<>>)
    BY <1>1, <1>3, <1>8, <2>1, <2>2 DEF Return, OnlyReceives
  <2>4. t_pc[k] = "request"
    BY <1>11 DEF GetRefused
  <2> QED BY <1>1, <1>2, <1>5, <2>3, <2>4, Ended
<1>12. CASE GetBegun(c, k)
  <2>1. o.units = Answer("GET_REPLY", "STATUS_OK") /\ o.rest = <<>>
    BY <1>1, <1>4, <1>7, <1>12, AnswerUnits DEF ReplyOf, GetBegun
  <2>2. OnlyReceives(c, k, "header", o.rest) /\ c_pc'[c] = "header" /\ s2c'[k] = <<>>
    BY <1>9, <2>1
  <2>3. GetBegun(c, k)'
    BY <1>1, <1>10, <1>12, <2>2 DEF GetBegun, TheFile
  <2> QED BY <1>1, <1>2, <1>5, <1>6, <2>2, <2>3, Continued
<1>13. CASE GetAnswered(c, k)
  <2>1. PICK b \in Short : /\ ToCome(k) = Answer("GET_REPLY", "STATUS_OK") \o FileMessage(b)
                           /\ Sole => b = TheFile(c, k)
    BY <1>1, <1>13 DEF GetAnswered
  <2>2. /\ o.rest \o Unanswered(k) \in Seq(Units)
        /\ ToCome(k) = o.units \o (o.rest \o Unanswered(k))
    BY <1>6, RestComes
  <2>3. /\ Answer("GET_REPLY", "STATUS_OK") \in Seq(Units)
        /\ Len(Answer("GET_REPLY", "STATUS_OK")) = 2
    BY <1>7, AnswerUnits
  <2>4. FileMessage(b) \in Seq(Units)
    BY FileMessageUnits
  <2>5. o.units = Answer("GET_REPLY", "STATUS_OK") /\ o.rest \o Unanswered(k) = FileMessage(b)
    <3>1. /\ o.units \o (o.rest \o Unanswered(k)) = Answer("GET_REPLY", "STATUS_OK") \o FileMessage(b)
          /\ Len(o.units) = Len(Answer("GET_REPLY", "STATUS_OK"))
      BY <1>6, <2>1, <2>2, <2>3
    <3>2. o.units \in Seq(Units)
      BY <1>6
    <3> QED BY <2>2, <2>3, <2>4, <3>1, <3>2, Parts
  <2>6. OnlyReceives(c, k, "header", o.rest) /\ c_pc'[c] = "header" /\ s2c'[k] = o.rest
    BY <1>9, <2>5
  <2>7. Unanswered(k)' = Unanswered(k)
    BY <1>10 DEF Unanswered
  <2>8. ToCome(k)' = FileMessage(b)
    BY <2>5, <2>6, <2>7 DEF ToCome
  <2>9. b \in Tails(ToCome(k)')
    BY <2>8, FileMessageUnits, TailOf
  <2>10. GetAnswered(c, k)'
    <3>1. t_pc'[k] \in {"dataHeader", "dataBody", "request"} /\ (t_pc'[k] = "dataBody" => t_buf'[k] # <<>>)
      BY <1>10, <1>13 DEF GetAnswered
    <3>2. TheFile(c, k)' = TheFile(c, k)
      BY <1>1, <1>10 DEF TheFile
    <3> QED BY <1>1, <2>1, <2>6, <2>8, <2>9, <3>1, <3>2 DEF GetAnswered
  <2> QED BY <1>1, <1>2, <1>5, <1>6, <2>6, <2>10, Continued
<1> QED BY <1>5, <1>11, <1>12, <1>13

LEMMA TailUnits ==
    ASSUME NEW s \in Seq(Units), NEW l \in Tails(s)
    PROVE  l \in Seq(Units) /\ Len(l) \in Nat
<1>1. PICK n \in 0 .. Len(s) : l = After(s, n)
  BY DEF Tails
<1>2. l \in Seq(Units)
  BY <1>1, Split
<1> QED BY <1>2, NoUnits

LEMMA LsReplyStays ==
    ASSUME Smooth, OrderlyInv, StepInv, UNCHANGED serverVars, NEW c \in Clients, LsReply(c)
    PROVE  StepInv'
<1>1. /\ c_pc[c] = "reply" /\ c_cmd[c] = "ls"
      /\ UNCHANGED <<c_cmd, c_arg, c2s, c_files>>
  BY DEF LsReply, Awaits
<1>2. PICK k \in Conns : c_sock[c] = k
  BY <1>1, HasConn
<1>3. PICK o \in Received(c, HeaderLen) :
         /\ RecvByRef(c, o)
         /\ IF ~IsReply(o, "LIST_REPLY")
            THEN Return(c, 1) /\ UNCHANGED c_len
            ELSE LET len == PayloadLen(HeaderIn(o.units))
                 IN  /\ c_len' = [c_len EXCEPT ![c] = len]
                     /\ IF len = 1 THEN Return(c, 0) ELSE Goto(c, "body")
  BY DEF LsReply
<1>4. ReplyOf(c, k, o)
  BY <1>1, <1>2, ReplyCame
<1>5. Ahead(c, k) = <<>> /\ o.end = "full" /\ LsAnswered(c, k)
  BY <1>1, <1>4 DEF ReplyOf, Answered, OpenAnswered, QuitAnswered, CdAnswered, PutAnswered,
                    GetRefused, GetBegun, GetAnswered
<1>6. /\ o.units \in Seq(Units) /\ o.rest \in Seq(Units) /\ Len(o.units) = 2
      /\ s2c[k] = o.units \o o.rest
  BY <1>4 DEF ReplyOf
<1>7. /\ o.rest \o Unanswered(k) \in Seq(Units)
      /\ ToCome(k) = o.units \o (o.rest \o Unanswered(k))
  BY <1>6, RestComes
<1>8. PICK l \in Tails(ToCome(k)) :
         /\ Len(l) \in 2 .. Longest
         /\ ToCome(k) = Header("LIST_REPLY", "STATUS_UNUSED", Len(l)) \o l
  BY <1>1, <1>5 DEF LsAnswered
<1> DEFINE m == Header("LIST_REPLY", "STATUS_UNUSED", Len(l))
<1>9. l \in Seq(Units)
  <2>1. ToCome(k) \in Seq(Units)
    BY <1>6, <1>7, JoinedUnits
  <2> QED BY <2>1, TailUnits
<1>10. /\ m \in Seq(Units) /\ Len(m) = 2 /\ MagicOk(m)
       /\ HeaderIn(m).type = "LIST_REPLY" /\ PayloadLen(HeaderIn(m)) = Len(l)
  <2>1. "LIST_REPLY" \in Types /\ "STATUS_UNUSED" \in Statuses /\ Len(l) \in 0 .. Longest
    BY <1>8 DEF Types, Statuses
  <2> QED BY <2>1, HeaderUnits
<1>11. o.units = m /\ o.rest \o Unanswered(k) = l
  <2>1. ToCome(k) = m \o l
    BY <1>8, <1>10
  <2>2. m \in Seq(Units) /\ Len(m) = 2
    BY <1>10
  <2> HIDE DEF m
  <2>3. \A u, r \in Seq(Units) : ToCome(k) = u \o r /\ Len(u) = 2 => u = m /\ r = l
    BY <1>9, <2>1, <2>2, Begins
  <2> QED BY <1>6, <1>7, <2>3
<1> HIDE DEF m
<1>12. IsReply(o, "LIST_REPLY") /\ PayloadLen(HeaderIn(o.units)) = Len(l) /\ Len(l) # 1
  BY <1>5, <1>8, <1>10, <1>11 DEF IsReply
<1>13. c_len' = [c_len EXCEPT ![c] = Len(l)] /\ Goto(c, "body")
  BY <1>3, <1>12
<1>14. OnlyReceives(c, k, "body", o.rest)
  BY <1>1, <1>2, <1>3, <1>5, <1>13 DEF RecvByRef, Goto, OnlyReceives
<1>15. c_pc'[c] = "body" /\ s2c'[k] = o.rest
  <2>1. "body" \in ClientPlaces
    BY DEF ClientPlaces
  <2> QED BY <1>2, <1>6, <1>14, <2>1, ReceivingStays
<1>16. t_pc' = t_pc /\ t_buf' = t_buf
  BY DEF serverVars
<1>17. Unanswered(k)' = Unanswered(k)
  BY <1>16 DEF Unanswered
<1>18. ToCome(k)' = l
  BY <1>11, <1>15, <1>17 DEF ToCome
<1>19. l \in Tails(ToCome(k)')
  BY <1>9, <1>18, TailOf
<1>20. c_len'[c] = Len(l)
  BY <1>13, TypesOf DEF ClientTypeOK
<1>21. LsAnswered(c, k)'
  <2>1. c_cmd'[c] = "ls"
    BY <1>1
  <2>2. t_pc'[k] \in {"listing", "request"} /\ (t_pc'[k] = "listing" => t_buf'[k] # <<>>)
    BY <1>5, <1>16 DEF LsAnswered
  <2> QED BY <1>8, <1>15, <1>18, <1>19, <1>20, <2>1, <2>2 DEF LsAnswered
<1> QED BY <1>1, <1>2, <1>5, <1>6, <1>14, <1>21, Continued

LEMMA GetHeaderStays ==
    ASSUME Smooth, OrderlyInv, StepInv, UNCHANGED serverVars, NEW c \in Clients, GetHeader(c)
    PROVE  StepInv'
<1>1. /\ c_pc[c] = "header" /\ c_cmd[c] = "get"
      /\ UNCHANGED <<c_cmd, c_arg, c2s, c_files>>
  BY DEF GetHeader, Awaits
<1>2. PICK k \in Conns : c_sock[c] = k
  BY <1>1, HasConn
<1>3. PICK o \in Received(c, HeaderLen) :
         /\ RecvByRef(c, o)
         /\ IF o.end = "full" /\ HeaderIn(o.units).type = "FILE_DATA"
            THEN Goto(c, "body") /\ c_len' = [c_len EXCEPT ![c] = GetLen(HeaderIn(o.units))]
            ELSE Return(c, 1) /\ UNCHANGED c_len
  BY DEF GetHeader
<1>4. ReplyOf(c, k, o)
  BY <1>1, <1>2, ReplyCame
<1>5. Ahead(c, k) = <<>> /\ o.end = "full" /\ GetAnswered(c, k)
  BY <1>1, <1>4 DEF ReplyOf, Answered, OpenAnswered, QuitAnswered, CdAnswered, PutAnswered, LsAnswered,
                    GetRefused, GetBegun
<1>6. /\ o.units \in Seq(Units) /\ o.rest \in Seq(Units) /\ Len(o.units) = 2
      /\ s2c[k] = o.units \o o.rest
  BY <1>4 DEF ReplyOf
<1>7. /\ o.rest \o Unanswered(k) \in Seq(Units)
      /\ ToCome(k) = o.units \o (o.rest \o Unanswered(k))
  BY <1>6, RestComes
<1>8. PICK b \in Short : ToCome(k) = FileMessage(b) /\ (Sole => b = TheFile(c, k))
  BY <1>1, <1>5 DEF GetAnswered
<1> DEFINE m == Header("FILE_DATA", "STATUS_UNUSED", Len(b))
<1>9. b \in Seq(Units)
  BY FileMessageUnits
<1>10. /\ m \in Seq(Units) /\ Len(m) = 2 /\ FileMessage(b) = m \o b
      /\ HeaderIn(m).type = "FILE_DATA" /\ PayloadLen(HeaderIn(m)) = Len(b)
  BY FileMessageUnits
<1>11. o.units = m /\ o.rest \o Unanswered(k) = b
  <2>1. ToCome(k) = m \o b
    BY <1>8, <1>10
  <2>2. m \in Seq(Units) /\ Len(m) = 2
    BY <1>10
  <2> HIDE DEF m
  <2>3. \A u, r \in Seq(Units) : ToCome(k) = u \o r /\ Len(u) = 2 => u = m /\ r = b
    BY <1>9, <2>1, <2>2, Begins
  <2> QED BY <1>6, <1>7, <2>3
<1> HIDE DEF m
<1>12. Goto(c, "body") /\ c_len' = [c_len EXCEPT ![c] = Len(b)]
  BY <1>3, <1>5, <1>11, <1>10 DEF GetLen
<1>13. OnlyReceives(c, k, "body", o.rest)
  BY <1>1, <1>2, <1>3, <1>5, <1>12 DEF RecvByRef, Goto, OnlyReceives
<1>14. c_pc'[c] = "body" /\ s2c'[k] = o.rest
  <2>1. "body" \in ClientPlaces
    BY DEF ClientPlaces
  <2> QED BY <1>2, <1>6, <1>13, <2>1, ReceivingStays
<1>15. t_pc' = t_pc /\ t_buf' = t_buf /\ t_dir' = t_dir /\ files' = files
  BY DEF serverVars
<1>16. Unanswered(k)' = Unanswered(k)
  BY <1>15 DEF Unanswered
<1>17. ToCome(k)' = b
  BY <1>11, <1>14, <1>16 DEF ToCome
<1>18. b \in Tails(ToCome(k)')
  BY <1>9, <1>17, TailOf
<1>19. c_len'[c] = Len(b)
  BY <1>12, TypesOf DEF ClientTypeOK
<1>20. GetAnswered(c, k)'
  <2>1. c_cmd'[c] = "get" /\ TheFile(c, k)' = TheFile(c, k)
    BY <1>1, <1>15 DEF TheFile
  <2>2. t_pc'[k] \in {"dataHeader", "dataBody", "request"} /\ (t_pc'[k] = "dataBody" => t_buf'[k] # <<>>)
    BY <1>5, <1>15 DEF GetAnswered
  <2> QED BY <1>8, <1>14, <1>17, <1>18, <1>19, <2>1, <2>2 DEF GetAnswered
<1> QED BY <1>1, <1>2, <1>5, <1>6, <1>13, <1>20, Continued

(* The body: with it all has come, and the thread is back at its next      *)
(* request.                                                                *)
LEMMA BodyCame ==
    ASSUME Smooth, OrderlyInv, StepInv, NEW c \in Clients, NEW k \in Conns, c_sock[c] = k,
           c_pc[c] = "body", NEW o \in Received(c, c_len[c])
    PROVE  o.end = "full" /\ o.rest = <<>> /\ t_pc[k] = "request" /\ Ahead(c, k) = <<>>
<1>1. Answered(c, k)
  BY Connected DEF Paired
<1>2. /\ Ahead(c, k) = <<>>
      /\ t_pc[k] \in {"listing", "dataHeader", "dataBody", "request"}
      /\ t_pc[k] \in {"listing", "dataBody"} => t_buf[k] # <<>>
      /\ c_len[c] = Len(ToCome(k))
  BY <1>1 DEF Answered, OpenAnswered, QuitAnswered, CdAnswered, PutAnswered, LsAnswered,
              GetRefused, GetBegun, GetAnswered
<1>4. AllOf(k, c_len[c], o)
  <2>1. ~Over(k) /\ c_len[c] \in Nat
    BY <1>2, TypesOf DEF Over, ClientTypeOK
  <2> QED BY <1>2, <2>1, AllComes
<1>5. /\ o.end = "full" /\ o.units \in Seq(Units) /\ o.rest \in Seq(Units)
      /\ s2c[k] = o.units \o o.rest /\ Len(o.units) = Len(ToCome(k))
  BY <1>2, <1>4 DEF AllOf
<1>6. /\ o.rest \o Unanswered(k) \in Seq(Units) /\ Unanswered(k) \in Seq(Units)
      /\ ToCome(k) = o.units \o (o.rest \o Unanswered(k))
  BY <1>5, RestComes
<1>3. ToCome(k) \in Seq(Units)
  BY <1>5, <1>6, JoinedUnits
<1>7. o.rest \o Unanswered(k) = <<>>
  BY <1>3, <1>5, <1>6, OneMessage
<1>8. o.rest = <<>> /\ Unanswered(k) = <<>>
  BY <1>5, <1>6, <1>7, NothingJoined
<1>9. t_pc[k] = "request"
  <2>1. FileMessage(t_buf[k]) # <<>>
    BY Connected, FileMessageUnits
  <2> QED BY <1>2, <1>8, <2>1 DEF Unanswered
<1> QED BY <1>2, <1>5, <1>8, <1>9

LEMMA BodiesStay ==
    ASSUME Smooth, OrderlyInv, StepInv, UNCHANGED serverVars, NEW c \in Clients,
           GetBody(c) \/ LsBody(c)
    PROVE  StepInv'
<1>1. /\ c_pc[c] = "body" /\ c_cmd[c] \in {"get", "ls"}
      /\ UNCHANGED <<c_cmd, c_arg, c2s, c_len>>
  BY DEF GetBody, LsBody, Awaits
<1>2. PICK k \in Conns : c_sock[c] = k
  BY <1>1, HasConn
<1>3. PICK o \in Received(c, c_len[c]), r \in {0, 1} :
         /\ RecvByRef(c, o) /\ Return(c, r)
         /\ c_files' = c_files \/ \E b : c_files' = [c_files EXCEPT ![c][c_arg[c]] = b]
  BY DEF GetBody, LsBody
<1>4. o.end = "full" /\ o.rest = <<>> /\ t_pc[k] = "request" /\ Ahead(c, k) = <<>>
  BY <1>1, <1>2, BodyCame
<1>5. OnlyReceives(c, k, "prompt", <<>>)
  BY <1>1, <1>2, <1>3, <1>4 DEF RecvByRef, Return, OnlyReceives
<1> QED BY <1>1, <1>2, <1>4, <1>5, Ended

(* Nobody asks for a digest.                                               *)
LEMMA NoDigest ==
    ASSUME Smooth, OrderlyInv, StepInv, NEW c \in Clients, ShaReply(c) \/ ShaHeader(c) \/ ShaBody(c)
    PROVE  FALSE
<1>1. c_pc[c] \notin {"prompt", "exited"} /\ c_cmd[c] = "sha256"
  BY DEF ShaReply, ShaHeader, ShaBody, Awaits
<1>2. PICK k \in Conns : c_sock[c] = k
  BY <1>1, HasConn
<1>3. c_cmd[c] \in Typed
  BY <1>2, Connected
<1> QED BY <1>1, <1>3 DEF Typed

LEMMA ProgramStays ==
    ASSUME Smooth, OrderlyInv, StepInv, UNCHANGED serverVars, NEW c \in Clients, ProgramStep(c)
    PROVE  StepInv'
BY SendNameStays, OpenReplyStays, QuitReplyStays, LsReplyStays, CdReplyStays, GetReplyStays,
   PutReplyStays, GetHeaderStays, BodiesStay, SendFileStays, NoDigest DEF ProgramStep

(* open: the new connection carries the request, to a thread that is       *)
(* still to be made.                                                       *)
LEMMA OpenStays ==
    ASSUME Smooth, OrderlyInv, StepInv, UNCHANGED serverVars, NEW c \in Clients, Open(c)
    PROVE  StepInv'
<1>1. PICK k : k = made + 1
  OBVIOUS
<1>2. ClientTypeOK /\ Streams /\ clientEnds \subseteq Conns /\ made \in Nat /\ accepted \in 0 .. made
  BY TypesOf DEF OrderlyInv, TypeOK, WireTypeOK
<1>3. k \in Conns
  BY <1>1, <1>2, FtpWireAssumption DEF Open, Conns
<1>4. /\ c_pc[c] = "prompt" /\ clientEnds' = clientEnds \union {k}
      /\ c_sock' = [c_sock EXCEPT ![c] = k] /\ c2s' = [c2s EXCEPT ![k] = OpenMessage]
      /\ c_cmd' = [c_cmd EXCEPT ![c] = "open"] /\ c_pc' = [c_pc EXCEPT ![c] = "reply"]
      /\ UNCHANGED <<c_arg, c_len, c_ret, c_files, s2c>>
  BY <1>1 DEF Open, OpenMessage, Goto
<1>5. /\ c_sock'[c] = k /\ c2s'[k] = OpenMessage /\ c_cmd'[c] = "open" /\ c_pc'[c] = "reply"
      /\ \A d \in Clients \ {c} :
            c_sock'[d] = c_sock[d] /\ c_cmd'[d] = c_cmd[d] /\ c_pc'[d] = c_pc[d]
  BY <1>2, <1>3, <1>4 DEF ClientTypeOK, Streams
<1>6. s2c[k] = <<>> /\ t_pc[k] = "idle" /\ t_got[k] = <<>>
  <2>1. ThreadInPlace(k) /\ HasOwn(k) /\ QuitLast(k)
    BY <1>3 DEF OrderlyInv, FramesInv, ThreadInv
  <2>2. k > made /\ k > accepted
    BY <1>1, <1>2
  <2> QED BY <2>1, <2>2 DEF ThreadInPlace, HasOwn, QuitLast, RecvPlaces
<1>7. OthersQuiet(c, k)
  <2>1. \A d \in Clients \ {c} : c_sock[d] # k
    <3> SUFFICES ASSUME NEW d \in Clients \ {c}, c_sock[d] = k PROVE FALSE
      OBVIOUS
    <3>1. OneSocket(d)
      BY DEF OrderlyInv, FramesInv, SessionInv
    <3> QED BY <1>1, <1>2, <3>1 DEF OneSocket, NoConn
  <2>2. \A j \in Conns \ {k} : c2s'[j] = c2s[j] /\ s2c'[j] = s2c[j]
    BY <1>2, <1>4 DEF Streams
  <2> QED BY <1>4, <1>5, <2>1, <2>2 DEF OthersQuiet
<1>8. Typing(c)'
  BY <1>5 DEF Typing
<1>9. Asked(c)' = OpenMessage
  BY <1>5 DEF Asked, RequestOf, Naming, OpenMessage
<1>10. OpenMessage \in Seq(Units)
  BY OpenUnits DEF Smooth
<1>11. t_pc' = t_pc /\ t_got' = t_got
  BY DEF serverVars
<1>12. Ready(c, k, Asked(c))'
  <2>1. Ahead(c, k)' = (<<>> \o OpenMessage) \o <<>>
    BY <1>5, <1>6, <1>11 DEF Ahead, Unsent
  <2>2. ToStore(c, k)' = <<>>
    BY <1>6, <1>11 DEF ToStore
  <2>3. (<<>> \o OpenMessage) \o <<>> = <<>> \o OpenMessage
    BY <1>10, NoUnits
  <2> HIDE DEF OpenMessage
  <2>4. Ahead(c, k)' = ToStore(c, k)' \o Asked(c)'
    BY <1>9, <2>1, <2>2, <2>3
  <2> QED BY <1>5, <1>6, <1>11, <2>4 DEF Ready
<1>13. Paired(c, k)'
  BY <1>4, <1>5, <1>6, <1>12 DEF Paired, Asking
<1> QED BY <1>4, <1>5, <1>7, <1>8, <1>13, QuietFrame

(* Leaving the program, without a connection                               *)
LEMMA ExitStays ==
    ASSUME Smooth, OrderlyInv, StepInv, UNCHANGED serverVars, NEW c \in Clients, Exit(c)
    PROVE  StepInv'
<1>1. ClientTypeOK /\ Typing(c) /\ OneSocket(c)
  BY TypesOf DEF StepInv, Smoothly, OrderlyInv, FramesInv, SessionInv
<1>2. /\ c_sock[c] = NoConn /\ c_sock' = [c_sock EXCEPT ![c] = NoConn]
      /\ c_pc' = [c_pc EXCEPT ![c] = "exited"] /\ clientEnds' = {k \in clientEnds : owner[k] # c}
      /\ UNCHANGED <<c_cmd, c_arg, c_len, c_ret, c_files, c2s, s2c>>
  BY DEF Exit, Gone, Goto, Disconnected
<1>3. NoConn \notin Conns /\ MaxConns + 1 \notin Conns \union {NoConn}
  BY FtpWireAssumption DEF Conns, NoConn
<1>4. clientEnds \subseteq clientEnds'
  <2>1. \A k \in clientEnds : owner[k] # c
    BY <1>1, <1>2, <1>3, TypesOf DEF OneSocket
  <2> QED BY <1>2, <2>1
<1>5. OthersQuiet(c, MaxConns + 1)
  <2>1. \A d \in Clients \ {c} :
           c_pc'[d] = c_pc[d] /\ c_sock'[d] = c_sock[d] /\ c_sock[d] # MaxConns + 1
    BY <1>1, <1>2, <1>3 DEF ClientTypeOK
  <2> QED BY <1>2, <1>4, <2>1 DEF OthersQuiet
<1>6. Typing(c)' /\ c_sock'[c] = NoConn
  BY <1>1, <1>2 DEF Typing, ClientTypeOK
<1> QED BY <1>3, <1>5, <1>6, QuietFrame

LEMMA UserStays ==
    ASSUME Smooth, OrderlyInv, StepInv, UNCHANGED serverVars, NEW c \in Clients, UserStep(c)
    PROVE  StepInv'
<1>1. ~OpenRefused(c) /\ ~Killed(c)
  BY DEF OrderlyInv, FramesInv, OpenRefused, Killed, Smooth, Orderly
<1> QED BY <1>1, OpenStays, ExitStays, CommandsStay, PutMissingStays DEF UserStep
-----------------------------------------------------------------------------
LEMMA StepStutter == ASSUME StepInv, UNCHANGED vars PROVE StepInv'
<1>1. /\ UNCHANGED <<c2s, s2c, clientEnds, c_pc, c_cmd, c_arg, c_sock, c_len, c_ret, c_files>>
      /\ UNCHANGED <<t_pc, t_fd, t_cmd, t_dir, t_name, t_len, t_got, t_buf, files>>
  BY DEF vars, wire, clientVars, serverVars
<1>2. ASSUME NEW c \in Clients, NEW k \in Conns, Paired(c, k) PROVE Paired(c, k)'
  <2>1. Ahead(c, k)' = Ahead(c, k)
    BY <1>1 DEF Ahead, Unsent, NameOf
  <2>2. Same(c, k)
    BY <1>1, <2>1 DEF Same, SameStore
  <2> QED BY <1>2, <2>2, PairedSame
<1>3. ASSUME NEW c \in Clients PROVE Smoothly(c)'
  <2>1. Smoothly(c)
    BY DEF StepInv
  <2>2. Typing(c)'
    BY <1>1, <2>1 DEF Smoothly, Typing
  <2> QED BY <1>1, <1>2, <2>1, <2>2 DEF Smoothly
<1>4. ASSUME NEW k \in Conns PROVE ReadingOn(k)'
  BY <1>1 DEF StepInv, ReadingOn, Needed
<1>5. \A d \in Dirs : Listed(d)' <=> Listed(d)
  BY <1>1 DEF Listed
<1> QED BY <1>3, <1>4, <1>5 DEF StepInv

LEMMA StepInit == ASSUME Smooth, Init PROVE StepInv
<1>1. /\ c_cmd = [c \in Clients |-> "quit"] /\ c_sock = [c \in Clients |-> NoConn]
      /\ t_pc = [t \in Conns |-> "idle"] /\ files = ServerFiles
  BY DEF Init, WireInit, ClientInit, ServerInit
<1>2. NoConn \notin Conns
  BY FtpWireAssumption DEF Conns, NoConn
<1>3. ASSUME NEW c \in Clients PROVE Smoothly(c)
  BY <1>1, <1>2 DEF Smoothly, Typing
<1>4. ASSUME NEW k \in Conns PROVE ReadingOn(k)
  BY <1>1 DEF ReadingOn, RecvPlaces
<1>5. (\E c \in Clients : "ls" \in Commands[c]) => \A d \in Dirs : Listed(d)
  BY <1>1 DEF Smooth, Listed
<1> QED BY <1>3, <1>4, <1>5 DEF StepInv

LEMMA StepNext == ASSUME Smooth, OrderlyInv, StepInv, [Next]_vars PROVE StepInv'
<1>1. CASE AcceptStep
  BY <1>1, AcceptStays DEF AcceptStep
<1>2. ASSUME NEW c \in Clients, ClientStep(c) \/ (UserStep(c) /\ UNCHANGED serverVars) PROVE StepInv'
  BY <1>2, ProgramStays, UserStays DEF ClientStep
<1>3. ASSUME NEW t \in Conns, ServerStep(t) \/ (BrokenPipe(t) /\ UNCHANGED clientVars) PROVE StepInv'
  BY <1>3, ThreadStays DEF ServerStep
<1>4. CASE UNCHANGED vars
  BY <1>4, StepStutter
<1> QED BY <1>1, <1>2, <1>3, <1>4 DEF Next
-----------------------------------------------------------------------------
SmoothInv == OrderlyInv /\ StepInv
LEMMA SmoothRun ==
    ASSUME Smooth
    PROVE  /\ Init => SmoothInv
           /\ SmoothInv /\ [Next]_vars => SmoothInv'
<1>1. Orderly
  BY DEF Smooth
<1> QED BY <1>1, OrderlyInit, OrderlyNext, StepInit, StepNext DEF SmoothInv

(* What a client has still to send and what its thread has still to send   *)
(* are, with what is on the way, always the exchange the client is in.     *)
THEOREM StepsKept == ASSUME Smooth PROVE Spec => []StepInv
<1>1. SmoothInv => StepInv
  BY DEF SmoothInv
<1>2. Init => SmoothInv
  BY SmoothRun
<1>3. SmoothInv /\ [Next]_vars => SmoothInv'
  BY SmoothRun
<1> QED BY <1>1, <1>2, <1>3, PTL DEF Spec

(* When a handler of the client returns it has read all of its reply: the  *)
(* reply to the next command is read from its first byte on.               *)
THEOREM InStepKept == ASSUME Smooth PROVE Spec => []InStep
<1>1. SmoothInv => InStep
  <2> SUFFICES ASSUME SmoothInv, NEW c \in Clients, c_pc[c] = "prompt", c_sock[c] \in clientEnds
               PROVE  s2c[c_sock[c]] = <<>>
    BY DEF InStep
  <2>1. PICK k \in Conns : c_sock[c] = k
    BY TypesOf DEF SmoothInv
  <2>2. Paired(c, k)
    BY <2>1 DEF SmoothInv, StepInv, Smoothly
  <2> QED BY <2>1, <2>2 DEF Paired
<1>2. Init => SmoothInv
  BY SmoothRun
<1>3. SmoothInv /\ [Next]_vars => SmoothInv'
  BY SmoothRun
<1> QED BY <1>1, <1>2, <1>3, PTL DEF Spec

(* A thread that is inside safe_recv, with nothing more on the way to it,  *)
(* has sent its client all that the client is waiting for.                 *)
LEMMA NoWait ==
    ASSUME Smooth, OrderlyInv, StepInv, NEW c \in Clients, NEW k \in Conns, c_sock[c] = k,
           c_pc[c] \in {"reply", "header", "body"}, t_pc[k] \in RecvPlaces, c2s[k] = <<>>
    PROVE  ~(Len(s2c[k]) < Missing(c))
<1>1. Paired(c, k) /\ ReadingOn(k)
  BY Connected DEF StepInv
<1>2. /\ t_got[k] \in Seq(Units) /\ s2c[k] \in Seq(Units) /\ Unsent(c) = <<>>
      /\ t_buf[k] \in Short
  BY Connected DEF Unsent
<1>3. Ahead(c, k) = t_got[k]
  <2>1. (t_got[k] \o <<>>) \o <<>> = t_got[k]
    BY <1>2, NoUnits
  <2> QED BY <1>2, <2>1 DEF Ahead
(* The client has not sent too little.                                     *)
<1>4. ~Asking(c, k)
  <2> SUFFICES ASSUME Asking(c, k) PROVE FALSE
    OBVIOUS
  <2>1. c_cmd[c] \in Typed /\ (c_cmd[c] \in Naming => c_arg[c] \in FileNames \union Dirs)
    BY Connected
  <2>2. /\ Asked(c) = Asks(c) \o Names(c) /\ Asked(c) \in Seq(Units) /\ Asked(c) # <<>>
        /\ Names(c) \in Seq(Units) /\ Asks(c) \in Seq(Units) /\ Len(Asks(c)) = 2
    BY <2>1, AskedUnits DEF Smooth
  <2>3. Len(Asked(c)) \in Nat /\ Len(Asked(c)) >= 2
    <3>1. Len(Asks(c) \o Names(c)) = Len(Asks(c)) + Len(Names(c)) /\ Len(Names(c)) \in Nat
      BY <2>2, JoinedUnits
    <3> QED BY <2>2, <3>1
  <2>4. CASE t_pc[k] = "payload"
    <3>1. t_len[k] = 1 /\ Ahead(c, k) = NameOf(c) /\ c_cmd[c] \in Naming
      BY <2>4 DEF Asking, Ready, Storing
    <3>2. Len(t_got[k]) = 1 /\ t_got[k] # <<>>
      BY <1>3, <2>1, <3>1, NameUnits DEF NameOf
    <3> QED BY <1>1, <2>4, <3>1, <3>2 DEF ReadingOn, Needed, RecvPlaces
  <2>5. CASE t_pc[k] = "request"
    <3>1. t_got[k] = <<>> \o Asked(c)
      BY <1>3, <2>5, NoUnits DEF Asking, Ready, ToStore
    <3>2. t_got[k] = Asked(c)
      BY <2>2, <3>1, NoUnits
    <3> QED BY <1>1, <2>2, <2>3, <2>5, <3>2 DEF ReadingOn, Needed, HeaderLen, RecvPlaces
  <2>6. CASE t_pc[k] \in {"putHeader", "putBody"}
    <3>1. Storing(c, k) /\ t_got[k] = ToStore(c, k) \o Asked(c)
      BY <1>3, <2>6 DEF Asking, Ready
    <3>2. ToStore(c, k) \in Seq(Units) /\ Original(c, k) \in Short
      BY <3>1, StoringUnits
    <3>3. /\ Len(t_got[k]) = Len(ToStore(c, k)) + Len(Asked(c)) /\ Len(ToStore(c, k)) \in Nat
      BY <2>2, <3>1, <3>2, JoinedUnits
    <3>4. t_pc[k] = "putBody" => Needed(k) = Len(ToStore(c, k))
      BY <3>1 DEF Storing, Needed, ToStore
    <3>5. t_pc[k] = "putHeader" => Needed(k) = 2
      BY DEF Needed, HeaderLen
    <3>6. t_got[k] # <<>>
      BY <2>2, <3>1, <3>2, NothingJoined
    <3> QED BY <1>1, <2>3, <2>6, <3>3, <3>4, <3>5, <3>6 DEF ReadingOn, RecvPlaces
  <2> QED BY <2>4, <2>5, <2>6 DEF RecvPlaces
<1>5. Answered(c, k) /\ Unanswered(k) = <<>>
  BY <1>1, <1>4 DEF Paired, Unanswered, RecvPlaces
<1>6. ToCome(k) = s2c[k]
  BY <1>2, <1>5, NoUnits DEF ToCome
(* All of the answer has come.                                             *)
<1>7. Len(s2c[k]) \in Nat /\ Missing(c) \in Nat /\ Len(s2c[k]) >= Missing(c)
  <2>1. Len(s2c[k]) \in Nat
    BY <1>2, NoUnits
  <2>2. \A type \in Types, status \in Statuses : Len(Answer(type, status)) = 2
    BY AnswerUnits DEF Smooth
  <2>3. CASE c_pc[c] = "body"
    <3>1. c_len[c] = Len(ToCome(k))
      BY <1>5, <2>3
         DEF Answered, OpenAnswered, QuitAnswered, CdAnswered, PutAnswered, LsAnswered,
             GetRefused, GetBegun, GetAnswered
    <3> QED BY <1>6, <2>1, <2>3, <3>1 DEF Missing
  <2>4. CASE c_pc[c] \in {"reply", "header"}
    <3>1. Missing(c) = 2
      BY <2>4 DEF Missing, HeaderLen
    <3>2. CASE OpenAnswered(c, k) \/ QuitAnswered(c, k) \/ CdAnswered(c, k)
               \/ PutAnswered(c, k) \/ GetRefused(c, k)
      <4>1. PICK type \in Types, status \in Statuses : s2c[k] = Answer(type, status)
        BY <3>2 DEF OpenAnswered, QuitAnswered, CdAnswered, PutAnswered, GetRefused, Types, Statuses,
                    StatusOf, OpenAnswer, Answer
      <4>2. Len(s2c[k]) = 2
        BY <2>2, <4>1
      <4> QED BY <3>1, <4>2
    <3>3. CASE LsAnswered(c, k)
      <4>1. PICK l \in Tails(s2c[k]) : s2c[k] = Header("LIST_REPLY", "STATUS_UNUSED", Len(l)) \o l
                                       /\ Len(l) \in 2 .. Longest
        BY <1>6, <2>4, <3>3 DEF LsAnswered
      <4>2. l \in Seq(Units)
        BY <1>2, TailUnits
      <4>3. Header("LIST_REPLY", "STATUS_UNUSED", Len(l)) \in Seq(Units)
            /\ Len(Header("LIST_REPLY", "STATUS_UNUSED", Len(l))) = 2
        <5>1. "LIST_REPLY" \in Types /\ "STATUS_UNUSED" \in Statuses /\ Len(l) \in 0 .. Longest
          BY <4>1 DEF Types, Statuses
        <5> QED BY <5>1, HeaderUnits
      <4> QED BY <3>1, <4>1, <4>2, <4>3, JoinedUnits
    <3>4. CASE GetAnswered(c, k)
      <4>1. PICK b \in Short : \/ s2c[k] = FileMessage(b)
                               \/ s2c[k] = Answer("GET_REPLY", "STATUS_OK") \o FileMessage(b)
        BY <1>6, <2>4, <3>4 DEF GetAnswered
      <4>2. FileMessage(b) \in Seq(Units) /\ Len(FileMessage(b)) >= 2
        <5> DEFINE m == Header("FILE_DATA", "STATUS_UNUSED", Len(b))
        <5>1. FileMessage(b) = m \o b /\ m \in Seq(Units) /\ Len(m) = 2 /\ b \in Seq(Units)
          BY FileMessageUnits
        <5> HIDE DEF m
        <5>2. Len(m \o b) = Len(m) + Len(b) /\ Len(b) \in Nat /\ m \o b \in Seq(Units)
          BY <5>1, JoinedUnits
        <5> QED BY <5>1, <5>2
      <4>3. Answer("GET_REPLY", "STATUS_OK") \in Seq(Units)
        BY AnswerUnits DEF Smooth, Types, Statuses
      <4> QED BY <3>1, <4>1, <4>2, <4>3, JoinedUnits
    <3>5. ~GetBegun(c, k)
      BY DEF GetBegun, RecvPlaces
    <3> QED BY <1>5, <2>1, <3>1, <3>2, <3>3, <3>4, <3>5 DEF Answered
  <2> QED BY <2>3, <2>4
<1> QED BY <1>7

(* No client and its thread ever wait for each other inside safe_recv,     *)
(* which has no timeout.                                                   *)
THEOREM NoMutualWaitKept == ASSUME Smooth PROVE Spec => []NoMutualWait
<1>1. SmoothInv => NoMutualWait
  <2> SUFFICES ASSUME SmoothInv, NEW c \in Clients, NEW k, k = c_sock[c],
                      c_pc[c] \in {"reply", "header", "body"}, k \in clientEnds,
                      Len(s2c[k]) < Missing(c), t_pc[k] \in RecvPlaces, c2s[k] = <<>>
               PROVE  FALSE
    BY DEF NoMutualWait
  <2>1. k \in Conns
    BY TypesOf DEF SmoothInv
  <2> QED BY <2>1, NoWait DEF SmoothInv
<1>2. Init => SmoothInv
  BY SmoothRun
<1>3. SmoothInv /\ [Next]_vars => SmoothInv'
  BY SmoothRun
<1> QED BY <1>1, <1>2, <1>3, PTL DEF Spec

(* With one client: what its handle_put has reported as uploaded is in the *)
(* directory of its session, whole, once the thread reads requests again.  *)
THEOREM UploadKeptThere == ASSUME Smooth, Sole PROVE Spec => []UploadKept
<1>1. SmoothInv => UploadKept
  <2> SUFFICES ASSUME SmoothInv, NEW c \in Clients, NEW k, k = c_sock[c],
                      c_pc[c] = "prompt", c_cmd[c] = "put", c_ret[c] = 0,
                      k \in clientEnds, t_pc[k] = "request"
               PROVE  files[<<t_dir[k], c_arg[c]>>] = c_files[c][c_arg[c]]
    BY DEF UploadKept
  <2>1. k \in Conns
    BY TypesOf DEF SmoothInv
  <2>2. Paired(c, k)
    BY <2>1 DEF SmoothInv, StepInv, Smoothly
  <2> QED BY <2>2 DEF Paired, Stored, TheFile
<1>2. Init => SmoothInv
  BY SmoothRun
<1>3. SmoothInv /\ [Next]_vars => SmoothInv'
  BY SmoothRun
<1> QED BY <1>1, <1>2, <1>3, PTL DEF Spec
-----------------------------------------------------------------------------
(* With one client the programs take the steps of RemoteFiles.             *)

(* What has come of a message that a stream begins with                    *)
LEMMA HasBegun ==
    \A x, u, m, r \in Seq(Units) :
        x \o u = m \o r /\ Len(m) = 2 /\ Len(x) >= 2 => First(x, 2) = m
<1> SUFFICES ASSUME NEW x \in Seq(Units), NEW u \in Seq(Units), NEW m \in Seq(Units),
                    NEW r \in Seq(Units), x \o u = m \o r, Len(m) = 2, Len(x) >= 2
             PROVE  First(x, 2) = m
  OBVIOUS
<1> DEFINE f == First(x, 2)
           a == After(x, 2)
<1>1. f \in Seq(Units) /\ Len(f) = 2 /\ a \in Seq(Units) /\ f \o a = x
  <2>1. Len(x) \in Nat /\ 2 \in 0 .. Len(x)
    BY NoUnits
  <2> QED BY <2>1, Split
<1> HIDE DEF f, a
<1>2. f \o (a \o u) = m \o r /\ a \o u \in Seq(Units)
  <2>1. f \in Seq(Units) /\ a \in Seq(Units)
    BY <1>1
  <2>2. (f \o a) \o u = f \o (a \o u)
    BY <2>1, Chained, ZenonT(30)
  <2>3. a \o u \in Seq(Units)
    BY <2>1, JoinedUnits
  <2> QED BY <1>1, <2>2, <2>3
<1>3. f = m
  BY <1>1, <1>2, Parts
<1> QED BY <1>3 DEF f

(* What there is for the thread to read, and what the client is to add     *)
LEMMA ThereAndUnsent ==
    ASSUME Smooth, OrderlyInv, StepInv, NEW c \in Clients, NEW k \in Conns, c_sock[c] = k
    PROVE  /\ t_got[k] \o c2s[k] \in Seq(Units) /\ Unsent(c) \in Seq(Units)
           /\ Len(t_got[k]) \in Nat /\ Len(c2s[k]) \in Nat /\ Len(Unsent(c)) \in Nat
           /\ Len(t_got[k] \o c2s[k]) = Len(t_got[k]) + Len(c2s[k])
           /\ Len(Ahead(c, k)) = Len(t_got[k]) + Len(c2s[k]) + Len(Unsent(c))
<1>1. t_got[k] \in Seq(Units) /\ c2s[k] \in Seq(Units) /\ Unsent(c) \in Seq(Units)
  BY Connected
<1>2. /\ t_got[k] \o c2s[k] \in Seq(Units)
      /\ Len(t_got[k] \o c2s[k]) = Len(t_got[k]) + Len(c2s[k])
      /\ Len(t_got[k]) \in Nat /\ Len(c2s[k]) \in Nat
  BY <1>1, JoinedUnits
<1>3. Len(Ahead(c, k)) = Len(t_got[k] \o c2s[k]) + Len(Unsent(c)) /\ Len(Unsent(c)) \in Nat
  BY <1>1, <1>2, JoinedUnits DEF Ahead
<1> QED BY <1>1, <1>2, <1>3

(* A thread in the second half of put has not answered, or only begun to.  *)
LEMMA PutStands ==
    ASSUME Smooth, OrderlyInv, StepInv, NEW c \in Clients, NEW k \in Conns, c_sock[c] = k,
           t_pc[k] \in {"putHeader", "putBody", "putOpen", "putWrite"}
    PROVE  \/ /\ Answered(c, k) /\ Ahead(c, k) = <<>> /\ t_pc[k] = "putHeader"
              /\ s2c[k] # <<>>
           \/ /\ Storing(c, k) /\ s2c[k] = <<>>
              /\ c_pc[c] \in {"prompt", "name", "reply", "fileHeader", "fileBody"}
              /\ \E v \in {<<>>, Asked(c)} :
                    /\ Ahead(c, k) = ToStore(c, k) \o v
                    /\ c_pc[c] \in {"name", "reply"} => v = Asked(c)
                    /\ c_pc[c] \notin {"name", "reply"} => v = <<>>
              /\ c_pc[c] \in {"fileHeader", "fileBody"} =>
                    Original(c, k) = c_files[c][c_arg[c]]
              /\ c_pc[c] = "fileBody" => c_files[c][c_arg[c]] # <<>>
<1>1. Paired(c, k) /\ c_pc[c] \in ClientPlaces
  BY Connected, TypesOf DEF ClientTypeOK
<1>2. CASE Answered(c, k)
  <2>1. PutAnswered(c, k) /\ Ahead(c, k) = <<>>
    BY <1>2 DEF Answered, OpenAnswered, QuitAnswered, CdAnswered, LsAnswered,
                GetRefused, GetBegun, GetAnswered, Over
  <2>2. Answer("PUT_REPLY", "STATUS_UNUSED") # <<>>
    BY AnswerUnits DEF Smooth, Types, Statuses
  <2> QED BY <1>2, <2>1, <2>2 DEF PutAnswered
<1>3. CASE ~Answered(c, k)
  <2>1. CASE c_pc[c] = "prompt"
    BY <1>1, <2>1 DEF Paired, Ready
  <2>2. CASE c_pc[c] \in {"name", "reply"}
    <3>1. Asking(c, k)
      BY <1>1, <1>3, <2>2 DEF Paired
    <3>2. s2c[k] = <<>> /\ Ready(c, k, Asked(c))
      BY <3>1 DEF Asking
    <3> QED BY <2>2, <3>2 DEF Ready
  <2>3. CASE c_pc[c] \in {"fileHeader", "fileBody"}
    BY <1>1, <2>3 DEF Paired, Ready, Original
  <2>4. c_pc[c] \notin {"header", "body", "exited"}
    BY <1>1, <1>3 DEF Paired
  <2> QED BY <1>1, <2>1, <2>2, <2>3, <2>4 DEF ClientPlaces
<1> QED BY <1>2, <1>3

(* What handle_put has said and what the thread has still to read of it is *)
(* an upload on its way exactly when all of it is there.                   *)
LEMMA UploadSeen ==
    ASSUME Smooth, OrderlyInv, StepInv, NEW c \in Clients, NEW k \in Conns, c_sock[c] = k
    PROVE  Uploading(k) <=> UploadSent(c, k)
<1> DEFINE x == t_got[k] \o c2s[k]
           f == Original(c, k)
           m == Header("FILE_DATA", "STATUS_UNUSED", Len(f))
           has == Len(t_got[k]) + Len(c2s[k])
<1>1. /\ x \in Seq(Units) /\ Unsent(c) \in Seq(Units) /\ Len(x) = has
      /\ has \in Nat /\ Len(Unsent(c)) \in Nat
      /\ Len(Ahead(c, k)) = has + Len(Unsent(c)) /\ Ahead(c, k) = x \o Unsent(c)
  <2>1. Ahead(c, k) = x \o Unsent(c)
    BY DEF Ahead
  <2>2. \A i, j \in Nat : i + j \in Nat
    OBVIOUS
  <2> QED BY <2>1, <2>2, ThereAndUnsent
<1> HIDE DEF x, has
<1>2. CASE t_pc[k] \notin {"putHeader", "putBody", "putOpen", "putWrite"}
  BY <1>2 DEF Uploading, UploadSent, Storing
<1>3. CASE /\ Answered(c, k) /\ Ahead(c, k) = <<>> /\ t_pc[k] = "putHeader"
           /\ s2c[k] # <<>>
  <2>1. has = 0
    <3>1. Len(Ahead(c, k)) = 0
      BY <1>3
    <3>2. has \in Nat /\ Len(Unsent(c)) \in Nat /\ has + Len(Unsent(c)) = 0
      BY <1>1, <3>1
    <3> QED BY <3>2
  <2>2. ~(has >= 2)
    BY <2>1
  <2>3. ~(Len(t_got[k]) + Len(c2s[k]) >= 2)
    BY <2>2, Zenon DEF has
  <2>4. ~Uploading(k)
    BY <1>3, <2>3 DEF Uploading, HeaderLen
  <2> QED BY <1>3, <2>4 DEF UploadSent
<1>4. ASSUME Storing(c, k), s2c[k] = <<>>,
             c_pc[c] \in {"prompt", "name", "reply", "fileHeader", "fileBody"},
             NEW v \in {<<>>, Asked(c)}, Ahead(c, k) = ToStore(c, k) \o v,
             c_pc[c] \in {"name", "reply"} => v = Asked(c),
             c_pc[c] \notin {"name", "reply"} => v = <<>>,
             c_pc[c] \in {"fileHeader", "fileBody"} => Original(c, k) = c_files[c][c_arg[c]],
             c_pc[c] = "fileBody" => c_files[c][c_arg[c]] # <<>>
      PROVE  Uploading(k) <=> UploadSent(c, k)
  <2>1. /\ f \in Seq(Units) /\ Len(f) \in Nat /\ m \in Seq(Units) /\ Len(m) = 2
        /\ FileMessage(f) = m \o f /\ PayloadLen(HeaderIn(m)) = Len(f)
    BY <1>4, StoringUnits, FileMessageUnits
  <2>2. Len(FileMessage(f)) = 2 + Len(f)
    <3> HIDE DEF m, f
    <3>1. Len(m \o f) = Len(m) + Len(f)
      BY <2>1, JoinedUnits
    <3> QED BY <2>1, <3>1
  <2>3. ToStore(c, k) = IF t_pc[k] = "putHeader" THEN m \o f
                        ELSE IF t_pc[k] = "putBody" THEN f ELSE <<>>
    BY <2>1 DEF ToStore
  <2>4. v \in Seq(Units) /\ (c_pc[c] \in {"name", "reply"} => Len(v) >= 2)
        /\ (c_pc[c] \notin {"name", "reply"} => Len(v) = 0)
    <3>1. /\ Asked(c) = Asks(c) \o Names(c) /\ Asked(c) \in Seq(Units)
          /\ Asks(c) \in Seq(Units) /\ Names(c) \in Seq(Units) /\ Len(Asks(c)) = 2
      BY Connected, AskedUnits DEF Smooth
    <3>2. Len(Asked(c)) >= 2
      <4>1. Asks(c) \in Seq(Units) /\ Names(c) \in Seq(Units)
        BY <3>1
      <4>2. /\ Len(Asks(c) \o Names(c)) = Len(Asks(c)) + Len(Names(c))
            /\ Len(Names(c)) \in Nat
        BY <4>1, JoinedUnits
      <4>3. Len(Asked(c)) = 2 + Len(Names(c))
        BY <3>1, <4>2
      <4> QED BY <4>2, <4>3
    <3> QED BY <1>4, <3>1, <3>2, NoUnits
  <2>5. Len(ToStore(c, k)) = IF t_pc[k] = "putHeader" THEN 2 + Len(f)
                             ELSE IF t_pc[k] = "putBody" THEN Len(f) ELSE 0
    BY <2>1, <2>2, <2>3
  <2>6. has + Len(Unsent(c)) = Len(ToStore(c, k)) + Len(v) /\ Len(v) \in Nat
    <3>1. ToStore(c, k) \in Seq(Units)
      BY <1>4, StoringUnits
    <3>2. Len(ToStore(c, k) \o v) = Len(ToStore(c, k)) + Len(v) /\ Len(v) \in Nat
      BY <2>4, <3>1, JoinedUnits
    <3> QED BY <1>1, <1>4, <3>2
  <2>7. t_pc[k] = "putHeader" /\ has >= 2 => First(x, 2) = m
    <3> SUFFICES ASSUME t_pc[k] = "putHeader", has >= 2 PROVE First(x, 2) = m
      OBVIOUS
    <3>1. f \o v \in Seq(Units) /\ (m \o f) \o v = m \o (f \o v)
      <4> HIDE DEF m, f
      <4> QED BY <2>1, <2>4, Chained, JoinedUnits
    <3>2. x \o Unsent(c) = m \o (f \o v)
      BY <1>1, <1>4, <2>3, <3>1
    <3> HIDE DEF m, f
    <3>3. /\ x \in Seq(Units) /\ Unsent(c) \in Seq(Units) /\ m \in Seq(Units)
          /\ Len(m) = 2 /\ Len(x) >= 2
      BY <1>1, <2>1
    <3> QED BY <3>1, <3>2, <3>3, HasBegun
  <2>8. t_pc[k] \in {"putHeader", "putBody", "putOpen", "putWrite"}
        /\ (t_pc[k] = "putBody" => t_len[k] = Len(f))
    BY <1>4 DEF Storing
  <2>9. Uploading(k) <=> \/ t_pc[k] \in {"putOpen", "putWrite"}
                         \/ t_pc[k] = "putBody" /\ has >= Len(f)
                         \/ t_pc[k] = "putHeader" /\ has >= 2 + Len(f)
    <3>1. CASE t_pc[k] = "putHeader"
      <4>1. Uploading(k) <=> has >= 2 /\ has >= 2 + PayloadLen(HeaderIn(First(x, 2)))
        BY <3>1 DEF Uploading, HeaderLen, has, x
      <4>2. has >= 2 => PayloadLen(HeaderIn(First(x, 2))) = Len(f)
        BY <2>1, <2>7, <3>1
      <4>3. has \in Nat /\ Len(f) \in Nat
        BY <1>1, <2>1
      <4> QED BY <3>1, <4>1, <4>2, <4>3
    <3>2. CASE t_pc[k] # "putHeader"
      BY <2>8, <3>2 DEF Uploading, has
    <3> QED BY <3>1, <3>2
  <2>10. UploadSent(c, k) <=> c_pc[c] \notin {"fileHeader", "fileBody"}
    BY <1>4 DEF UploadSent
  <2>11. CASE c_pc[c] \in {"prompt", "name", "reply"}
    <3>1. Len(Unsent(c)) =< Len(v)
      <4>1. CASE c_pc[c] = "name"
        <5>1. Len(Unsent(c)) = 1
          BY <4>1 DEF Unsent, NameOf
        <5> QED BY <2>4, <4>1, <5>1
      <4>2. CASE c_pc[c] \in {"prompt", "reply"}
        <5>1. Len(Unsent(c)) = 0
          BY <4>2 DEF Unsent
        <5> QED BY <2>6, <5>1
      <4> QED BY <2>11, <4>1, <4>2
    <3>2. has >= Len(ToStore(c, k))
      <4>1. /\ Len(ToStore(c, k)) \in Nat /\ has \in Nat /\ Len(v) \in Nat
            /\ Len(Unsent(c)) \in Nat
        BY <1>1, <2>1, <2>5, <2>6
      <4> QED BY <2>6, <3>1, <4>1
    <3> QED BY <2>5, <2>8, <2>9, <2>10, <2>11, <3>2
  <2>12. CASE c_pc[c] = "fileHeader"
    <3>1. Len(Unsent(c)) = 2 + Len(f) /\ Len(v) = 0
      BY <1>4, <2>2, <2>4, <2>12 DEF Unsent
    <3>2. ~Uploading(k)
      BY <1>1, <2>1, <2>5, <2>6, <2>8, <2>9, <3>1
    <3> QED BY <2>10, <2>12, <3>2
  <2>13. CASE c_pc[c] = "fileBody"
    <3>1. Len(Unsent(c)) = Len(f) /\ Len(v) = 0 /\ Len(f) # 0
      BY <1>4, <2>1, <2>4, <2>13, NoUnits DEF Unsent
    <3>2. ~Uploading(k)
      BY <1>1, <2>1, <2>5, <2>6, <2>8, <2>9, <3>1
    <3> QED BY <2>10, <2>13, <3>2
  <2> QED BY <1>4, <2>11, <2>12, <2>13
<1> QED BY <1>2, <1>3, <1>4, PutStands
-----------------------------------------------------------------------------
(* A client that opens no connection keeps its own or has none.            *)
LEMMA SocketKept ==
    ASSUME NEW c \in Clients, ProgramStep(c) \/ (UserStep(c) /\ ~Open(c))
    PROVE  made' = made /\ (c_sock' = c_sock \/ c_sock' = [c_sock EXCEPT ![c] = NoConn])
<1>1. ASSUME NEW cmd, NEW units, ClientSends(c, units) \/ CannotSend(c, cmd)
      PROVE  c_sock' = c_sock \/ c_sock' = [c_sock EXCEPT ![c] = NoConn]
  BY <1>1 DEF ClientSends, CannotSend, Disconnected
<1>2. ASSUME NEW o, NEW keep, RecvByRef(c, o) \/ RecvByValue(c, o) \/ RecvOrClose(c, o, keep)
      PROVE  c_sock' = c_sock \/ c_sock' = [c_sock EXCEPT ![c] = NoConn]
  BY <1>2 DEF RecvByRef, RecvByValue, RecvOrClose, Disconnected
<1>3. CASE SendName(c) \/ FileHeader(c) \/ FileBody(c)
  <2>1. \E cmd, units : ClientSends(c, units) \/ CannotSend(c, cmd)
    BY <1>3 DEF SendName, FileHeader, FileBody
  <2>2. made' = made
    BY <1>3 DEF SendName, FileHeader, FileBody, serverSide
  <2> QED BY <1>1, <2>1, <2>2
<1>4. CASE \/ OpenReply(c) \/ QuitReply(c) \/ LsReply(c) \/ CdReply(c)
           \/ GetReply(c) \/ PutReply(c) \/ ShaReply(c)
           \/ GetHeader(c) \/ ShaHeader(c)
           \/ GetBody(c) \/ LsBody(c) \/ ShaBody(c)
  <2>1. \E o, keep : RecvByRef(c, o) \/ RecvByValue(c, o) \/ RecvOrClose(c, o, keep)
    BY <1>4 DEF OpenReply, QuitReply, LsReply, CdReply, GetReply, PutReply, ShaReply,
                GetHeader, ShaHeader, GetBody, LsBody, ShaBody
  <2>2. \E place, cmd : Awaits(c, place, cmd)
    BY <1>4 DEF OpenReply, QuitReply, LsReply, CdReply, GetReply, PutReply, ShaReply,
                GetHeader, ShaHeader, GetBody, LsBody, ShaBody
  <2>3. made' = made
    BY <2>2 DEF Awaits, serverSide
  <2> QED BY <1>2, <2>1, <2>3
<1>5. CASE Quit(c) \/ Ls(c) \/ Cd(c) \/ Get(c) \/ Put(c) \/ Sha256(c)
  <2>1. PICK cmd, units : Command(c, cmd, units)
    BY <1>5 DEF Quit, Ls, Cd, Get, Put, Sha256, NamesFile
  <2>2. ClientSends(c, Header(Request(cmd), "STATUS_UNUSED", units)) \/ CannotSend(c, cmd)
    BY <2>1 DEF Command
  <2>3. made' = made
    BY <2>1 DEF Command, serverSide
  <2> QED BY <1>1, <2>2, <2>3
<1>6. CASE OpenRefused(c) \/ PutMissing(c)
  BY <1>6 DEF OpenRefused, PutMissing, wire, Disconnected
<1>7. CASE Exit(c) \/ Killed(c)
  BY <1>7 DEF Exit, Killed, Gone, serverSide, Disconnected
<1> QED BY <1>3, <1>4, <1>5, <1>6, <1>7 DEF ProgramStep, UserStep

LEMMA ThreadGoes ==
    ASSUME OrderlyInv, NEW t \in Conns, ThreadStep(t)
    PROVE  made' = made /\ t_pc'[t] # "idle"
<1>1. DescriptorInv /\ t_pc \in [Conns -> ServerPlaces]
  BY DEF OrderlyInv, DescriptorInv, ControlTypeOK
<1>2. CASE CloseFd(t)
  BY <1>1, <1>2 DEF CloseFd, clientSide, Jump
<1>3. CASE GoesOn(t)
  BY <1>1, <1>3 DEF GoesOn, Busy
<1> QED BY <1>1, <1>2, <1>3, ReadsGoOn, MessagesGoOn, HandlersGoOn, TransfersGoOn DEF ThreadStep

(* With one client its connection is the last.                             *)
LEMMA NewestKept ==
    ASSUME Sole, OrderlyInv, Newest, [Next]_vars
    PROVE  Newest'
<1>1. /\ ClientTypeOK /\ Handlers /\ t_pc \in [Conns -> ServerPlaces]
      /\ accepted \in 0 .. made /\ made \in 0 .. MaxConns /\ MaxConns \in Nat
  BY FunctionsOf, TypesOf, FtpWireAssumption DEF OrderlyInv, DescriptorInv, ControlTypeOK
<1>2. ASSUME NEW t \in Conns, made' = made, UNCHANGED clientVars, t_pc'[t] # "idle",
             \A k \in Conns \ {t} : t_pc'[k] = t_pc[k] /\ t_dir'[k] = t_dir[k]
      PROVE  Newest'
  <2>1. c_sock' = c_sock
    BY <1>2 DEF clientVars
  <2>2. ASSUME NEW k \in Conns, t_pc'[k] = "idle" PROVE t_dir'[k] = TopDir
    <3>1. k # t
      BY <1>2, <2>2
    <3> QED BY <1>2, <2>2, <3>1 DEF Newest
  <2> QED BY <1>2, <2>1, <2>2 DEF Newest
<1>3. CASE AcceptStep
  <2>1. PICK t \in Conns : t = accepted + 1
    BY <1>1, <1>3 DEF AcceptStep, Accept, Queued, Conns
  <2>2. made' = made /\ t_dir' = t_dir /\ t_pc' = [t_pc EXCEPT ![t] = "request"]
    BY <1>3, <2>1 DEF AcceptStep, Accept, Jump, clientSide
  <2>3. UNCHANGED clientVars
    BY <1>3 DEF AcceptStep
  <2> QED BY <1>1, <1>2, <2>1, <2>2, <2>3
<1>4. ASSUME NEW c \in Clients, ProgramStep(c) \/ UserStep(c), UNCHANGED serverVars
      PROVE  Newest'
  <2>1. t_pc' = t_pc /\ t_dir' = t_dir
    BY <1>4 DEF serverVars
  <2>2. CASE Open(c)
    <3>1. c_sock' = [c_sock EXCEPT ![c] = made']
      BY <2>2 DEF Open
    <3>2. \A d \in Clients : c_sock'[d] = made'
      BY <1>1, <3>1 DEF ClientTypeOK, Sole
    <3> QED BY <2>1, <3>2 DEF Newest
  <2>3. CASE ~Open(c)
    <3>1. made' = made /\ (c_sock' = c_sock \/ c_sock' = [c_sock EXCEPT ![c] = NoConn])
      BY <1>4, <2>3, SocketKept
    <3>2. \A d \in Clients : c_sock'[d] = c_sock[d] \/ c_sock'[d] = NoConn
      BY <1>1, <3>1 DEF ClientTypeOK
    <3> QED BY <2>1, <3>1, <3>2 DEF Newest
  <2> QED BY <2>2, <2>3
<1>5. ASSUME NEW t \in Conns, ThreadStep(t), UNCHANGED clientVars PROVE Newest'
  <2>1. OthersAlone(t)
    BY <1>5, ThreadAlone
  <2>2. made' = made /\ t_pc'[t] # "idle"
    BY <1>5, ThreadGoes
  <2> QED BY <1>2, <1>5, <2>1, <2>2 DEF OthersAlone
<1>6. ASSUME NEW t \in Conns PROVE ~BrokenPipe(t)
  BY ReadsWell
<1>7. CASE UNCHANGED vars
  BY <1>7 DEF vars, wire, clientVars, serverVars, Newest
<1> QED BY <1>3, <1>4, <1>5, <1>6, <1>7 DEF Next, ClientStep, ServerStep

(* Whether an upload is on its way, said of the client and its thread      *)
PutSent(c) == made # 0 /\ c_sock[c] = made /\ UploadSent(c, made)
Seen == made # 0 => (Uploading(made) <=> PutSent(TheClient))
Known == SmoothInv /\ Newest /\ Seen

LEMMA OnlyClient ==
    ASSUME Sole, Clients # {}
    PROVE  TheClient \in Clients /\ \A c \in Clients : c = TheClient
<1>1. TheClient \in Clients
  BY DEF TheClient
<1> QED BY <1>1 DEF Sole

LEMMA LastMade ==
    ASSUME OrderlyInv, made # 0
    PROVE  made \in Conns
BY FtpWireAssumption DEF OrderlyInv, DescriptorInv, ControlTypeOK, Conns

(* A thread that is about to do anything but close is the last one, and    *)
(* serves the client.                                                      *)
LEMMA LastServes ==
    ASSUME Sole, OrderlyInv, Newest, NEW c \in Clients, NEW t \in Conns,
           t_pc[t] \notin {"idle", "close", "ended"}
    PROVE  t = made /\ made # 0 /\ c_sock[c] = t
<1>1. t \in clientEnds /\ t # NoConn
  BY ThreadStands, Numbers
<1>2. owner[t] \in Clients /\ OneSocket(owner[t])
  BY <1>1 DEF OrderlyInv, FramesInv, SessionInv
<1>3. c_sock[owner[t]] = t
  BY <1>1, <1>2 DEF OneSocket
<1> QED BY <1>1, <1>2, <1>3 DEF Newest, Sole, NoConn

LEMMA SeenThere ==
    ASSUME Smooth, Sole, Clients # {}, SmoothInv, Newest
    PROVE  Seen
<1> DEFINE c == TheClient
<1>1. c \in Clients /\ OrderlyInv /\ StepInv
  BY OnlyClient DEF SmoothInv
<1> HIDE DEF c
<1> SUFFICES ASSUME made # 0 PROVE Uploading(made) <=> PutSent(c)
  BY DEF Seen, c
<1>2. made \in Conns
  BY <1>1, LastMade
<1>3. CASE c_sock[c] = made
  BY <1>1, <1>2, <1>3, UploadSeen DEF PutSent
<1>4. CASE c_sock[c] # made
  <2>1. t_pc[made] \in {"idle", "close", "ended"}
    BY <1>1, <1>2, <1>4, LastServes
  <2> QED BY <1>4, <2>1 DEF Uploading, PutSent
<1> QED BY <1>3, <1>4

(* A step that no user sees                                                *)
Unchanged == UNCHANGED Session!vars
LEMMA Unseen ==
    ASSUME NEW c \in Clients, c = TheClient, Known, Known',
           UNCHANGED <<made, files>>, c_files'[c] = c_files[c],
           made # 0 => /\ t_dir'[made] = t_dir[made]
                       /\ PutSent(c)' <=> PutSent(c)
                       /\ PutSent(c) => t_name'[made] = t_name[made]
    PROVE  Unchanged
<1>1. CurrentDir' = CurrentDir
  BY DEF CurrentDir
<1>2. made # 0 => (Uploading(made) <=> PutSent(c)) /\ (Uploading(made)' <=> PutSent(c)')
  BY DEF Known, Seen
<1>3. OnItsWay' = OnItsWay
  BY <1>2 DEF OnItsWay
<1> QED BY <1>1, <1>3 DEF Unchanged, Session!vars
-----------------------------------------------------------------------------
(* The steps of a thread, as the session sees them                         *)
PutPlaces == {"putHeader", "putBody", "putOpen", "putWrite"}

(* The thread neither was nor is in the second half of put.                *)
LEMMA QuietUnseen ==
    ASSUME NEW c \in Clients, c = TheClient, Known, Known', NEW t \in Conns, t = made, made' = made,
           UNCHANGED clientVars, t_dir'[t] = t_dir[t], files' = files,
           ~UploadSent(c, t), ~UploadSent(c, t)'
    PROVE  Unchanged
<1>1. c_files'[c] = c_files[c]
  BY DEF clientVars
<1>2. ~PutSent(c) /\ ~PutSent(c)'
  BY DEF PutSent
<1> QED BY <1>1, <1>2, Unseen

LEMMA NotSent ==
    ASSUME NEW c \in Clients, NEW t \in Conns, t_pc[t] \notin PutPlaces
    PROVE  ~UploadSent(c, t)
BY DEF UploadSent, Storing, PutPlaces

(* It reads on, in any place.                                              *)
LEMMA ReadsUnseen ==
    ASSUME NEW c \in Clients, c = TheClient, Known, Known', NEW t \in Conns, t = made, made' = made,
           UNCHANGED <<clientVars, t_pc, t_dir, s2c, files>>,
           t_pc[t] # "request" => UNCHANGED handler
    PROVE  Unchanged
<1>1. c_files'[c] = c_files[c] /\ c_pc'[c] = c_pc[c] /\ c_sock' = c_sock
  BY DEF clientVars
<1>2. CASE t_pc[t] = "request"
  <2>1. ~UploadSent(c, t) /\ ~UploadSent(c, t)'
    BY <1>2 DEF UploadSent, Storing
  <2> QED BY <2>1, QuietUnseen
<1>3. CASE t_pc[t] # "request"
  <2>1. SameStore(c, t)
    BY <1>1, <1>3 DEF SameStore, handler
  <2>2. Storing(c, t)' <=> Storing(c, t)
    BY <2>1, StoringSame
  <2>3. UploadSent(c, t)' <=> UploadSent(c, t)
    BY <1>1, <2>2 DEF UploadSent
  <2>4. PutSent(c)' <=> PutSent(c)
    BY <1>1, <2>3 DEF PutSent
  <2>5. t_name' = t_name
    BY <1>3 DEF handler
  <2> QED BY <1>1, <2>4, <2>5, Unseen
<1> QED BY <1>2, <1>3

(* It reads the file.                                                      *)
LEMMA PutReadsUnseen ==
    ASSUME Smooth, NEW c \in Clients, c = TheClient, Known, Known', NEW t \in Conns, t = made,
           c_sock[c] = t, made' = made, UNCHANGED clientVars,
           ReadPutHeader(t) \/ ReadPutBody(t)
    PROVE  Unchanged
<1>1. PutMoves(c, t)
  BY PutHeaderRead, PutBodyRead DEF Known, SmoothInv
<1>2. /\ UNCHANGED <<t_dir, files, s2c, t_name>>
  BY DEF ReadPutHeader, ReadPutBody, ReadAll, Takes
<1>3. c_files'[c] = c_files[c] /\ c_pc'[c] = c_pc[c] /\ c_sock' = c_sock
  BY DEF clientVars
<1>4. UploadSent(c, t)' <=> UploadSent(c, t)
  BY <1>1, <1>2, <1>3 DEF PutMoves, UploadSent
<1>5. PutSent(c)' <=> PutSent(c)
  BY <1>3, <1>4 DEF PutSent
<1> QED BY <1>2, <1>3, <1>5, Unseen

(* It goes from a place outside of the second half of put to another, and  *)
(* stays in its directory.                                                 *)
LEMMA ElsewhereUnseen ==
    ASSUME NEW c \in Clients, c = TheClient, Known, Known', NEW t \in Conns, t = made, made' = made,
           UNCHANGED <<clientVars, t_dir, files>>,
           t_pc[t] \notin PutPlaces, t_pc'[t] \notin PutPlaces
    PROVE  Unchanged
<1>1. ~UploadSent(c, t) /\ ~UploadSent(c, t)'
  BY DEF UploadSent, Storing, PutPlaces
<1> QED BY <1>1, QuietUnseen

LEMMA MessagesUnseen ==
    ASSUME Smooth, NEW c \in Clients, c = TheClient, Known, Known', NEW t \in Conns, t = made,
           UNCHANGED clientVars, ReadRequest(t) \/ ReadPayload(t)
    PROVE  Unchanged
<1>1. t_pc \in [Conns -> ServerPlaces]
  BY FunctionsOf DEF Known, SmoothInv
<1>2. /\ t_pc[t] \in {"request", "payload"} /\ t_pc'[t] \in {"close", "payload", "reply"}
      /\ UNCHANGED <<made, t_dir, files>>
  BY <1>1 DEF ReadRequest, ReadPayload, ReadAll, Takes, Jump
<1> QED BY <1>2, ElsewhereUnseen DEF PutPlaces

LEMMA SendsUnseen ==
    ASSUME Smooth, NEW c \in Clients, c = TheClient, Known, Known', NEW t \in Conns, t = made,
           UNCHANGED clientVars,
           \/ handle_open_conn_request(t) \/ handle_quit_request(t) \/ handle_ls_request(t)
           \/ handle_get(t) \/ handle_sha256(t)
           \/ ReadFile(t) \/ Sha256Sum(t) \/ SendDataHeader(t) \/ SendDataBody(t) \/ SendListing(t)
    PROVE  Unchanged
<1>1. t_pc \in [Conns -> ServerPlaces]
  BY FunctionsOf DEF Known, SmoothInv
<1> DEFINE Places == {"request", "close", "listing", "readFile", "dataHeader", "dataBody"}
<1>2. ASSUME NEW units, NEW ok \in Places, NEW bad \in Places, NEW closes,
             ServerSends(t, units, ok, bad, closes)
      PROVE  t_pc'[t] \in Places /\ made' = made
  BY <1>1, <1>2 DEF ServerSends, Jump
<1>3. CASE \/ handle_open_conn_request(t) \/ handle_quit_request(t) \/ handle_ls_request(t)
           \/ handle_get(t) \/ handle_sha256(t)
  <2>1. /\ t_pc[t] = "reply" /\ UNCHANGED <<t_dir, files>>
        /\ \E units, closes : \E ok, bad \in Places : ServerSends(t, units, ok, bad, closes)
    BY <1>3 DEF handle_open_conn_request, handle_quit_request, handle_ls_request, handle_get,
                handle_sha256, Replies, AfterQuit
  <2> QED BY <1>2, <2>1, ElsewhereUnseen DEF PutPlaces
<1>4. CASE SendDataHeader(t) \/ SendDataBody(t) \/ SendListing(t)
  <2>1. /\ t_pc[t] \in {"dataHeader", "dataBody", "listing"} /\ UNCHANGED <<t_dir, files>>
        /\ \E units, closes : \E ok, bad \in Places : ServerSends(t, units, ok, bad, closes)
    BY <1>4 DEF SendDataHeader, SendDataBody, SendListing, Then
  <2> QED BY <1>2, <2>1, ElsewhereUnseen DEF PutPlaces
<1>5. CASE ReadFile(t) \/ Sha256Sum(t)
  <2>1. /\ t_pc[t] = "readFile" /\ t_pc'[t] \in {"readFile", "dataHeader"}
        /\ UNCHANGED <<made, t_dir, files>>
    BY <1>1, <1>5 DEF ReadFile, Sha256Sum, WithFile, wire, Jump
  <2> QED BY <2>1, ElsewhereUnseen DEF PutPlaces
<1> QED BY <1>3, <1>4, <1>5

(* The reply to put is not read yet when the thread waits for the file.    *)
LEMMA PutRepliedUnseen ==
    ASSUME Smooth, NEW c \in Clients, c = TheClient, Known, Known', NEW t \in Conns, t = made,
           UNCHANGED clientVars, handle_put(t)
    PROVE  Unchanged
<1>1. t_pc \in [Conns -> ServerPlaces] /\ Streams /\ OrderlyInv
  BY FunctionsOf DEF Known, SmoothInv
<1> DEFINE m == Header("PUT_REPLY", "STATUS_UNUSED", 0)
<1>2. /\ t_pc[t] = "reply" /\ UNCHANGED <<t_dir, files>>
      /\ ServerSends(t, m, "putHeader", "close", TRUE)
  BY DEF handle_put, Replies
<1>3. fds[t_fd[t]] = t
  BY <1>1, <1>2, ThreadStands DEF Running
<1>4. s2c[t] \o m # <<>>
  <2>1. s2c[t] \in Seq(Units)
    BY <1>1 DEF Streams
  <2>2. m \in Seq(Units) /\ m # <<>>
    BY AnswerUnits DEF Smooth, Types, Statuses, Answer
  <2> HIDE DEF m
  <2> QED BY <2>1, <2>2, NothingJoined
<1> HIDE DEF m
<1>5. /\ made' = made
      /\ \/ t_pc'[t] = "putHeader" /\ s2c'[t] = s2c[t] \o m
         \/ t_pc'[t] = "close"
  BY <1>1, <1>2, <1>3 DEF ServerSends, Jump, Streams
<1>6. ~UploadSent(c, t)
  BY <1>2 DEF UploadSent, Storing
<1>7. ~UploadSent(c, t)'
  BY <1>4, <1>5 DEF UploadSent, Storing
<1> QED BY <1>2, <1>5, <1>6, <1>7, QuietUnseen
-----------------------------------------------------------------------------
(* The steps that are steps of the session                                 *)
SessionStep == [Session!Next]_(Session!vars)

LEMMA OnWay ==
    ASSUME NEW c \in Clients, c = TheClient, Known, Known'
    PROVE  /\ ~PutSent(c) => OnItsWay = {}
           /\ PutSent(c) => OnItsWay = {[name |-> t_name[made], data |-> Original(c, made)]}
           /\ ~PutSent(c)' => OnItsWay' = {}
           /\ PutSent(c)' => OnItsWay' = {[name |-> t_name'[made'], data |-> Original(c, made)']}
<1>1. made # 0 => (Uploading(made) <=> PutSent(c)) /\ (PutSent(c) => made # 0)
  BY DEF Known, Seen, PutSent
<1>2. made' # 0 => (Uploading(made)' <=> PutSent(c)') /\ (PutSent(c)' => made' # 0)
  BY DEF Known, Seen, PutSent
<1>3. made = 0 => ~PutSent(c)
  BY DEF PutSent
<1>4. made' = 0 => ~PutSent(c)'
  BY DEF PutSent
<1> QED BY <1>1, <1>2, <1>3, <1>4 DEF OnItsWay, Original

LEMMA CdTaken ==
    ASSUME Smooth, NEW c \in Clients, c = TheClient, Known, Known', NEW t \in Conns, t = made, made # 0,
           UNCHANGED clientVars, handle_cd_request(t)
    PROVE  SessionStep
<1>1. t_pc \in [Conns -> ServerPlaces] /\ Handlers
  BY FunctionsOf DEF Known, SmoothInv
<1>2. /\ t_pc[t] = "reply" /\ t_pc'[t] \in {"request", "close"} /\ UNCHANGED <<made, files>>
      /\ t_dir' = IF <<t_dir[t], t_name[t]>> \in Subdirs
                  THEN [t_dir EXCEPT ![t] = t_name[t]] ELSE t_dir
  BY <1>1 DEF handle_cd_request, Replies, ServerSends, Jump
<1>3. CASE <<t_dir[t], t_name[t]>> \notin Subdirs
  <2>1. t_dir' = t_dir
    BY <1>2, <1>3
  <2> QED BY <1>2, <2>1, ElsewhereUnseen DEF PutPlaces, SessionStep, Unchanged
<1>4. CASE <<t_dir[t], t_name[t]>> \in Subdirs
  <2>1. ~UploadSent(c, t) /\ ~UploadSent(c, t)'
    BY <1>2 DEF UploadSent, Storing
  <2>2. OnItsWay = {} /\ OnItsWay' = {}
    BY <1>2, <2>1, OnWay DEF PutSent
  <2>3. t_name[t] \in Dirs
    BY <1>4, FtpWireAssumption
  <2>4. CurrentDir = t_dir[t] /\ CurrentDir' = t_name[t]
    BY <1>1, <1>2, <1>4 DEF CurrentDir, Handlers
  <2>5. files' = files /\ c_files'[TheClient] = c_files[TheClient]
    BY <1>2 DEF clientVars
  <2>6. Session!Enter(t_name[t])
    BY <1>4, <2>2, <2>4, <2>5 DEF Session!Enter
  <2> QED BY <2>3, <2>6 DEF SessionStep, Session!Next
<1> QED BY <1>3, <1>4

(* Nothing is on its way in a thread that ends.                            *)
LEMMA CloseTaken ==
    ASSUME Smooth, NEW c \in Clients, c = TheClient, Known, Known', NEW t \in Conns,
           UNCHANGED clientVars, CloseFd(t)
    PROVE  SessionStep
<1>1. t_pc \in [Conns -> ServerPlaces] /\ Handlers
  BY FunctionsOf DEF Known, SmoothInv
<1>2. /\ t_pc[t] = "close" /\ t_pc' = [t_pc EXCEPT ![t] = "ended"]
      /\ t_dir' = [t_dir EXCEPT ![t] = TopDir] /\ UNCHANGED <<made, files, s2c>>
  BY DEF CloseFd, Jump, clientSide
<1>3. OthersAlone(t)
  BY ThreadAlone DEF Known, SmoothInv, ThreadStep
<1>4. c_files'[TheClient] = c_files[TheClient] /\ c_sock' = c_sock /\ c_pc' = c_pc /\ c_files' = c_files
  BY DEF clientVars
<1>5. CASE t = made
  <2>1. ~PutSent(c) /\ ~PutSent(c)'
    BY <1>1, <1>2, <1>5 DEF PutSent, UploadSent, Storing
  <2>2. OnItsWay = {} /\ OnItsWay' = {}
    BY <2>1, OnWay
  <2>3. CurrentDir' = TopDir
    BY <1>1, <1>2, <1>5 DEF CurrentDir, Handlers
  <2>4. Session!Login
    BY <1>2, <1>4, <2>2, <2>3 DEF Session!Login
  <2> QED BY <2>4 DEF SessionStep, Session!Next
<1>6. CASE t # made
  <2>1. ASSUME made # 0 PROVE SameStore(c, made) /\ t_dir'[made] = t_dir[made]
    <3>1. made \in Conns \ {t}
      BY <1>6, <2>1, LastMade DEF Known, SmoothInv
    <3> QED BY <1>2, <1>3, <1>4, <3>1 DEF OthersAlone, SameStore
  <2>2. ASSUME made # 0 PROVE UploadSent(c, made)' <=> UploadSent(c, made)
    <3>1. made \in Conns
      BY <2>2, LastMade DEF Known, SmoothInv
    <3>2. PICK k \in Conns : k = made
      BY <3>1
    <3>3. Storing(c, k)' <=> Storing(c, k)
      BY <2>1, <2>2, <3>2, StoringSame
    <3> QED BY <1>2, <1>4, <3>2, <3>3 DEF UploadSent, Storing, Original, FileOf
  <2>3. PutSent(c)' <=> PutSent(c)
    BY <1>2, <1>4, <2>2 DEF PutSent
  <2>4. made # 0 => t_name'[made] = t_name[made]
    BY <2>1 DEF SameStore
  <2>5. Unchanged
    BY <1>2, <1>4, <2>1, <2>3, <2>4, Unseen
  <2> QED BY <2>5 DEF SessionStep, Unchanged
<1> QED BY <1>5, <1>6

(* The file is emptied, and written, from what is on its way.              *)
LEMMA PutTaken ==
    ASSUME Smooth, Sole, NEW c \in Clients, c = TheClient, Known, Known', NEW t \in Conns, t = made,
           made # 0, c_sock[c] = t, UNCHANGED clientVars, PutOpen(t) \/ PutWrite(t)
    PROVE  SessionStep
<1>1. /\ t_pc \in [Conns -> ServerPlaces] /\ Handlers /\ t_buf \in [Conns -> Short]
      /\ files \in [Files -> {NoFile} \union Mixed] /\ OrderlyInv
  BY FunctionsOf DEF Known, SmoothInv
<1>2. t_pc[t] \in {"putOpen", "putWrite"} /\ UNCHANGED <<made, t_dir, t_name>>
  BY DEF PutOpen, PutWrite, WithFile, wire
<1>3. PutSent(c)
  BY <1>2 DEF Known, Seen, Uploading
<1>4. Storing(c, t) /\ t_name[t] \in FileNames
  BY <1>3 DEF PutSent, UploadSent, Storing
<1>5. FileOf(t) = <<t_dir[t], t_name[t]>> /\ FileOf(t) \in Files
  BY <1>1, <1>4 DEF FileOf, Files, Handlers
<1>6. CurrentDir = t_dir[t] /\ CurrentDir' = CurrentDir
  BY <1>2 DEF CurrentDir
<1>7. c_files'[TheClient] = c_files[TheClient] /\ c_files'[c] = c_files[c]
  BY DEF clientVars
<1> DEFINE u == [name |-> t_name[t], data |-> Original(c, t)]
<1>8. OnItsWay = {u}
  BY <1>3, OnWay
<1>9. u.name = t_name[t] /\ u.data = Original(c, t)
  OBVIOUS
<1> HIDE DEF u
<1>10. CASE PutOpen(t)
  <2>1. OpenMayFail = {FALSE}
    BY DEF OpenMayFail, Smooth
  <2>2. /\ t_pc' = [t_pc EXCEPT ![t] = "putWrite"]
        /\ files' = [files EXCEPT ![FileOf(t)] = <<>>]
    BY <1>5, <1>10, <2>1 DEF PutOpen, Jump, Emptied
  <2>3. t_pc'[t] = "putWrite"
    BY <1>1, <2>2
  <2>4. PutSent(c)'
    BY <1>2, <2>3 DEF Known, Seen, Uploading
  <2>5. OnItsWay' = OnItsWay
    BY <1>2, <1>3, <1>7, <2>4, OnWay DEF Original
  <2>6. Session!Truncate
    BY <1>5, <1>6, <1>7, <1>8, <1>9, <2>2, <2>5 DEF Session!Truncate
  <2> QED BY <2>6 DEF SessionStep, Session!Next
<1>11. CASE PutWrite(t)
  <2>1. /\ t_pc[t] = "putWrite" /\ t_pc' = [t_pc EXCEPT ![t] = "request"]
        /\ files' = [files EXCEPT ![FileOf(t)] = Written(@, t_buf[t])]
    BY <1>11 DEF PutWrite, WithFile, Jump
  <2>2. files'[FileOf(t)] = Original(c, t)
    BY <1>1, <1>4, <1>5, <2>1, WriteStores
  <2>3. files' = [files EXCEPT ![FileOf(t)] = Original(c, t)]
    BY <1>1, <1>5, <2>1, <2>2
  <2>4. t_pc'[t] = "request"
    BY <1>1, <2>1
  <2>5. ~PutSent(c)'
    BY <1>2, <2>4 DEF PutSent, UploadSent, Storing
  <2>6. OnItsWay' = {}
    BY <2>5, OnWay
  <2>7. Session!Store
    BY <1>5, <1>6, <1>7, <1>8, <1>9, <2>3, <2>6 DEF Session!Store
  <2> QED BY <2>7 DEF SessionStep, Session!Next
<1> QED BY <1>10, <1>11

LEMMA ThreadTaken ==
    ASSUME Smooth, Sole, NEW c \in Clients, c = TheClient, Known, Known', NEW t \in Conns,
           UNCHANGED clientVars, ThreadStep(t)
    PROVE  SessionStep
<1>1. OrderlyInv /\ DescriptorInv /\ Newest
  BY DEF Known, SmoothInv, OrderlyInv
<1>2. ~(ReadClosedFd(t) \/ ReadReset(t) \/ ReadEof(t))
  BY <1>1, ReadsWell
<1>3. ~(LsFails(t) \/ ReadFileFails(t))
  BY DEF Smooth, LsFails, ReadFileFails
<1>4. CASE CloseFd(t)
  BY <1>4, CloseTaken
<1>5. ASSUME t_pc[t] \notin {"idle", "close", "ended"}
      PROVE  t = made /\ made # 0 /\ c_sock[c] = t /\ made' = made
  BY <1>1, <1>5, LastServes, ThreadGoes
<1>6. CASE EnterRead(t) \/ ReadPart(t)
  <2>1. /\ t_pc[t] \in RecvPlaces /\ UNCHANGED <<t_pc, t_dir, s2c, files>>
        /\ t_pc[t] # "request" => UNCHANGED handler
    BY <1>1, <1>6, ReadsWell DEF EnterRead, ReadPart, Takes, clientSide
  <2>2. t = made /\ made' = made
    BY <1>5, <2>1 DEF RecvPlaces
  <2> QED BY <2>1, <2>2, ReadsUnseen DEF SessionStep, Unchanged
<1>7. CASE ReadRequest(t) \/ ReadPayload(t)
  <2>1. t = made
    BY <1>5, <1>7 DEF ReadRequest, ReadPayload, ReadAll
  <2> QED BY <1>7, <2>1, MessagesUnseen DEF SessionStep, Unchanged
<1>8. CASE ReadPutHeader(t) \/ ReadPutBody(t)
  <2>1. t = made /\ made' = made /\ c_sock[c] = t
    BY <1>5, <1>8 DEF ReadPutHeader, ReadPutBody, ReadAll
  <2> QED BY <1>8, <2>1, PutReadsUnseen DEF SessionStep, Unchanged
<1>9. CASE \/ handle_open_conn_request(t) \/ handle_quit_request(t) \/ handle_ls_request(t)
           \/ handle_get(t) \/ handle_sha256(t)
           \/ ReadFile(t) \/ Sha256Sum(t) \/ SendDataHeader(t) \/ SendDataBody(t) \/ SendListing(t)
  <2>1. t = made
    BY <1>5, <1>9 DEF handle_open_conn_request, handle_quit_request, handle_ls_request, handle_get,
       handle_sha256, Replies, ReadFile, Sha256Sum, WithFile, SendDataHeader, SendDataBody, SendListing
  <2> QED BY <1>9, <2>1, SendsUnseen DEF SessionStep, Unchanged
<1>10. CASE handle_put(t)
  <2>1. t = made
    BY <1>5, <1>10 DEF handle_put, Replies
  <2> QED BY <1>10, <2>1, PutRepliedUnseen DEF SessionStep, Unchanged
<1>11. CASE handle_cd_request(t)
  <2>1. t = made /\ made # 0
    BY <1>5, <1>11 DEF handle_cd_request, Replies
  <2> QED BY <1>11, <2>1, CdTaken
<1>12. CASE PutOpen(t) \/ PutWrite(t)
  <2>1. t = made /\ made # 0 /\ c_sock[c] = t
    BY <1>5, <1>12 DEF PutOpen, PutWrite, WithFile
  <2> QED BY <1>12, <2>1, PutTaken
<1> QED BY <1>2, <1>3, <1>4, <1>6, <1>7, <1>8, <1>9, <1>10, <1>11, <1>12 DEF ThreadStep
-----------------------------------------------------------------------------
(* The steps of the client, as the session sees them                       *)

(* It receives, or ends: what is there for the thread is the same.         *)
LEMMA SilentUnseen ==
    ASSUME NEW c \in Clients, c = TheClient, UNCHANGED <<serverVars, made, c2s>>,
           c_files'[c] = c_files[c]
    PROVE  Unchanged
<1>1. /\ t_pc' = t_pc /\ t_dir' = t_dir /\ t_name' = t_name /\ t_len' = t_len
      /\ t_got' = t_got /\ files' = files
  BY DEF serverVars
<1>2. CurrentDir' = CurrentDir
  BY <1>1 DEF CurrentDir
<1>3. \A k : Uploading(k)' <=> Uploading(k)
  BY <1>1 DEF Uploading
<1>4. OnItsWay' = OnItsWay
  BY <1>1, <1>3 DEF OnItsWay
<1> QED BY <1>1, <1>2, <1>4 DEF Unchanged, Session!vars

(* It sends, and neither was nor is in the second half of put.             *)
LEMMA SaysUnseen ==
    ASSUME NEW c \in Clients, c = TheClient, Known, Known', UNCHANGED <<serverVars, made, s2c, c_sock>>,
           c_files'[c] = c_files[c],
           c_pc[c] \in {"fileHeader", "fileBody"} <=> c_pc'[c] \in {"fileHeader", "fileBody"}
    PROVE  Unchanged
<1>1. /\ t_pc' = t_pc /\ t_dir' = t_dir /\ t_name' = t_name /\ t_len' = t_len
      /\ t_buf' = t_buf /\ files' = files
  BY DEF serverVars
<1>2. \A k : UploadSent(c, k)' <=> UploadSent(c, k)
  BY <1>1 DEF UploadSent, Storing, Original, FileOf
<1>3. PutSent(c)' <=> PutSent(c)
  BY <1>2 DEF PutSent
<1> QED BY <1>1, <1>3, Unseen

LEMMA ReceivesUnseen ==
    ASSUME NEW c \in Clients, c = TheClient, UNCHANGED serverVars,
           \/ OpenReply(c) \/ QuitReply(c) \/ LsReply(c) \/ CdReply(c) \/ GetReply(c)
           \/ PutReply(c) \/ ShaReply(c) \/ GetHeader(c) \/ ShaHeader(c) \/ LsBody(c) \/ ShaBody(c)
    PROVE  Unchanged
<1>1. \E place, cmd : Awaits(c, place, cmd)
  BY DEF OpenReply, QuitReply, LsReply, CdReply, GetReply, PutReply, ShaReply,
         GetHeader, ShaHeader, LsBody, ShaBody
<1>2. UNCHANGED <<made, c2s>>
  BY <1>1 DEF Awaits, serverSide
<1>3. c_files' = c_files
  BY DEF OpenReply, QuitReply, LsReply, CdReply, GetReply, PutReply, ShaReply,
         GetHeader, ShaHeader, LsBody, ShaBody
<1> QED BY <1>2, <1>3, SilentUnseen

LEMMA CommandsUnseen ==
    ASSUME NEW c \in Clients, c = TheClient, Known, Known', UNCHANGED serverVars,
           \/ Quit(c) \/ Ls(c) \/ Cd(c) \/ Get(c) \/ Put(c) \/ Sha256(c) \/ SendName(c)
    PROVE  Unchanged
<1>1. ClientTypeOK
  BY TypesOf DEF Known, SmoothInv
<1>2. ASSUME NEW units, NEW place \in {"reply", "name"}, ClientSends(c, units), Goto(c, place),
             UNCHANGED <<c_files, s2c, made>>, c_pc[c] \in {"prompt", "name"}
      PROVE  Unchanged
  <2>1. c_pc'[c] = place /\ c_sock' = c_sock
    BY <1>1, <1>2 DEF Goto, ClientSends, ClientTypeOK
  <2> QED BY <1>2, <2>1, SaysUnseen
<1>3. ASSUME NEW cmd, CannotSend(c, cmd), UNCHANGED <<c_files, made>> PROVE Unchanged
  BY <1>3, SilentUnseen DEF CannotSend
<1>4. CASE SendName(c)
  <2>1. /\ c_pc[c] = "name" /\ UNCHANGED <<c_files, s2c, made>>
        /\ \/ \E units : ClientSends(c, units) /\ Goto(c, "reply")
           \/ \E cmd : CannotSend(c, cmd)
    BY <1>4 DEF SendName, serverSide
  <2> QED BY <1>2, <1>3, <2>1
<1>5. CASE Quit(c) \/ Ls(c) \/ Cd(c) \/ Get(c) \/ Put(c) \/ Sha256(c)
  <2>1. PICK cmd, n : Command(c, cmd, n)
    BY <1>5 DEF Quit, Ls, Cd, Get, Put, Sha256, NamesFile
  <2>2. /\ c_pc[c] = "prompt" /\ UNCHANGED <<c_files, s2c, made>>
        /\ \/ \E units : /\ ClientSends(c, units)
                         /\ Goto(c, "reply") \/ Goto(c, "name")
           \/ CannotSend(c, cmd)
    BY <2>1 DEF Command, serverSide
  <2> QED BY <1>2, <1>3, <2>2
<1> QED BY <1>4, <1>5

(* With a file that is not empty the header alone is no upload.            *)
LEMMA PutBegun ==
    ASSUME NEW c \in Clients, c = TheClient, Known, Known', UNCHANGED serverVars,
           NEW units, ClientSends(c, units), Goto(c, "fileBody"), c_pc[c] = "fileHeader",
           UNCHANGED <<c_files, s2c, made>>
    PROVE  Unchanged
<1>1. ClientTypeOK
  BY TypesOf DEF Known, SmoothInv
<1>2. c_pc'[c] = "fileBody" /\ c_sock' = c_sock
  BY <1>1 DEF Goto, ClientSends, ClientTypeOK
<1> QED BY <1>2, SaysUnseen

(* The last send of put is the put of the session.                         *)
LEMMA PutMade ==
    ASSUME Smooth, NEW c \in Clients, c = TheClient, Known, Known', UNCHANGED serverVars,
           NEW units, ClientSends(c, units), c_pc[c] \in {"fileHeader", "fileBody"}, Return(c, 0),
           UNCHANGED <<c_files, s2c, made>>
    PROVE  SessionStep
<1>1. ClientTypeOK /\ OrderlyInv /\ StepInv /\ Newest
  BY TypesOf DEF Known, SmoothInv
<1>2. PICK k \in Conns : c_sock[c] = k
  BY <1>1, HasConn
<1>3. k = made /\ made # 0 /\ Paired(c, k)
  BY <1>1, <1>2, Connected, Numbers DEF Newest, NoConn
<1>4. s2c[k] = <<>> /\ Storing(c, k) /\ t_name[k] = c_arg[c]
  BY <1>3 DEF Paired
<1>5. c_pc'[c] = "prompt" /\ c_sock' = c_sock
  BY <1>1 DEF Return, ClientSends, ClientTypeOK
<1>6. t_pc' = t_pc /\ t_name' = t_name /\ t_len' = t_len /\ t_buf' = t_buf /\ t_dir' = t_dir
      /\ files' = files
  BY DEF serverVars
<1>7. Storing(c, k)'
  BY <1>4, <1>6 DEF Storing, Original, FileOf
<1>8. ~PutSent(c) /\ PutSent(c)'
  BY <1>2, <1>3, <1>4, <1>5, <1>7 DEF PutSent, UploadSent
<1>9. OnItsWay = {} /\ OnItsWay' = {[name |-> t_name[made], data |-> Original(c, made)]}
  BY <1>6, <1>8, OnWay DEF Original
<1>10. /\ c_arg[c] \in FileNames /\ Original(c, made) = c_files[TheClient][c_arg[c]]
       /\ c_files[TheClient][c_arg[c]] # NoFile
  BY <1>3, <1>4, MixedThere DEF Storing, Original
<1>11. CurrentDir' = CurrentDir
  BY <1>6 DEF CurrentDir
<1>12. Session!Put(c_arg[c])
  BY <1>3, <1>4, <1>6, <1>9, <1>10, <1>11 DEF Session!Put
<1> QED BY <1>10, <1>12 DEF SessionStep, Session!Next

LEMMA SendFileTaken ==
    ASSUME Smooth, NEW c \in Clients, c = TheClient, Known, Known', UNCHANGED serverVars,
           FileHeader(c) \/ FileBody(c)
    PROVE  SessionStep
<1>1. UNCHANGED <<c_files, s2c, made>> /\ c_pc[c] \in {"fileHeader", "fileBody"}
  BY DEF FileHeader, FileBody, serverSide
<1>2. CASE \E cmd : CannotSend(c, cmd)
  <2>1. UNCHANGED c2s
    BY <1>2 DEF CannotSend
  <2> QED BY <1>1, <2>1, SilentUnseen DEF SessionStep, Unchanged
<1>3. CASE \E units : ClientSends(c, units) /\ Return(c, 0)
  BY <1>1, <1>3, PutMade
<1>4. CASE c_pc[c] = "fileHeader" /\ \E units : ClientSends(c, units) /\ Goto(c, "fileBody")
  BY <1>1, <1>4, PutBegun DEF SessionStep, Unchanged
<1> QED BY <1>2, <1>3, <1>4 DEF FileHeader, FileBody

(* What get writes is the file of the server.                              *)
LEMMA GetTaken ==
    ASSUME Smooth, Sole, NEW c \in Clients, c = TheClient, Known, Known', UNCHANGED serverVars,
           GetBody(c)
    PROVE  SessionStep
<1>1. /\ ClientTypeOK /\ OrderlyInv /\ StepInv /\ Newest
      /\ files \in [Files -> {NoFile} \union Mixed]
  BY TypesOf, FunctionsOf DEF Known, SmoothInv
<1>2. c_pc[c] = "body" /\ c_cmd[c] = "get" /\ made' = made
  BY DEF GetBody, Awaits, serverSide
<1>3. PICK k \in Conns : c_sock[c] = k
  BY <1>1, <1>2, HasConn
<1>4. k = made /\ made # 0 /\ Paired(c, k) /\ Typing(c)
  BY <1>1, <1>3, Connected, Numbers DEF Newest, NoConn
<1>5. c_arg[c] \in FileNames
  BY <1>2, <1>4 DEF Typing
<1>6. PICK o \in Received(c, c_len[c]) :
         \/ o.end = "full" /\ c_files' = [c_files EXCEPT ![c][c_arg[c]] = o.units]
         \/ o.end # "full"
  BY DEF GetBody, Smooth, OpenMayFail
<1>7. o.end = "full" /\ o.rest = <<>> /\ t_pc[k] = "request"
  BY <1>1, <1>2, <1>3, BodyCame
<1>8. s2c[k] = o.units
  <2>1. Came(k, c_len[c], o)
    <3>1. c_len[c] \in Nat
      BY <1>1 DEF ClientTypeOK
    <3> QED BY <1>1, <1>3, <3>1, Outcomes
  <2>2. s2c[k] = o.units \o <<>> /\ o.units \in Seq(Units)
    BY <1>7, <2>1 DEF Came
  <2> QED BY <2>2, NoUnits
<1>9. o.units = TheFile(c, k) /\ o.units \in Short
  <2>1. GetAnswered(c, k)
    BY <1>2, <1>4 DEF Paired, Answered, OpenAnswered, QuitAnswered, CdAnswered, PutAnswered,
                      LsAnswered, GetRefused, GetBegun
  <2>2. ToCome(k) = TheFile(c, k) /\ ToCome(k) \in Short
    BY <1>2, <2>1 DEF GetAnswered
  <2>3. s2c[k] \in Seq(Units)
    BY <1>1, <1>3, Connected
  <2>4. ToCome(k) = s2c[k]
    BY <1>7, <2>3, NoUnits DEF ToCome, Unanswered
  <2> QED BY <1>8, <2>2, <2>4
<1>10. o.units # NoFile
  BY <1>9, MixedThere
<1>11. c_files'[c] = [c_files[c] EXCEPT ![c_arg[c]] = o.units]
  BY <1>1, <1>6, <1>7 DEF ClientTypeOK
<1>12. t_pc' = t_pc /\ t_dir' = t_dir /\ files' = files
  BY DEF serverVars
<1>13. ~PutSent(c) /\ ~PutSent(c)'
  BY <1>2, <1>4, <1>7, <1>12 DEF PutSent, UploadSent, Storing
<1>14. OnItsWay = {} /\ OnItsWay' = {}
  BY <1>13, OnWay
<1>15. CurrentDir = t_dir[k] /\ CurrentDir' = t_dir[k]
  BY <1>2, <1>4, <1>12 DEF CurrentDir
<1>16. files[<<CurrentDir, c_arg[c]>>] = o.units
  BY <1>9, <1>15 DEF TheFile
<1>17. c_files'[TheClient] = [c_files[TheClient] EXCEPT ![c_arg[c]] = o.units]
  BY <1>11
<1>18. Session!Get(c_arg[c])
  BY <1>10, <1>12, <1>14, <1>15, <1>16, <1>17 DEF Session!Get
<1> QED BY <1>5, <1>18 DEF SessionStep, Session!Next

(* A new connection is a new session: the thread of the one before has     *)
(* said that it is done, or there was none.                                *)
LEMMA OpenTaken ==
    ASSUME Smooth, Sole, NEW c \in Clients, c = TheClient, Known, Known', UNCHANGED serverVars,
           Open(c)
    PROVE  SessionStep
<1>1. /\ OrderlyInv /\ Newest /\ made \in 0 .. MaxConns /\ accepted \in 0 .. made
      /\ MaxConns \in Nat
  BY FtpWireAssumption DEF Known, SmoothInv, OrderlyInv, DescriptorInv, ControlTypeOK
<1>2. /\ c_sock[c] = NoConn /\ made' = made + 1 /\ made < MaxConns /\ c_files' = c_files
  BY DEF Open, Smooth, Orderly
<1>3. ~PutSent(c)
  BY <1>2 DEF PutSent, NoConn
<1>4. PICK k \in Conns : k = made'
  BY <1>1, <1>2 DEF Conns
<1>5. t_pc[k] = "idle" /\ t_dir[k] = TopDir
  <2>1. k > accepted /\ HasOwn(k)
    BY <1>1, <1>2, <1>4 DEF OrderlyInv, FramesInv, ThreadInv
  <2> QED BY <1>1, <2>1 DEF HasOwn, Newest
<1>6. t_pc' = t_pc /\ t_dir' = t_dir /\ files' = files
  BY DEF serverVars
<1>7. ~PutSent(c)'
  BY <1>4, <1>5, <1>6 DEF PutSent, UploadSent, Storing
<1>8. OnItsWay = {} /\ OnItsWay' = {}
  BY <1>3, <1>7, OnWay
<1>9. CurrentDir' = TopDir
  BY <1>4, <1>5, <1>6 DEF CurrentDir
<1>10. Session!Login
  BY <1>2, <1>6, <1>8, <1>9 DEF Session!Login
<1> QED BY <1>10 DEF SessionStep, Session!Next

LEMMA ClientTaken ==
    ASSUME Smooth, Sole, NEW c \in Clients, c = TheClient, Known, Known', UNCHANGED serverVars,
           ProgramStep(c) \/ UserStep(c)
    PROVE  SessionStep
<1>1. CASE \/ OpenReply(c) \/ QuitReply(c) \/ LsReply(c) \/ CdReply(c) \/ GetReply(c)
           \/ PutReply(c) \/ ShaReply(c) \/ GetHeader(c) \/ ShaHeader(c) \/ LsBody(c) \/ ShaBody(c)
  BY <1>1, ReceivesUnseen DEF SessionStep, Unchanged
<1>2. CASE Quit(c) \/ Ls(c) \/ Cd(c) \/ Get(c) \/ Put(c) \/ Sha256(c) \/ SendName(c)
  BY <1>2, CommandsUnseen DEF SessionStep, Unchanged
<1>3. CASE FileHeader(c) \/ FileBody(c)
  BY <1>3, SendFileTaken
<1>4. CASE GetBody(c)
  BY <1>4, GetTaken
<1>5. CASE Open(c)
  BY <1>5, OpenTaken
<1>6. CASE OpenRefused(c) \/ Exit(c) \/ Killed(c) \/ PutMissing(c)
  <2>1. UNCHANGED <<made, c2s, c_files>>
    BY <1>6 DEF OpenRefused, Exit, Killed, Gone, PutMissing, wire, serverSide
  <2> QED BY <2>1, SilentUnseen DEF SessionStep, Unchanged
<1> QED BY <1>1, <1>2, <1>3, <1>4, <1>5, <1>6 DEF ProgramStep, UserStep

LEMMA AcceptTaken ==
    ASSUME Smooth, NEW c \in Clients, c = TheClient, Known, Known', AcceptStep
    PROVE  SessionStep
<1>1. /\ OrderlyInv /\ made \in 0 .. MaxConns /\ accepted \in 0 .. made /\ MaxConns \in Nat
      /\ t_pc \in [Conns -> ServerPlaces]
  BY FtpWireAssumption DEF Known, SmoothInv, OrderlyInv, DescriptorInv, ControlTypeOK
<1>2. PICK t \in Conns : t = accepted + 1
  BY <1>1 DEF AcceptStep, Accept, Queued, Conns
<1>3. /\ t_pc' = [t_pc EXCEPT ![t] = "request"]
      /\ UNCHANGED <<clientVars, made, s2c, t_dir, t_name, t_len, t_buf, files>>
  BY <1>2 DEF AcceptStep, Accept, Jump, clientSide, handler
<1>4. t_pc[t] = "idle"
  <2>1. t > accepted /\ HasOwn(t)
    BY <1>1, <1>2 DEF OrderlyInv, FramesInv, ThreadInv
  <2> QED BY <2>1 DEF HasOwn
<1>5. UNCHANGED <<c_files, c_sock, c_pc>>
  BY <1>3 DEF clientVars
<1>6. ASSUME made # 0 PROVE UploadSent(c, made)' <=> UploadSent(c, made)
  <2>1. PICK k \in Conns : k = made
    BY <1>1, <1>6, LastMade
  <2>2. CASE k = t
    BY <1>1, <1>3, <1>4, <2>1, <2>2 DEF UploadSent, Storing
  <2>3. CASE k # t
    <3>1. t_pc'[k] = t_pc[k]
      BY <1>1, <1>3, <2>3
    <3> QED BY <1>3, <1>5, <2>1, <3>1 DEF UploadSent, Storing, Original, FileOf
  <2> QED BY <2>2, <2>3
<1>7. PutSent(c)' <=> PutSent(c)
  BY <1>3, <1>5, <1>6 DEF PutSent
<1>8. Unchanged
  BY <1>3, <1>5, <1>7, Unseen
<1> QED BY <1>8 DEF SessionStep, Unchanged

LEMMA StepTaken ==
    ASSUME Smooth, Sole, Clients # {}, Known, Known', [Next]_vars
    PROVE  SessionStep
<1>1. TheClient \in Clients /\ \A c \in Clients : c = TheClient
  BY OnlyClient
<1>2. PICK d \in Clients : d = TheClient
  BY <1>1
<1>3. CASE AcceptStep
  BY <1>2, <1>3, AcceptTaken
<1>4. ASSUME NEW c \in Clients, ClientStep(c) \/ (UserStep(c) /\ UNCHANGED serverVars) PROVE SessionStep
  BY <1>1, <1>4, ClientTaken DEF ClientStep
<1>5. ASSUME NEW t \in Conns, ServerStep(t) PROVE SessionStep
  BY <1>2, <1>5, ThreadTaken DEF ServerStep
<1>6. ASSUME NEW t \in Conns PROVE ~BrokenPipe(t)
  BY ReadsWell DEF Known, SmoothInv
<1>7. CASE UNCHANGED vars
  <2>1. UNCHANGED <<serverVars, made, c2s>> /\ c_files' = c_files
    BY <1>7 DEF vars, wire, clientVars
  <2> QED BY <1>2, <2>1, SilentUnseen DEF SessionStep, Unchanged
<1> QED BY <1>3, <1>4, <1>5, <1>6, <1>7 DEF Next

(* With one client, and as long as nothing fails, the programs do what     *)
(* RemoteFiles says: get brings what is stored, put stores what was put,   *)
(* whole and before any later command sees it, in the current directory.   *)
THEOREM SessionStepsTaken ==
    ASSUME Smooth, Sole, Clients # {} PROVE Spec => SessionSteps
<1>1. Init => Known
  <2> SUFFICES ASSUME Init PROVE Known
    OBVIOUS
  <2>1. SmoothInv
    BY SmoothRun
  <2>2. Newest
    BY DEF Init, ClientInit, ServerInit, Newest
  <2> QED BY <2>1, <2>2, SeenThere DEF Known
<1>2. Known /\ [Next]_vars => Known'
  <2> SUFFICES ASSUME Known, [Next]_vars PROVE Known'
    OBVIOUS
  <2>1. SmoothInv'
    BY SmoothRun DEF Known
  <2>2. Newest'
    BY NewestKept DEF Known, SmoothInv
  <2>3. (SmoothInv /\ Newest => Seen)'
    BY SeenThere, PTL
  <2> QED BY <2>1, <2>2, <2>3 DEF Known
<1>3. Known /\ Known' /\ [Next]_vars => [Session!Next]_(Session!vars)
  BY StepTaken DEF SessionStep
<1>4. Init => Session!Init
  <2> SUFFICES ASSUME Init PROVE Session!Init
    OBVIOUS
  <2>1. made = 0 /\ files = ServerFiles /\ c_files = LocalFiles
    BY DEF Init, WireInit, ClientInit, ServerInit
  <2>2. CurrentDir = TopDir /\ OnItsWay = {}
    BY <2>1 DEF CurrentDir, OnItsWay
  <2> QED BY <2>1, <2>2 DEF Session!Init
<1> QED BY <1>1, <1>2, <1>3, <1>4, PTL DEF Spec, SessionSteps
=============================================================================
