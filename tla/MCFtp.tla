-------------------------------- MODULE MCFtp --------------------------------
(***************************************************************************)
(* Values for the constants of Ftp: a directory with one subdirectory, and *)
(* files of different lengths.                                             *)
(***************************************************************************)
EXTENDS FtpSession

CONSTANTS Top, Sub, f, a, b,
          CommandsOfA, CommandsOfB

Text(s) == [i \in DOMAIN s |-> Data(s[i])]
Tree == {<<Top, Sub>>} \intersect (Dirs \X Dirs)
SomeFiles == [x \in Files |-> Text(<<"s">>)]
FileInSub == [x \in Files |-> IF x[1] = Sub THEN Text(<<"s">>) ELSE NoFile]
OwnFiles == [c \in Clients |->
                [n \in FileNames |-> IF c = a THEN Text(<<"a", "a">>) ELSE Text(<<"b">>)]]
NoOwnFiles == [c \in Clients |-> [n \in FileNames |-> NoFile]]
Typed == [c \in Clients |-> IF c = a THEN CommandsOfA ELSE CommandsOfB]
=============================================================================
